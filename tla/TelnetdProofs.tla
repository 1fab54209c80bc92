---------------------------- MODULE TelnetdProofs ----------------------------
(* Theorems about Telnetd, with their proofs, for any number of sessions    *)
(* and connections, any sizes of queues and buffers and any bytes.          *)
EXTENDS TelnetdProps, SequenceTheorems, WellFoundedInduction, TLAPS

-----------------------------------------------------------------------------
(* Induction over a sequence, with sets for predicates                      *)

\* A set of numbers that is not empty has a least one.
LEMMA LeastNumber ==
  ASSUME NEW T, T \subseteq Nat, T # {}
  PROVE  \E x \in T : \A y \in T : x <= y
<1>1. PICK x \in T : \A y \in T : ~ (<<y, x>> \in OpToRel(<, Nat))
  BY NatLessThanWellFounded, WFMin
<1>2. \A y \in T : ~ (y < x)
  BY <1>1 DEF OpToRel
<1>3. \A y \in T : x <= y
  BY <1>2
<1>4. QED BY <1>3

\* A set of numbers with 0 in it, and with each number the next, is all of 0..N.
LEMMA UpTo ==
  ASSUME NEW N \in Nat, NEW T, 0 \in T,
         \A n \in 1..N : n - 1 \in T => n \in T
  PROVE  \A n \in 0..N : n \in T
<1>1. SUFFICES ASSUME NEW m \in 0..N, m \notin T PROVE FALSE
  OBVIOUS
<1> DEFINE U == {n \in 0..N : n \notin T}
<1>2. U \subseteq Nat /\ U # {}
  BY <1>1
<1> HIDE DEF U
<1>3. PICK x \in U : \A y \in U : x <= y
  BY <1>2, LeastNumber
<1>4. x \in 0..N /\ x \notin T
  BY <1>3 DEF U
<1>5. x # 0
  BY <1>4
<1>6. x \in 1..N /\ x - 1 \in 0..N
  BY <1>4, <1>5
<1>7. x - 1 \in U
  BY <1>4, <1>6 DEF U
<1>8. x <= x - 1
  BY <1>3, <1>7
<1>9. QED BY <1>6, <1>8

\* f is defined on 0..N by its value at 0 and by a step from each number to the next.
Solves(f, N, base, step) ==
  f = [n \in 0..N |-> IF n = 0 THEN base ELSE step[<<f[n - 1], n>>]]

\* Such a function exists.
LEMMA Recursion ==
  ASSUME NEW N \in Nat, NEW V, NEW base \in V, NEW step \in [V \X (1..N) -> V]
  PROVE  \E f \in [0..N -> V] : Solves(f, N, base, step)
<1> USE DEF Solves
<1> DEFINE Is(f, m) == Solves(f, m, base, step)
           T == {m \in 0..N : \E f \in [0..m -> V] : Is(f, m)}
<1>1. 0 \in T
  <2> DEFINE f == [n \in 0..0 |-> base]
  <2>1. f \in [0..0 -> V] /\ Is(f, 0)
    OBVIOUS
  <2>2. \E g \in [0..0 -> V] : Is(g, 0)
    BY <2>1
  <2> HIDE DEF f, Is
  <2>3. QED BY <2>2
<1>2. ASSUME NEW m \in 1..N, m - 1 \in T PROVE m \in T
  <2>1. PICK f \in [0..(m - 1) -> V] : Is(f, m - 1)
    BY <1>2
  <2> DEFINE v == step[<<f[m - 1], m>>]
             g == [n \in 0..m |-> IF n = m THEN v ELSE f[n]]
  <2>2. m - 1 \in 0..(m - 1) /\ m - 1 \in 0..m /\ m \in 0..m /\ 0 \in 0..(m - 1)
    OBVIOUS
  <2>3. v \in V
    BY <2>1, <2>2
  <2>4. \A n \in 0..m : n # m => n \in 0..(m - 1)
    OBVIOUS
  <2> HIDE DEF v
  <2>5. g \in [0..m -> V]
    BY <2>1, <2>3, <2>4
  <2>6. \A n \in 0..m : g[n] = IF n = 0 THEN base ELSE step[<<g[n - 1], n>>]
    <3>1. ASSUME NEW n \in 0..m PROVE g[n] = IF n = 0 THEN base ELSE step[<<g[n - 1], n>>]
      <4>1. CASE n = m
        <5>1. g[n - 1] = f[m - 1] /\ g[n] = v /\ n # 0
          BY <4>1, <2>2
        <5>2. QED BY <4>1, <5>1 DEF v
      <4>2. CASE n # m
        <5>1. n \in 0..(m - 1) /\ g[n] = f[n]
          BY <4>2
        <5>2. f[n] = IF n = 0 THEN base ELSE step[<<f[n - 1], n>>]
          BY <2>1, <5>1
        <5>3. n # 0 => g[n - 1] = f[n - 1]
          BY <4>2
        <5>4. QED BY <5>1, <5>2, <5>3
      <4>3. QED BY <4>1, <4>2
    <3>2. QED BY <3>1
  <2> DEFINE h == [n \in 0..m |-> IF n = 0 THEN base ELSE step[<<g[n - 1], n>>]]
  <2>7. \A n \in 0..m : g[n] = h[n]
    BY <2>6
  <2>8. g = h
    BY <2>7
  <2>9. \E e \in [0..m -> V] : Is(e, m)
    BY <2>5, <2>8
  <2> HIDE DEF Is, g, h
  <2>10. QED BY <2>9
<1>3. N \in T
  <2> HIDE DEF T
  <2>1. \A n \in 0..N : n \in T
    BY <1>1, <1>2, UpTo
  <2>2. QED BY <2>1
<1>4. QED BY <1>3

-----------------------------------------------------------------------------
(* strip_iac()                                                              *)

\* What strip_iac() has come to: its state, and what it has let through.
Progress(B) == [state : States, out : Seq(B)]

\* The recursive function of StripFrom().
Course(acc, bytes) ==
  CHOOSE f : f = [n \in 0..Len(bytes) |->
                    IF n = 0 THEN acc ELSE StripByte(f[n - 1], bytes[n])]

\* One byte changes the state, and is let through or is not.
LEMMA StripByteIs ==
  ASSUME NEW B, NEW acc \in Progress(B), NEW ch \in B
  PROVE  /\ StripByte(acc, ch) \in Progress(B)
         /\ \/ StripByte(acc, ch).out = acc.out
            \/ StripByte(acc, ch).out = Append(acc.out, ch)
<1>1. \A s \in States : /\ Goes(acc, s) \in Progress(B) /\ Goes(acc, s).out = acc.out
                        /\ Emits(acc, ch, s) \in Progress(B)
                        /\ Emits(acc, ch, s).out = Append(acc.out, ch)
  BY AppendProperties DEF Progress, Goes, Emits
<1>2. acc.state \in States
  BY DEF Progress
<1>3. \E s \in States : \/ StripByte(acc, ch) = Goes(acc, s)
                        \/ StripByte(acc, ch) = Emits(acc, ch, s)
  <2>1. \E s \in States : Data(acc, ch) = Goes(acc, s) \/ Data(acc, ch) = Emits(acc, ch, s)
    BY DEF Data, States
  <2>2. "DATA" \in States /\ "SUB" \in States /\ "OPT" \in States /\ "SUB_IAC" \in States
    BY DEF States
  <2>3. CASE acc.state = "CR"
    BY <2>1, <2>2, <2>3 DEF StripByte
  <2>4. CASE acc.state = "DATA"
    BY <2>1, <2>4 DEF StripByte
  <2>5. CASE acc.state = "CMD"
    BY <2>2, <2>5 DEF StripByte
  <2>6. CASE acc.state = "OPT"
    BY <2>2, <2>6 DEF StripByte
  <2>7. CASE acc.state = "SUB"
    BY <2>2, <2>7 DEF StripByte
  <2>8. CASE acc.state = "SUB_IAC"
    BY <2>2, <2>8 DEF StripByte
  <2>9. QED BY <1>2, <2>3, <2>4, <2>5, <2>6, <2>7, <2>8 DEF States
<1>4. QED BY <1>1, <1>3

\* The recursion of StripFrom() is well-founded: Course() is what it says.
LEMMA CourseIs ==
  ASSUME NEW B, NEW acc \in Progress(B), NEW bytes \in Seq(B)
  PROVE  /\ Course(acc, bytes) \in [0..Len(bytes) -> Progress(B)]
         /\ Course(acc, bytes)[0] = acc
         /\ \A n \in 1..Len(bytes) :
              Course(acc, bytes)[n] = StripByte(Course(acc, bytes)[n - 1], bytes[n])
         /\ StripFrom(acc, bytes) = Course(acc, bytes)[Len(bytes)]
<1> DEFINE N == Len(bytes)
           V == Progress(B)
           step == [x \in V \X (1..N) |-> StripByte(x[1], bytes[x[2]])]
           f == Course(acc, bytes)
<1>1. N \in Nat /\ \A n \in 1..N : bytes[n] \in B
  BY LenProperties, ElementOfSeq
<1>2. step \in [V \X (1..N) -> V]
  BY <1>1, StripByteIs
<1>3. \A x \in V, n \in 1..N : step[<<x, n>>] = StripByte(x, bytes[n])
  OBVIOUS
<1> HIDE DEF V, step
<1>4. PICK g \in [0..N -> V] : Solves(g, N, acc, step)
  <2>1. acc \in V
    BY DEF V
  <2>2. N \in Nat
    BY <1>1
  <2> HIDE DEF N, f
  <2>3. QED BY <1>2, <2>1, <2>2, Recursion
<1>5. g = [n \in 0..N |-> IF n = 0 THEN acc ELSE StripByte(g[n - 1], bytes[n])]
  <2>1. \A n \in 0..N : n # 0 => n - 1 \in 0..N /\ n \in 1..N
    BY <1>1
  <2>2. \A n \in 0..N : n # 0 => step[<<g[n - 1], n>>] = StripByte(g[n - 1], bytes[n])
    BY <1>3, <1>4, <2>1
  <2>3. QED BY <1>4, <2>2 DEF Solves
<1>6. f = [n \in 0..N |-> IF n = 0 THEN acc ELSE StripByte(f[n - 1], bytes[n])]
  BY <1>5, Zenon DEF Course
<1>7. StripFrom(acc, bytes) = f[N]
  BY Zenon DEF StripFrom, Course
<1> HIDE DEF f
<1>8. f[0] = acc /\ \A n \in 1..N : f[n] = StripByte(f[n - 1], bytes[n])
  BY <1>1, <1>6
<1>9. \A n \in 0..N : f[n] \in V
  <2> DEFINE T == {n \in 0..N : f[n] \in V}
  <2>1. 0 \in T
    BY <1>1, <1>8 DEF V
  <2>2. ASSUME NEW n \in 1..N, n - 1 \in T PROVE n \in T
    BY <1>1, <1>8, <2>2, StripByteIs DEF V
  <2> HIDE DEF T, N
  <2>3. \A n \in 0..N : n \in T
    BY <1>1, <2>1, <2>2, UpTo
  <2>4. QED BY <2>3 DEF T
<1>10. QED BY <1>1, <1>6, <1>7, <1>8, <1>9 DEF f, V

\* strip_iac() keeps its type, and never lets more through than there is: what
\* fits the queue before, fits after.
LEMMA StripIacIs ==
  ASSUME NEW B, NEW st \in States, NEW bytes \in Seq(B)
  PROVE  /\ strip_iac(st, bytes) \in Progress(B)
         /\ Len(strip_iac(st, bytes).out) <= Len(bytes)
<1> DEFINE acc == [state |-> st, out |-> <<>>]
           f == Course(acc, bytes)
           N == Len(bytes)
           T == {n \in 0..N : Len(f[n].out) <= n}
<1>1. acc \in Progress(B) /\ Len(acc.out) = 0
  BY EmptySeq DEF Progress
<1>2. N \in Nat /\ \A n \in 1..N : bytes[n] \in B
  BY LenProperties, ElementOfSeq
<1>3. /\ f \in [0..N -> Progress(B)] /\ f[0] = acc
      /\ \A n \in 1..N : f[n] = StripByte(f[n - 1], bytes[n])
      /\ strip_iac(st, bytes) = f[N]
  BY <1>1, CourseIs DEF strip_iac
<1> HIDE DEF f
<1>4. 0 \in T
  BY <1>1, <1>2, <1>3
<1>5. ASSUME NEW n \in 1..N, n - 1 \in T PROVE n \in T
  <2>1. n - 1 \in 0..N /\ n \in 0..N /\ f[n - 1] \in Progress(B)
    BY <1>2, <1>3
  <2>2. f[n - 1].out \in Seq(B)
    BY <2>1 DEF Progress
  <2>3. f[n].out = f[n - 1].out \/ f[n].out = Append(f[n - 1].out, bytes[n])
    BY <1>2, <1>3, <2>1, StripByteIs
  <2>4. Len(f[n - 1].out) \in Nat /\ Len(f[n].out) <= Len(f[n - 1].out) + 1
    BY <1>2, <2>2, <2>3, AppendProperties, LenProperties
  <2>5. Len(f[n - 1].out) <= n - 1 /\ Len(f[n].out) \in Nat
    BY <1>2, <1>5, <2>2, <2>3, AppendProperties, LenProperties
  <2>6. QED BY <2>1, <2>4, <2>5
<1> HIDE DEF N, T
<1>6. \A n \in 0..N : n \in T
  BY <1>2, <1>4, <1>5, UpTo
<1>7. QED BY <1>2, <1>3, <1>6 DEF T, N

\* The same progress, made after o had been let through already.
Past(o, acc) == [state |-> acc.state, out |-> o \o acc.out]

\* What was let through before makes no difference to what is done with a byte.
LEMMA StripBytePast ==
  ASSUME NEW B, NEW o \in Seq(B), NEW acc \in Progress(B), NEW ch \in B
  PROVE  StripByte(Past(o, acc), ch) = Past(o, StripByte(acc, ch))
<1>1. acc.state \in States /\ acc.out \in Seq(B) /\ acc = [state |-> acc.state, out |-> acc.out]
  BY DEF Progress
<1>2. o \o Append(acc.out, ch) = Append(o \o acc.out, ch)
  BY <1>1
<1>3. \A s \in States : /\ Goes(Past(o, acc), s) = Past(o, Goes(acc, s))
                        /\ Emits(Past(o, acc), ch, s) = Past(o, Emits(acc, ch, s))
  <2> DEFINE Acc(s, x) == [state |-> s, out |-> x]
  <2>1. \A s, t, x : Goes(Acc(t, x), s) = Acc(s, x)
    BY DEF Goes
  <2>2. \A s, x : Past(o, Acc(s, x)) = Acc(s, o \o x)
    BY DEF Past
  <2>3. \A s, t, x : Emits(Acc(t, x), ch, s) = Acc(s, Append(x, ch))
    BY DEF Emits
  <2>4. acc = Acc(acc.state, acc.out)
    BY <1>1
  <2> HIDE DEF Acc
  <2>5. \A s : Goes(Past(o, acc), s) = Past(o, Goes(acc, s))
    BY <2>1, <2>2, <2>4
  <2>6. ASSUME NEW s PROVE Emits(Past(o, acc), ch, s) = Past(o, Emits(acc, ch, s))
    <3>1. Emits(acc, ch, s) = Acc(s, Append(acc.out, ch))
      BY <2>3, <2>4
    <3>2. Past(o, acc) = Acc(acc.state, o \o acc.out)
      BY <2>2, <2>4
    <3>3. Emits(Past(o, acc), ch, s) = Acc(s, Append(o \o acc.out, ch))
      BY <2>3, <3>2
    <3>4. Past(o, Emits(acc, ch, s)) = Acc(s, o \o Append(acc.out, ch))
      BY <2>2, <3>1
    <3>5. QED BY <1>2, <3>3, <3>4
  <2>7. QED BY <2>5, <2>6
<1>4. Past(o, acc).state = acc.state
  BY DEF Past
<1>5. "DATA" \in States /\ "SUB" \in States /\ "OPT" \in States /\ "SUB_IAC" \in States
      /\ "CMD" \in States /\ "CR" \in States
  BY DEF States
<1>6. Data(Past(o, acc), ch) = Past(o, Data(acc, ch))
  BY <1>3, <1>5 DEF Data
<1>7. CASE acc.state = "CR"
  BY <1>3, <1>4, <1>5, <1>6, <1>7 DEF StripByte
<1>8. CASE acc.state = "DATA"
  BY <1>3, <1>4, <1>5, <1>6, <1>8 DEF StripByte
<1>9. CASE acc.state = "CMD"
  BY <1>3, <1>4, <1>5, <1>9 DEF StripByte
<1>10. CASE acc.state = "OPT"
  BY <1>3, <1>4, <1>5, <1>10 DEF StripByte
<1>11. CASE acc.state = "SUB"
  BY <1>3, <1>4, <1>5, <1>11 DEF StripByte
<1>12. CASE acc.state = "SUB_IAC"
  BY <1>3, <1>4, <1>5, <1>12 DEF StripByte
<1>13. QED BY <1>1, <1>7, <1>8, <1>9, <1>10, <1>11, <1>12 DEF States

\* Cut a stream where you like: the second part goes on where the first stopped.
LEMMA StripIacJoins ==
  ASSUME NEW B, NEW st \in States, NEW a \in Seq(B), NEW b \in Seq(B)
  PROVE  strip_iac(st, a \o b)
           = Past(strip_iac(st, a).out, strip_iac(strip_iac(st, a).state, b))
<1> DEFINE acc == [state |-> st, out |-> <<>>]
           f == Course(acc, a \o b)
           g == Course(acc, a)
           mid == strip_iac(st, a)
           next == [state |-> mid.state, out |-> <<>>]
           h == Course(next, b)
           N == Len(a)
           M == Len(b)
<1>1. acc \in Progress(B)
  BY EmptySeq DEF Progress
<1>2. /\ N \in Nat /\ M \in Nat /\ a \o b \in Seq(B) /\ Len(a \o b) = N + M
      /\ \A n \in 1..N : (a \o b)[n] = a[n] /\ a[n] \in B
      /\ \A n \in 1..M : (a \o b)[N + n] = b[n] /\ b[n] \in B
  BY LenProperties, ElementOfSeq, ConcatProperties
<1>3. /\ f \in [0..(N + M) -> Progress(B)] /\ f[0] = acc
      /\ \A n \in 1..(N + M) : f[n] = StripByte(f[n - 1], (a \o b)[n])
      /\ strip_iac(st, a \o b) = f[N + M]
  BY <1>1, <1>2, CourseIs DEF strip_iac
<1>4. /\ g \in [0..N -> Progress(B)] /\ g[0] = acc
      /\ \A n \in 1..N : g[n] = StripByte(g[n - 1], a[n])
      /\ mid = g[N]
  BY <1>1, CourseIs DEF strip_iac
<1>5. mid \in Progress(B) /\ mid.state \in States /\ mid.out \in Seq(B)
  BY <1>2, <1>4 DEF Progress
<1> HIDE DEF mid
<1>6. next \in Progress(B)
  BY <1>5, EmptySeq DEF Progress
<1>7. /\ h \in [0..M -> Progress(B)] /\ h[0] = next
      /\ \A n \in 1..M : h[n] = StripByte(h[n - 1], b[n])
      /\ strip_iac(mid.state, b) = h[M]
  BY <1>6, CourseIs DEF strip_iac
<1> HIDE DEF f, g, h, N, M
<1>8. f[N] = mid
  <2> DEFINE T == {n \in 0..N : f[n] = g[n]}
  <2>1. 0 \in T
    BY <1>2, <1>3, <1>4
  <2>2. ASSUME NEW n \in 1..N, n - 1 \in T PROVE n \in T
    <3>1. n \in 0..N /\ n \in 1..(N + M) /\ f[n - 1] = g[n - 1]
      BY <1>2, <2>2
    <3>2. f[n] = StripByte(f[n - 1], a[n]) /\ g[n] = StripByte(g[n - 1], a[n])
      BY <1>2, <1>3, <1>4, <3>1
    <3>3. QED BY <3>1, <3>2
  <2> HIDE DEF T
  <2>3. \A n \in 0..N : n \in T
    BY <1>2, <2>1, <2>2, UpTo
  <2>4. N \in T
    BY <1>2, <2>3
  <2>5. QED BY <1>4, <2>4 DEF T
<1>9. f[N + M] = Past(mid.out, h[M])
  <2> DEFINE T == {n \in 0..M : f[N + n] = Past(mid.out, h[n])}
  <2>1. 0 \in T
    <3>1. Past(mid.out, next) = mid
      <4>1. mid.out \o <<>> = mid.out
        BY <1>5, ConcatEmptySeq
      <4>2. mid = [state |-> mid.state, out |-> mid.out]
        BY <1>5 DEF Progress
      <4>3. QED BY <4>1, <4>2 DEF Past
    <3>2. N + 0 = N /\ 0 \in 0..M
      BY <1>2
    <3>3. QED BY <1>7, <1>8, <3>1, <3>2
  <2>2. ASSUME NEW n \in 1..M, n - 1 \in T PROVE n \in T
    <3>1. f[N + (n - 1)] = Past(mid.out, h[n - 1]) /\ n - 1 \in 0..M /\ n \in 0..M
      BY <1>2, <2>2
    <3>2. N + n \in 1..(N + M) /\ (N + n) - 1 = N + (n - 1)
      BY <1>2
    <3>3. f[N + n] = StripByte(f[N + (n - 1)], b[n])
      BY <1>2, <1>3, <3>2
    <3>4. StripByte(Past(mid.out, h[n - 1]), b[n]) = Past(mid.out, StripByte(h[n - 1], b[n]))
      <4>1. h[n - 1] \in Progress(B) /\ b[n] \in B
        BY <1>2, <1>7, <3>1
      <4>2. QED BY <1>5, <4>1, StripBytePast
    <3>5. QED BY <1>7, <3>1, <3>3, <3>4
  <2> HIDE DEF T
  <2>3. \A n \in 0..M : n \in T
    BY <1>2, <2>1, <2>2, UpTo
  <2>4. M \in T
    BY <1>2, <2>3
  <2>5. QED BY <2>4 DEF T
<1>10. QED BY <1>3, <1>7, <1>9 DEF mid

-----------------------------------------------------------------------------
(* escape()                                                                 *)

\* What one byte is sent as.
SentAs(ch) == IF ch = IAC THEN <<IAC, IAC>> ELSE <<ch>>

\* The recursive function of Escaped().
EscapeCourse(bytes) ==
  CHOOSE f : f = [n \in 0..Len(bytes) |->
                    IF n = 0 THEN <<>>
                    ELSE f[n - 1] \o (IF bytes[n] = IAC THEN <<IAC, IAC>> ELSE <<bytes[n]>>)]

LEMMA SentAsIs ==
  ASSUME NEW B, NEW ch \in B
  PROVE  SentAs(ch) \in Seq(B) /\ Len(SentAs(ch)) \in 1..2
BY DEF SentAs

\* The recursion of Escaped() is well-founded.
LEMMA EscapeCourseIs ==
  ASSUME NEW B, NEW bytes \in Seq(B)
  PROVE  /\ EscapeCourse(bytes) \in [0..Len(bytes) -> Seq(B)]
         /\ EscapeCourse(bytes)[0] = <<>>
         /\ \A n \in 1..Len(bytes) :
              EscapeCourse(bytes)[n] = EscapeCourse(bytes)[n - 1] \o SentAs(bytes[n])
         /\ Escaped(bytes) = EscapeCourse(bytes)[Len(bytes)]
<1> DEFINE N == Len(bytes)
           V == Seq(B)
           step == [x \in V \X (1..N) |-> x[1] \o SentAs(bytes[x[2]])]
           f == EscapeCourse(bytes)
<1>1. N \in Nat /\ \A n \in 1..N : bytes[n] \in B
  BY LenProperties, ElementOfSeq
<1>2. step \in [V \X (1..N) -> V]
  <2>1. \A x \in V, n \in 1..N : x \o SentAs(bytes[n]) \in V
    BY <1>1, SentAsIs, ConcatProperties
  <2>2. QED BY <2>1
<1>3. \A x \in V, n \in 1..N : step[<<x, n>>] = x \o SentAs(bytes[n])
  OBVIOUS
<1>4. <<>> \in V
  OBVIOUS
<1> HIDE DEF V, step
<1>5. PICK g \in [0..N -> V] : Solves(g, N, <<>>, step)
  <2>1. N \in Nat
    BY <1>1
  <2> HIDE DEF N, f
  <2>2. QED BY <1>2, <1>4, <2>1, Recursion
<1>6. g = [n \in 0..N |-> IF n = 0 THEN <<>>
                         ELSE g[n - 1] \o (IF bytes[n] = IAC THEN <<IAC, IAC>> ELSE <<bytes[n]>>)]
  <2>1. \A n \in 0..N : n # 0 => n - 1 \in 0..N /\ n \in 1..N
    BY <1>1
  <2>2. \A n \in 0..N : n # 0 =>
          step[<<g[n - 1], n>>] = g[n - 1] \o (IF bytes[n] = IAC THEN <<IAC, IAC>> ELSE <<bytes[n]>>)
    BY <1>3, <1>5, <2>1 DEF SentAs
  <2>3. QED BY <1>5, <2>2 DEF Solves
<1>7. f = [n \in 0..N |-> IF n = 0 THEN <<>>
                         ELSE f[n - 1] \o (IF bytes[n] = IAC THEN <<IAC, IAC>> ELSE <<bytes[n]>>)]
  BY <1>6, Zenon DEF EscapeCourse
<1>8. Escaped(bytes) = f[N]
  BY Zenon DEF Escaped, EscapeCourse
<1> HIDE DEF f
<1>9. f[0] = <<>> /\ \A n \in 1..N : f[n] = f[n - 1] \o SentAs(bytes[n])
  <2>1. f = [n \in 0..N |-> IF n = 0 THEN <<>> ELSE f[n - 1] \o SentAs(bytes[n])]
    BY <1>7, Zenon DEF SentAs
  <2>2. QED BY <1>1, <2>1
<1>10. \A n \in 0..N : f[n] \in V
  <2> DEFINE T == {n \in 0..N : f[n] \in V}
  <2>1. 0 \in T
    BY <1>1, <1>4, <1>9
  <2>2. ASSUME NEW n \in 1..N, n - 1 \in T PROVE n \in T
    <3>1. f[n - 1] \in Seq(B) /\ SentAs(bytes[n]) \in Seq(B)
      BY <1>1, <2>2, SentAsIs DEF V
    <3>2. f[n - 1] \o SentAs(bytes[n]) \in Seq(B)
      BY <3>1, ConcatProperties
    <3>3. f[n] \in V
      BY <1>9, <3>2 DEF V
    <3>4. QED BY <1>1, <3>3
  <2> HIDE DEF T, N
  <2>3. \A n \in 0..N : n \in T
    BY <1>1, <2>1, <2>2, UpTo
  <2>4. QED BY <2>3 DEF T
<1>11. QED BY <1>1, <1>7, <1>8, <1>9, <1>10 DEF f, V

\* escape() keeps its type, and makes at most two bytes of one: half the room of
\* the queue is enough.
LEMMA EscapedIs ==
  ASSUME NEW B, NEW bytes \in Seq(B)
  PROVE  /\ Escaped(bytes) \in Seq(B)
         /\ Len(Escaped(bytes)) <= 2 * Len(bytes)
<1> DEFINE f == EscapeCourse(bytes)
           N == Len(bytes)
           T == {n \in 0..N : Len(f[n]) <= 2 * n}
<1>1. N \in Nat /\ \A n \in 1..N : bytes[n] \in B
  BY LenProperties, ElementOfSeq
<1>2. /\ f \in [0..N -> Seq(B)] /\ f[0] = <<>>
      /\ \A n \in 1..N : f[n] = f[n - 1] \o SentAs(bytes[n])
      /\ Escaped(bytes) = f[N]
  BY EscapeCourseIs
<1> HIDE DEF f
<1>3. 0 \in T
  BY <1>1, <1>2
<1>4. ASSUME NEW n \in 1..N, n - 1 \in T PROVE n \in T
  <2>1. n - 1 \in 0..N /\ n \in 0..N /\ f[n - 1] \in Seq(B) /\ Len(f[n - 1]) <= 2 * (n - 1)
    BY <1>1, <1>2, <1>4
  <2>2. SentAs(bytes[n]) \in Seq(B) /\ Len(SentAs(bytes[n])) \in 1..2
    BY <1>1, SentAsIs
  <2>3. Len(f[n]) = Len(f[n - 1]) + Len(SentAs(bytes[n])) /\ Len(f[n - 1]) \in Nat
    BY <1>2, <2>1, <2>2, ConcatProperties, LenProperties
  <2> DEFINE p == Len(f[n - 1])
             q == Len(SentAs(bytes[n]))
             r == Len(f[n])
  <2>4. n \in Nat /\ p \in Nat /\ q \in 1..2 /\ p <= 2 * (n - 1) /\ r = p + q
    <3>1. n \in Nat
      BY <1>1
    <3>2. QED BY <2>1, <2>2, <2>3, <3>1
  <2> HIDE DEF p, q, r
  <2>5. r <= 2 * n
    BY <2>4
  <2>6. QED BY <2>1, <2>5 DEF r
<1> HIDE DEF N, T
<1>5. \A n \in 0..N : n \in T
  BY <1>1, <1>3, <1>4, UpTo
<1>6. QED BY <1>1, <1>2, <1>5 DEF T, N

\* What is escaped in parts is escaped as a whole.
LEMMA EscapedJoins ==
  ASSUME NEW B, NEW a \in Seq(B), NEW b \in Seq(B)
  PROVE  Escaped(a \o b) = Escaped(a) \o Escaped(b)
<1> DEFINE f == EscapeCourse(a \o b)
           g == EscapeCourse(a)
           h == EscapeCourse(b)
           N == Len(a)
           M == Len(b)
<1>1. /\ N \in Nat /\ M \in Nat /\ a \o b \in Seq(B) /\ Len(a \o b) = N + M
      /\ \A n \in 1..N : (a \o b)[n] = a[n] /\ a[n] \in B
      /\ \A n \in 1..M : (a \o b)[N + n] = b[n] /\ b[n] \in B
  BY LenProperties, ElementOfSeq, ConcatProperties
<1>2. /\ f \in [0..(N + M) -> Seq(B)] /\ f[0] = <<>>
      /\ \A n \in 1..(N + M) : f[n] = f[n - 1] \o SentAs((a \o b)[n])
      /\ Escaped(a \o b) = f[N + M]
  BY <1>1, EscapeCourseIs
<1>3. /\ g \in [0..N -> Seq(B)] /\ g[0] = <<>>
      /\ \A n \in 1..N : g[n] = g[n - 1] \o SentAs(a[n])
      /\ Escaped(a) = g[N]
  BY EscapeCourseIs
<1>4. /\ h \in [0..M -> Seq(B)] /\ h[0] = <<>>
      /\ \A n \in 1..M : h[n] = h[n - 1] \o SentAs(b[n])
      /\ Escaped(b) = h[M]
  BY EscapeCourseIs
<1> HIDE DEF f, g, h, N, M
<1>5. f[N] = g[N]
  <2> DEFINE T == {n \in 0..N : f[n] = g[n]}
  <2>1. 0 \in T
    BY <1>1, <1>2, <1>3
  <2>2. ASSUME NEW n \in 1..N, n - 1 \in T PROVE n \in T
    <3>1. n \in 0..N /\ n \in 1..(N + M) /\ f[n - 1] = g[n - 1]
      BY <1>1, <2>2
    <3>2. f[n] = f[n - 1] \o SentAs(a[n]) /\ g[n] = g[n - 1] \o SentAs(a[n])
      BY <1>1, <1>2, <1>3, <3>1
    <3>3. QED BY <3>1, <3>2
  <2> HIDE DEF T
  <2>3. \A n \in 0..N : n \in T
    BY <1>1, <2>1, <2>2, UpTo
  <2>4. N \in T
    BY <1>1, <2>3
  <2>5. QED BY <2>4 DEF T
<1>6. f[N + M] = g[N] \o h[M]
  <2> DEFINE G == g[N]
             T == {n \in 0..M : f[N + n] = G \o h[n]}
  <2>1. G \in Seq(B) /\ G \o <<>> = G
    BY <1>1, <1>3, ConcatEmptySeq
  <2>2. 0 \in T
    <3>1. f[N + 0] = G
      BY <1>1, <1>5
    <3>2. G = G \o h[0]
      BY <1>4, <2>1
    <3>3. 0 \in 0..M
      BY <1>1
    <3> HIDE DEF G
    <3>4. QED BY <3>1, <3>2, <3>3, Zenon
  <2> HIDE DEF G
  <2>3. ASSUME NEW n \in 1..M, n - 1 \in T PROVE n \in T
    <3>1. f[N + (n - 1)] = G \o h[n - 1] /\ n - 1 \in 0..M /\ n \in 0..M
      <4>1. n - 1 \in 0..M /\ n \in 0..M
        BY <1>1
      <4>2. f[N + (n - 1)] = G \o h[n - 1]
        BY <2>3, Zenon
      <4>3. QED BY <4>1, <4>2
    <3>2. N + n \in 1..(N + M) /\ (N + n) - 1 = N + (n - 1)
      BY <1>1
    <3>3. f[N + n] = f[N + (n - 1)] \o SentAs(b[n])
      BY <1>1, <1>2, <3>2
    <3>4. h[n - 1] \in Seq(B) /\ SentAs(b[n]) \in Seq(B)
      BY <1>1, <1>4, <3>1, SentAsIs
    <3>5. (G \o h[n - 1]) \o SentAs(b[n]) = G \o (h[n - 1] \o SentAs(b[n]))
      <4>1. \A x, y, z \in Seq(B) : (x \o y) \o z = x \o (y \o z)
        BY ConcatAssociative
      <4>2. QED BY <2>1, <3>4, <4>1, Zenon
    <3>6. f[N + n] = G \o h[n]
      BY <1>4, <3>1, <3>3, <3>5
    <3>7. QED BY <3>1, <3>6
  <2> HIDE DEF T
  <2>4. \A n \in 0..M : n \in T
    BY <1>1, <2>2, <2>3, UpTo
  <2>5. M \in T
    BY <1>1, <2>4
  <2>6. QED BY <2>5 DEF T, G
<1>7. QED BY <1>2, <1>3, <1>4, <1>6

-----------------------------------------------------------------------------
(* Parts of queues and streams                                              *)

LEMMA MinIs ==
  ASSUME NEW a \in Nat, NEW b \in Nat
  PROVE  Min({a, b}) \in Nat /\ Min({a, b}) = IF a <= b THEN a ELSE b
<1> DEFINE m == IF a <= b THEN a ELSE b
<1>1. m \in {a, b} /\ \A y \in {a, b} : m <= y
  OBVIOUS
<1>2. \A x \in {a, b} : (\A y \in {a, b} : x <= y) => x = m
  OBVIOUS
<1>3. Min({a, b}) = m
  BY <1>1, <1>2 DEF Min
<1>4. QED BY <1>3

\* A queue cut in two.
LEMMA CutIs ==
  ASSUME NEW S, NEW q \in Seq(S), NEW n \in 0..Len(q)
  PROVE  /\ First(n, q) \in Seq(S) /\ Len(First(n, q)) = n
         /\ \A k \in 1..n : First(n, q)[k] = q[k]
         /\ After(n, q) \in Seq(S) /\ Len(After(n, q)) = Len(q) - n
         /\ \A k \in 1..(Len(q) - n) : After(n, q)[k] = q[n + k]
         /\ First(n, q) \o After(n, q) = q
<1>1. Len(q) \in Nat /\ \A k \in 1..Len(q) : q[k] \in S
  BY LenProperties, ElementOfSeq
<1>2. /\ First(n, q) \in Seq(S) /\ Len(First(n, q)) = n
      /\ \A k \in 1..n : First(n, q)[k] = q[k]
  BY <1>1, SubSeqProperties DEF First
<1>3. /\ After(n, q) \in Seq(S) /\ Len(After(n, q)) = Len(q) - n
      /\ \A k \in 1..(Len(q) - n) : After(n, q)[k] = q[n + k]
  <2> DEFINE m == n + 1
             t == SubSeq(q, m, Len(q))
  <2>1. m \in Int /\ Len(q) \in Int /\ \A i \in m..Len(q) : q[i] \in S
    BY <1>1
  <2> HIDE DEF m
  <2>2. /\ t \in Seq(S) /\ Len(t) = IF m <= Len(q) THEN Len(q) - m + 1 ELSE 0
        /\ \A i \in 1..(Len(q) - m + 1) : t[i] = q[m + i - 1]
    BY <2>1, SubSeqProperties
  <2> HIDE DEF t
  <2>3. QED BY <1>1, <2>2 DEF m, t, After
<1>4. First(n, q) \o After(n, q) = q
  <2>1. /\ First(n, q) \o After(n, q) \in Seq(S)
        /\ Len(First(n, q) \o After(n, q)) = Len(q)
        /\ \A k \in 1..Len(q) : (First(n, q) \o After(n, q))[k]
                                 = IF k <= n THEN First(n, q)[k] ELSE After(n, q)[k - n]
    BY <1>1, <1>2, <1>3, ConcatProperties
  <2>2. \A k \in 1..Len(q) : (First(n, q) \o After(n, q))[k] = q[k]
    BY <1>1, <1>2, <1>3, <2>1
  <2>3. QED BY <2>1, <2>2, SeqEqual
<1>5. QED BY <1>2, <1>3, <1>4

\* How long the parts are.
LEMMA PartsAre ==
  ASSUME NEW S, NEW q \in Seq(S), NEW n \in 0..Len(q)
  PROVE  /\ First(n, q) \in Seq(S) /\ Len(First(n, q)) = n
         /\ After(n, q) \in Seq(S) /\ Len(After(n, q)) = Len(q) - n
BY CutIs

\* Something before a queue is before its first part.
LEMMA OntoCut ==
  ASSUME NEW S, NEW h \in Seq(S), NEW q \in Seq(S), NEW n \in 0..Len(q)
  PROVE  (h \o First(n, q)) \o After(n, q) = h \o q
<1> DEFINE f == First(n, q)
           a == After(n, q)
           hf == h \o f
           l == hf \o a
           r == h \o q
<1>1. Len(h) \in Nat /\ Len(q) \in Nat
  BY LenProperties
<1>2. /\ f \in Seq(S) /\ Len(f) = n /\ \A k \in 1..n : f[k] = q[k]
      /\ a \in Seq(S) /\ Len(a) = Len(q) - n /\ \A k \in 1..(Len(q) - n) : a[k] = q[n + k]
  BY CutIs
<1> HIDE DEF f, a
<1>3. /\ hf \in Seq(S) /\ Len(hf) = Len(h) + n
      /\ \A k \in 1..(Len(h) + n) : hf[k] = IF k <= Len(h) THEN h[k] ELSE f[k - Len(h)]
  BY <1>2, ConcatProperties
<1> HIDE DEF hf
<1>4. /\ l \in Seq(S) /\ Len(l) = Len(h) + Len(q)
      /\ \A k \in 1..(Len(h) + Len(q)) : l[k] = IF k <= Len(h) + n THEN hf[k] ELSE a[k - (Len(h) + n)]
  <2>1. /\ l \in Seq(S) /\ Len(l) = Len(hf) + Len(a)
        /\ \A k \in 1..(Len(hf) + Len(a)) : l[k] = IF k <= Len(hf) THEN hf[k] ELSE a[k - Len(hf)]
    <3>1. hf \in Seq(S) /\ a \in Seq(S)
      BY <1>2, <1>3
    <3>2. QED BY <3>1, ConcatProperties
  <2> HIDE DEF l
  <2>2. QED BY <1>1, <1>2, <1>3, <2>1
<1>5. /\ r \in Seq(S) /\ Len(r) = Len(h) + Len(q)
      /\ \A k \in 1..(Len(h) + Len(q)) : r[k] = IF k <= Len(h) THEN h[k] ELSE q[k - Len(h)]
  BY ConcatProperties
<1> HIDE DEF l, r
<1>6. ASSUME NEW k \in 1..(Len(h) + Len(q)) PROVE l[k] = r[k]
  <2>1. CASE k <= Len(h)
    <3>1. k \in 1..(Len(h) + n) /\ k <= Len(h) + n
      BY <1>1, <2>1
    <3>2. QED BY <1>3, <1>4, <1>5, <2>1, <3>1
  <2>2. CASE k > Len(h) /\ k <= Len(h) + n
    <3>1. k - Len(h) \in 1..n /\ k \in 1..(Len(h) + n)
      BY <1>1, <2>2
    <3>2. QED BY <1>1, <1>2, <1>3, <1>4, <1>5, <2>2, <3>1
  <2>3. CASE k > Len(h) + n
    <3>1. k - (Len(h) + n) \in 1..(Len(q) - n) /\ n + (k - (Len(h) + n)) = k - Len(h)
          /\ ~ (k <= Len(h)) /\ ~ (k <= Len(h) + n)
      BY <1>1, <2>3
    <3>2. a[k - (Len(h) + n)] = q[k - Len(h)]
      BY <1>2, <3>1
    <3>3. QED BY <1>4, <1>5, <3>1, <3>2
  <2>4. QED BY <1>1, <2>1, <2>2, <2>3
<1>7. l = r
  BY <1>1, <1>4, <1>5, <1>6, SeqEqual
<1>8. QED BY <1>7 DEF f, a, hf, l, r

\* Two cuts of a queue that was added to in between are one.
LEMMA CutTwice ==
  ASSUME NEW S, NEW q \in Seq(S), NEW x \in Seq(S),
         NEW n \in 0..Len(q), NEW i \in 0..(Len(q) - n + Len(x))
  PROVE  /\ After(i, After(n, q) \o x) = After(n + i, q \o x)
         /\ n + i \in 0..Len(q \o x)
<1> DEFINE y == After(n, q) \o x
           z == q \o x
<1>1. Len(q) \in Nat /\ Len(x) \in Nat
  BY LenProperties
<1>2. /\ After(n, q) \in Seq(S) /\ Len(After(n, q)) = Len(q) - n
      /\ \A k \in 1..(Len(q) - n) : After(n, q)[k] = q[n + k]
  BY CutIs
<1>3. /\ y \in Seq(S) /\ Len(y) = Len(q) - n + Len(x)
      /\ \A k \in 1..(Len(q) - n + Len(x)) :
           y[k] = IF k <= Len(q) - n THEN q[n + k] ELSE x[k - (Len(q) - n)]
  <2> DEFINE a == After(n, q)
  <2>1. a \in Seq(S) /\ Len(a) = Len(q) - n /\ \A k \in 1..(Len(q) - n) : a[k] = q[n + k]
    BY <1>2
  <2> HIDE DEF a
  <2>2. /\ a \o x \in Seq(S) /\ Len(a \o x) = Len(a) + Len(x)
        /\ \A k \in 1..(Len(a) + Len(x)) :
             (a \o x)[k] = IF k <= Len(a) THEN a[k] ELSE x[k - Len(a)]
    BY <2>1, ConcatProperties
  <2>3. QED BY <1>1, <2>1, <2>2 DEF a
<1>4. /\ z \in Seq(S) /\ Len(z) = Len(q) + Len(x)
      /\ \A k \in 1..(Len(q) + Len(x)) : z[k] = IF k <= Len(q) THEN q[k] ELSE x[k - Len(q)]
  BY <1>1, ConcatProperties
<1> HIDE DEF y, z
<1>5. \A k \in 1..(Len(q) - n + Len(x)) : y[k] = z[n + k]
  <2>1. SUFFICES ASSUME NEW k \in 1..(Len(q) - n + Len(x)) PROVE y[k] = z[n + k]
    OBVIOUS
  <2>2. n + k \in 1..(Len(q) + Len(x)) /\ (k <= Len(q) - n <=> n + k <= Len(q))
        /\ k - (Len(q) - n) = (n + k) - Len(q)
    BY <1>1
  <2>3. z[n + k] = IF n + k <= Len(q) THEN q[n + k] ELSE x[(n + k) - Len(q)]
    BY <1>4, <2>2
  <2>4. QED BY <1>3, <2>2, <2>3
<1>6. i \in 0..Len(y) /\ n + i \in 0..Len(z)
  BY <1>1, <1>3, <1>4
<1>7. /\ After(i, y) \in Seq(S) /\ Len(After(i, y)) = Len(y) - i
      /\ \A k \in 1..(Len(y) - i) : After(i, y)[k] = y[i + k]
  BY <1>3, <1>6, CutIs
<1>8. /\ After(n + i, z) \in Seq(S) /\ Len(After(n + i, z)) = Len(z) - (n + i)
      /\ \A k \in 1..(Len(z) - (n + i)) : After(n + i, z)[k] = z[n + i + k]
  BY <1>4, <1>6, CutIs
<1>9. Len(After(i, y)) = Len(After(n + i, z))
  BY <1>1, <1>3, <1>4, <1>7, <1>8
<1>10. \A k \in 1..(Len(y) - i) : After(i, y)[k] = After(n + i, z)[k]
  BY <1>1, <1>3, <1>4, <1>5, <1>7, <1>8
<1>11. After(i, y) = After(n + i, z)
  BY <1>7, <1>8, <1>9, <1>10, SeqEqual
<1>12. QED BY <1>6, <1>11 DEF y, z

\* What leaves queue q after h by two drains with x added in between, and what
\* stays, are what was there and what was added.
Kept(h, q, n, x, i) ==
  (h \o First(n + i, q \o x)) \o After(i, After(n, q) \o x) = (h \o q) \o x

LEMMA MovedOn ==
  ASSUME NEW S, NEW h \in Seq(S), NEW q \in Seq(S), NEW x \in Seq(S),
         NEW n \in 0..Len(q), NEW i \in Nat, i <= Len(q) - n + Len(x)
  PROVE  Kept(h, q, n, x, i)
<1> DEFINE z == q \o x
           k == n + i
<1>1. z \in Seq(S) /\ k \in 0..Len(z) /\ After(i, After(n, q) \o x) = After(k, z)
  BY LenProperties, CutTwice, ConcatProperties
<1>2. (h \o q) \o x = h \o (q \o x)
  BY ConcatAssociative
<1> HIDE DEF z, k
<1>3. /\ First(k, z) \in Seq(S) /\ After(k, z) \in Seq(S)
      /\ First(k, z) \o After(k, z) = z
  BY <1>1, CutIs
<1>4. (h \o First(k, z)) \o After(k, z) = h \o z
  BY <1>1, OntoCut
<1>5. QED BY <1>1, <1>2, <1>3, <1>4, Zenon DEF Kept, z, k

\* What read() returns is what comes next, no more than was wanted.
LEMMA ChunkIs ==
  ASSUME NEW S, NEW stream \in Seq(S), NEW done \in 0..Len(stream), NEW want \in Nat
  PROVE  /\ Chunk(stream, done, want) \in Seq(S) /\ Len(Chunk(stream, done, want)) \in 0..want
         /\ done + Len(Chunk(stream, done, want)) \in 0..Len(stream)
         /\ First(done + Len(Chunk(stream, done, want)), stream)
              = First(done, stream) \o Chunk(stream, done, want)
<1> DEFINE L == Len(stream)
           e == Min({L, done + want})
           c == SubSeq(stream, done + 1, e)
<1>1. L \in Nat /\ \A k \in 1..L : stream[k] \in S
  BY LenProperties, ElementOfSeq
<1>2. e \in done..L /\ e <= done + want
  <2>1. done + want \in Nat /\ done \in Nat /\ done <= L
    BY <1>1
  <2>2. e \in Nat /\ e = IF L <= done + want THEN L ELSE done + want
    BY <1>1, <2>1, MinIs
  <2>3. QED BY <1>1, <2>1, <2>2
<1> HIDE DEF e
<1>3. c \in Seq(S) /\ Len(c) = e - done
  <2> DEFINE m == done + 1
  <2>1. m \in Int /\ e \in Int /\ \A i \in m..e : stream[i] \in S
    BY <1>1, <1>2
  <2> HIDE DEF m
  <2>2. /\ SubSeq(stream, m, e) \in Seq(S)
        /\ Len(SubSeq(stream, m, e)) = IF m <= e THEN e - m + 1 ELSE 0
    BY <2>1, SubSeqProperties
  <2>3. (IF m <= e THEN e - m + 1 ELSE 0) = e - done
    BY <1>1, <1>2 DEF m
  <2>4. QED BY <2>2, <2>3 DEF m
<1>4. Chunk(stream, done, want) = c
  BY DEF Chunk, e
<1>5. SubSeq(stream, 1, e) = SubSeq(stream, 1, done) \o SubSeq(stream, done + 1, e)
  <2>1. 1 \in 1..Len(stream) + 1 /\ done \in 1 - 1 .. Len(stream) /\ e \in done..Len(stream)
    BY <1>1, <1>2
  <2>2. QED BY <2>1, ConcatAdjacentSubSeq
<1>6. done + Len(c) = e
  BY <1>1, <1>2, <1>3
<1>7. QED BY <1>1, <1>2, <1>3, <1>4, <1>5, <1>6 DEF First

\* A stream that grows keeps what it began with.
LEMMA FirstOfMore ==
  ASSUME NEW S, NEW stream \in Seq(S), NEW b \in S, NEW n \in 0..Len(stream)
  PROVE  First(n, Append(stream, b)) = First(n, stream)
<1>1. Len(stream) \in Nat
  BY LenProperties
<1>2. /\ Append(stream, b) \in Seq(S) /\ Len(Append(stream, b)) = Len(stream) + 1
      /\ \A k \in 1..Len(stream) : Append(stream, b)[k] = stream[k]
  BY AppendProperties
<1>3. n \in 0..Len(Append(stream, b))
  BY <1>1, <1>2
<1>4. /\ First(n, Append(stream, b)) \in Seq(S) /\ Len(First(n, Append(stream, b))) = n
      /\ \A k \in 1..n : First(n, Append(stream, b))[k] = Append(stream, b)[k]
  BY <1>2, <1>3, CutIs
<1>5. /\ First(n, stream) \in Seq(S) /\ Len(First(n, stream)) = n
      /\ \A k \in 1..n : First(n, stream)[k] = stream[k]
  BY CutIs
<1>6. \A k \in 1..n : First(n, Append(stream, b))[k] = First(n, stream)[k]
  BY <1>1, <1>2, <1>4, <1>5
<1>7. QED BY <1>4, <1>5, <1>6, SeqEqual

\* A drain writes no more than there is, nor than there is room for.
LEMMA DrainsIs ==
  ASSUME NEW S, NEW q \in Seq(S), NEW room \in Nat
  PROVE  /\ \A n \in Drains(q, room) : n \in 0..Len(q) /\ n \in 0..room
         /\ \A w \in BOOLEAN : \A n \in DrainsIf(w, q, room) : n \in 0..Len(q) /\ n \in 0..room
<1>1. Len(q) \in Nat
  BY LenProperties
<1>2. /\ Min({Len(q), room}) \in Nat
      /\ Min({Len(q), room}) = IF Len(q) <= room THEN Len(q) ELSE room
  BY <1>1, MinIs
<1> DEFINE most == Min({Len(q), room})
<1>3. \A n \in Drains(q, room) : n \in 0..most
  BY DEF Drains
<1>4. \A n \in Drains(q, room) : n \in 0..Len(q) /\ n \in 0..room
  <2> HIDE DEF most
  <2>1. most \in Nat /\ most <= Len(q) /\ most <= room
    BY <1>1, <1>2 DEF most
  <2>2. QED BY <1>1, <1>3, <2>1
<1>5. QED BY <1>1, <1>4 DEF DrainsIf

-----------------------------------------------------------------------------
(* The inductive invariant                                                  *)

\* Is s still to be served with what poll() said?
Heeded(s) == pc = "accept" \/ (pc = "serve" /\ turn <= s)

\* What poll() said of the loss of an end is still so when it is heeded, and
\* nothing was said of a session that may be taken over before that.
ToldRight ==
  /\ pc = "accept" /\ listening => waiting > 0
  /\ \A s \in Sessions :
       /\ Heeded(s) /\ open[s] /\ "RDHUP" \in revents[s].sock => left[s]
       /\ Heeded(s) /\ open[s] /\ "HUP" \in revents[s].master => ended[s]
       /\ pc = "accept" /\ ~open[s] => revents[s] = Quiet

\* A free session has nothing of the connection before.
Clean(s) ==
  /\ ~left[s] /\ ~ended[s]
  /\ sent[s] = <<>> /\ taken[s] = 0 /\ heard[s] = <<>> /\ inpty[s] = 0
  /\ said[s] = <<>> /\ got[s] = 0 /\ seen[s] = <<>> /\ insock[s] = 0

NothingKept == \A s \in Sessions : ~open[s] => Clean(s)

\* What is read of either stream so far is what strip_iac() or escape(), had it
\* read all of it at once, would have made of it.
ShellStream(s) ==
  strip_iac("DATA", First(taken[s], sent[s]))
    = [state |-> state[s], out |-> heard[s] \o to_master[s]]
ClientStream(s) == hello \o Escaped(First(got[s], said[s])) = seen[s] \o to_sock[s]

Streams == \A s \in Sessions : open[s] => ShellStream(s) /\ ClientStream(s)

IInv == TypeOK /\ ToldRight /\ NothingKept /\ Streams

-----------------------------------------------------------------------------
(* One turn of service()                                                    *)

\* What was read of a stream, in, takes the place where the reading stopped on.
Reads(stream, done, in) ==
  /\ in \in Seq(Bytes) /\ done + Len(in) \in 0..Len(stream)
  /\ First(done + Len(in), stream) = First(done, stream) \o in

\* n bytes leave a queue for a buffer that holds `full` of `limit`, then x comes
\* in and i more leave.
Passes(q, n, x, i, full, limit) ==
  /\ n \in 0..Len(q) /\ i \in Nat /\ i <= Len(q) - n + Len(x)
  /\ full + n + i <= limit
  /\ Len(After(n, q)) + Len(x) <= QueueSize

\* Move(), when the session goes on: in is read from the client, out from the shell.
MovesOn(s, in, out, n, i, m, o) ==
  /\ Reads(sent[s], taken[s], in) /\ Reads(said[s], got[s], out)
  /\ Passes(to_master[s], n, strip_iac(state[s], in).out, i, inpty[s], PtyRoom)
  /\ Passes(to_sock[s], m, Escaped(out), o, insock[s], SockRoom)
  /\ state' = [state EXCEPT ![s] = strip_iac(state[s], in).state]
  /\ taken' = [taken EXCEPT ![s] = @ + Len(in)]
  /\ to_master' = [to_master EXCEPT ![s] = After(i, After(n, to_master[s]) \o strip_iac(state[s], in).out)]
  /\ heard' = [heard EXCEPT ![s] = @ \o First(n + i, to_master[s] \o strip_iac(state[s], in).out)]
  /\ inpty' = [inpty EXCEPT ![s] = @ + n + i]
  /\ got' = [got EXCEPT ![s] = @ + Len(out)]
  /\ to_sock' = [to_sock EXCEPT ![s] = After(o, After(m, to_sock[s]) \o Escaped(out))]
  /\ seen' = [seen EXCEPT ![s] = @ \o First(m + o, to_sock[s] \o Escaped(out))]
  /\ insock' = [insock EXCEPT ![s] = @ + m + o]
  /\ UNCHANGED <<open, nth, left, sent, ended, said>>

\* The types of what belongs to one session.
LEMMA SessionTypes ==
  ASSUME TypeOK, NEW s \in Sessions
  PROVE  /\ state[s] \in States
         /\ sent[s] \in Seq(Bytes) /\ said[s] \in Seq(Bytes) /\ heard[s] \in Seq(Bytes)
         /\ to_master[s] \in Seq(Bytes) /\ seen[s] \in Seq(Sendable) /\ to_sock[s] \in Seq(Sendable)
         /\ insock[s] \in 0..SockRoom /\ inpty[s] \in 0..PtyRoom
         /\ taken[s] \in 0..Len(sent[s]) /\ got[s] \in 0..Len(said[s])
         /\ Len(to_sock[s]) \in 0..QueueSize /\ Len(to_master[s]) \in 0..QueueSize
<1>1. /\ state[s] \in States
      /\ sent[s] \in Seq(Bytes) /\ said[s] \in Seq(Bytes) /\ heard[s] \in Seq(Bytes)
      /\ to_master[s] \in Seq(Bytes) /\ seen[s] \in Seq(Sendable) /\ to_sock[s] \in Seq(Sendable)
      /\ insock[s] \in 0..SockRoom /\ inpty[s] \in 0..PtyRoom
      /\ taken[s] \in Nat /\ got[s] \in Nat
  BY DEF TypeOK, Typed
<1>2. /\ taken[s] <= Len(sent[s]) /\ got[s] <= Len(said[s])
      /\ Len(to_sock[s]) <= QueueSize /\ Len(to_master[s]) <= QueueSize
  BY DEF TypeOK, Fits
<1>3. Len(sent[s]) \in Nat /\ Len(said[s]) \in Nat /\ Len(to_sock[s]) \in Nat /\ Len(to_master[s]) \in Nat
  BY <1>1, LenProperties
<1>4. QueueSize \in Nat
  BY SizesAssumption
<1>5. QED BY <1>1, <1>2, <1>3, <1>4

\* Reading no more than `want`, or not reading at all.
LEMMA ReadsIs ==
  ASSUME NEW stream \in Seq(Bytes), NEW done \in 0..Len(stream), NEW want \in Nat,
         NEW ready \in BOOLEAN
  PROVE  LET in == IF ready THEN Chunk(stream, done, want) ELSE <<>>
         IN  Reads(stream, done, in) /\ Len(in) \in 0..want
<1>1. CASE ready
  BY <1>1, ChunkIs DEF Reads
<1>2. CASE ~ready
  <2>1. <<>> \in Seq(Bytes) /\ Len(<<>>) = 0
    BY EmptySeq
  <2>2. Len(stream) \in Nat /\ done + 0 = done
    BY LenProperties
  <2>3. First(done, stream) \o <<>> = First(done, stream)
    BY CutIs, ConcatEmptySeq
  <2>4. done + Len(<<>>) = done /\ done \in 0..Len(stream)
    BY <2>1, <2>2
  <2>5. Reads(stream, done, <<>>)
    BY <2>1, <2>3, <2>4 DEF Reads
  <2>6. Len(<<>>) \in 0..want
    BY <2>1
  <2>7. QED BY <1>2, <2>5, <2>6
<1>3. QED BY <1>1, <1>2

\* How much is read of what comes to a queue leaves room for it, and for twice as
\* much where it may be escaped.
LEMMA WantIs ==
  ASSUME NEW S, NEW q \in Seq(S), Len(q) <= QueueSize
  PROVE  /\ InWant(q) \in Nat /\ InWant(q) <= Room(q)
         /\ OutWant(q) \in Nat /\ 2 * OutWant(q) <= Room(q)
         /\ Room(q) \in Nat
<1>1. QueueSize \in Nat /\ BufSize \in Nat /\ Len(q) \in Nat
  BY SizesAssumption, LenProperties
<1> DEFINE r == Room(q)
           half == r \div 2
<1>2. r \in Nat
  BY <1>1 DEF Room
<1> HIDE DEF r
<1>3. half \in Nat /\ 2 * half <= r
  BY <1>2
<1> HIDE DEF half
<1>4. Min({r, BufSize}) \in Nat /\ Min({r, BufSize}) <= r
  BY <1>1, <1>2, MinIs
<1>5. Min({half, BufSize}) \in Nat /\ Min({half, BufSize}) <= half
  BY <1>1, <1>3, MinIs
<1>6. InWant(q) = Min({r, BufSize}) /\ OutWant(q) = Min({half, BufSize})
  BY DEF InWant, OutWant, r, half
<1>7. 2 * OutWant(q) <= r
  BY <1>2, <1>3, <1>5, <1>6
<1>8. QED BY <1>2, <1>4, <1>5, <1>6, <1>7 DEF r

\* service() either moves the session's bytes on or ends the session, and then one
\* of its ends is lost: neither queue is ever too small for what was read.
LEMMA MoveIs ==
  ASSUME TypeOK, ToldRight, NEW s \in Sessions, Heeded(s), open[s], Move(s)
  PROVE  \/ session_end(s) /\ (left[s] \/ ended[s])
         \/ \E in, out, n, i, m, o : MovesOn(s, in, out, n, i, m, o)
<1> DEFINE sock == revents[s].sock
           master == revents[s].master
           qm(n) == After(n, to_master[s])
           qs(m) == After(m, to_sock[s])
           in(n) == IF "IN" \in sock THEN Chunk(sent[s], taken[s], InWant(qm(n))) ELSE <<>>
           out(m) == IF "IN" \in master THEN Chunk(said[s], got[s], OutWant(qs(m))) ELSE <<>>
           x(n) == strip_iac(state[s], in(n))
           writes(n) == ("OUT" \in master /\ to_master[s] # <<>>) \/ x(n).out # <<>>
           Ends(n, m) == \/ "RDHUP" \in sock
                         \/ ended[s] /\ writes(n)
                         \/ Len(x(n).out) > Room(qm(n))
                         \/ 2 * Len(out(m)) > Room(qs(m))
                         \/ OneEndLost(sock, master)
           N == DrainsIf("OUT" \in master, to_master[s], PtyRoom - inpty[s])
           M == DrainsIf("OUT" \in sock, to_sock[s], SockRoom - insock[s])
           I(n) == DrainsIf(x(n).out # <<>>, qm(n) \o x(n).out, PtyRoom - inpty[s] - n)
           O(m) == DrainsIf("IN" \in master, qs(m) \o Escaped(out(m)), SockRoom - insock[s] - m)
           On(n, m, i, o) ==
             /\ state' = [state EXCEPT ![s] = x(n).state]
             /\ taken' = [taken EXCEPT ![s] = @ + Len(in(n))]
             /\ to_master' = [to_master EXCEPT ![s] = After(i, qm(n) \o x(n).out)]
             /\ heard' = [heard EXCEPT ![s] = @ \o First(n + i, to_master[s] \o x(n).out)]
             /\ inpty' = [inpty EXCEPT ![s] = @ + n + i]
             /\ got' = [got EXCEPT ![s] = @ + Len(out(m))]
             /\ to_sock' = [to_sock EXCEPT ![s] = After(o, qs(m) \o Escaped(out(m)))]
             /\ seen' = [seen EXCEPT ![s] = @ \o First(m + o, to_sock[s] \o Escaped(out(m)))]
             /\ insock' = [insock EXCEPT ![s] = @ + m + o]
             /\ UNCHANGED <<open, nth, left, sent, ended, said>>
<1>1. \E n \in N, m \in M :
        IF Ends(n, m) THEN session_end(s) ELSE \E i \in I(n), o \in O(m) : On(n, m, i, o)
  BY Zenon DEF Move
<1>2. PICK n \in N, m \in M :
        IF Ends(n, m) THEN session_end(s) ELSE \E i \in I(n), o \in O(m) : On(n, m, i, o)
  BY <1>1
<1> HIDE DEF On, Ends, N, M, I, O
<1>3. /\ state[s] \in States /\ sent[s] \in Seq(Bytes) /\ said[s] \in Seq(Bytes)
      /\ to_master[s] \in Seq(Bytes) /\ to_sock[s] \in Seq(Sendable)
      /\ insock[s] \in 0..SockRoom /\ inpty[s] \in 0..PtyRoom
      /\ taken[s] \in 0..Len(sent[s]) /\ got[s] \in 0..Len(said[s])
      /\ Len(to_sock[s]) \in 0..QueueSize /\ Len(to_master[s]) \in 0..QueueSize
  BY SessionTypes
<1>4. SockRoom \in Nat /\ PtyRoom \in Nat /\ QueueSize \in Nat
  BY SizesAssumption
<1>5. n \in 0..Len(to_master[s]) /\ n \in 0..(PtyRoom - inpty[s])
  <2>1. PtyRoom - inpty[s] \in Nat /\ ("OUT" \in master) \in BOOLEAN
    BY <1>3, <1>4
  <2>2. QED BY <1>3, <2>1, DrainsIs DEF N
<1>6. m \in 0..Len(to_sock[s]) /\ m \in 0..(SockRoom - insock[s])
  <2>1. SockRoom - insock[s] \in Nat /\ ("OUT" \in sock) \in BOOLEAN
    BY <1>3, <1>4
  <2>2. QED BY <1>3, <2>1, DrainsIs DEF M
<1>7. /\ qm(n) \in Seq(Bytes) /\ Len(qm(n)) = Len(to_master[s]) - n
      /\ qs(m) \in Seq(Sendable) /\ Len(qs(m)) = Len(to_sock[s]) - m
  <2>1. to_master[s] \in Seq(Bytes) /\ to_sock[s] \in Seq(Sendable)
    BY <1>3
  <2>2. After(n, to_master[s]) \in Seq(Bytes) /\ Len(After(n, to_master[s])) = Len(to_master[s]) - n
    <3> DEFINE q == to_master[s]
    <3>1. q \in Seq(Bytes) /\ n \in 0..Len(q)
      BY <1>5, <2>1
    <3> HIDE DEF q
    <3>2. After(n, q) \in Seq(Bytes) /\ Len(After(n, q)) = Len(q) - n
      BY <3>1, PartsAre
    <3>3. QED BY <3>2 DEF q
  <2>3. After(m, to_sock[s]) \in Seq(Sendable) /\ Len(After(m, to_sock[s])) = Len(to_sock[s]) - m
    BY <1>6, <2>1, PartsAre
  <2>4. QED BY <2>2, <2>3
<1> HIDE DEF qm, qs
<1>8. /\ InWant(qm(n)) \in Nat /\ InWant(qm(n)) <= Room(qm(n)) /\ Room(qm(n)) \in Nat
      /\ OutWant(qs(m)) \in Nat /\ 2 * OutWant(qs(m)) <= Room(qs(m)) /\ Room(qs(m)) \in Nat
  <2>1. Len(qm(n)) <= QueueSize /\ Len(qs(m)) <= QueueSize
    <3> DEFINE a == Len(to_master[s])
               b == Len(to_sock[s])
    <3>1. a \in 0..QueueSize /\ b \in 0..QueueSize /\ n \in 0..a /\ m \in 0..b
      BY <1>3, <1>5, <1>6
    <3> HIDE DEF a, b
    <3>2. a - n <= QueueSize /\ b - m <= QueueSize
      BY <1>4, <3>1
    <3>3. QED BY <1>7, <3>2 DEF a, b
  <2>2. QED BY <1>7, <2>1, WantIs
<1>9. Reads(sent[s], taken[s], in(n)) /\ Len(in(n)) \in 0..InWant(qm(n))
  <2> DEFINE want == InWant(qm(n))
             ready == "IN" \in sock
  <2>1. want \in Nat /\ ready \in BOOLEAN
    BY <1>8
  <2> HIDE DEF want, ready
  <2>2. LET a == IF ready THEN Chunk(sent[s], taken[s], want) ELSE <<>>
        IN  Reads(sent[s], taken[s], a) /\ Len(a) \in 0..want
    BY <1>3, <2>1, ReadsIs
  <2>3. QED BY <2>2 DEF want, ready
<1>10. Reads(said[s], got[s], out(m)) /\ Len(out(m)) \in 0..OutWant(qs(m))
  <2> DEFINE want == OutWant(qs(m))
             ready == "IN" \in master
  <2>1. want \in Nat /\ ready \in BOOLEAN
    BY <1>8
  <2> HIDE DEF want, ready
  <2>2. LET a == IF ready THEN Chunk(said[s], got[s], want) ELSE <<>>
        IN  Reads(said[s], got[s], a) /\ Len(a) \in 0..want
    BY <1>3, <2>1, ReadsIs
  <2>3. QED BY <2>2 DEF want, ready
<1> HIDE DEF in, out
<1>11. in(n) \in Seq(Bytes) /\ out(m) \in Seq(Bytes)
  BY <1>9, <1>10 DEF Reads
<1>12. x(n) \in Progress(Bytes) /\ Len(x(n).out) <= Len(in(n))
  BY <1>3, <1>11, StripIacIs
<1>13. Escaped(out(m)) \in Seq(Bytes) /\ Len(Escaped(out(m))) <= 2 * Len(out(m))
  BY <1>11, EscapedIs
<1> HIDE DEF x
<1>14. x(n).out \in Seq(Bytes) /\ Len(x(n).out) \in Nat /\ Len(Escaped(out(m))) \in Nat
  BY <1>12, <1>13, LenProperties DEF Progress
<1>15. ~ (Len(x(n).out) > Room(qm(n)))
  BY <1>8, <1>9, <1>12, <1>14
<1>16. ~ (2 * Len(out(m)) > Room(qs(m))) /\ Len(Escaped(out(m))) <= Room(qs(m))
  <2> DEFINE a == Len(out(m))
             b == OutWant(qs(m))
             r == Room(qs(m))
             e == Len(Escaped(out(m)))
  <2>1. a \in Nat /\ b \in Nat /\ r \in Nat /\ e \in Nat /\ a <= b /\ 2 * b <= r /\ e <= 2 * a
    BY <1>8, <1>10, <1>13, <1>14
  <2> HIDE DEF a, b, r, e
  <2>2. ~ (2 * a > r) /\ e <= r
    BY <2>1
  <2>3. QED BY <2>2 DEF a, b, r, e
<1>17. CASE Ends(n, m)
  <2>1. session_end(s)
    BY <1>2, <1>17
  <2>2. "RDHUP" \in sock => left[s]
    BY DEF ToldRight
  <2>3. OneEndLost(sock, master) => ended[s]
    BY DEF ToldRight, OneEndLost
  <2>4. \/ "RDHUP" \in sock \/ ended[s] \/ OneEndLost(sock, master)
    BY <1>15, <1>16, <1>17, Zenon DEF Ends
  <2>5. QED BY <2>1, <2>2, <2>3, <2>4
<1>18. CASE ~Ends(n, m)
  <2>1. PICK i \in I(n), o \in O(m) : On(n, m, i, o)
    BY <1>2, <1>18
  <2>2. /\ i \in Nat /\ i <= Len(to_master[s]) - n + Len(x(n).out) /\ inpty[s] + n + i <= PtyRoom
    <3> DEFINE q == qm(n) \o x(n).out
               room == PtyRoom - inpty[s] - n
               w == x(n).out # <<>>
    <3>1. q \in Seq(Bytes) /\ Len(q) = Len(to_master[s]) - n + Len(x(n).out)
      <4>1. q \in Seq(Bytes) /\ Len(q) = Len(qm(n)) + Len(x(n).out)
        BY <1>7, <1>14, ConcatProperties
      <4>2. QED BY <1>7, <4>1
    <3>2. room \in Nat /\ w \in BOOLEAN
      BY <1>3, <1>4, <1>5
    <3>3. i \in DrainsIf(w, q, room)
      BY <2>1 DEF I
    <3> HIDE DEF q, w
    <3>4. i \in 0..Len(q) /\ i \in 0..room
      <4> HIDE DEF room
      <4>1. QED BY <3>1, <3>2, <3>3, DrainsIs
    <3>5. i \in Nat /\ i <= Len(q)
      BY <1>14, <3>1, <3>4
    <3>6. inpty[s] + n + i <= PtyRoom
      <4> DEFINE p == inpty[s]
      <4>1. p \in 0..PtyRoom /\ n \in 0..(PtyRoom - p) /\ i \in 0..(PtyRoom - p - n)
        BY <1>3, <1>5, <3>4
      <4> HIDE DEF p
      <4>2. p + n + i <= PtyRoom
        BY <1>4, <4>1
      <4>3. QED BY <4>2 DEF p
    <3>7. QED BY <3>1, <3>5, <3>6
  <2>3. /\ o \in Nat /\ o <= Len(to_sock[s]) - m + Len(Escaped(out(m))) /\ insock[s] + m + o <= SockRoom
    <3> DEFINE e == Escaped(out(m))
               q == qs(m) \o e
               room == SockRoom - insock[s] - m
               w == "IN" \in master
    <3>1. q \in Seq(Sendable) /\ Len(q) = Len(to_sock[s]) - m + Len(e)
      <4>1. e \in Seq(Sendable)
        BY <1>13, SeqMonotonic DEF Sendable
      <4> HIDE DEF e
      <4>2. q \in Seq(Sendable) /\ Len(q) = Len(qs(m)) + Len(e)
        BY <1>7, <4>1, ConcatProperties
      <4>3. QED BY <1>7, <4>2
    <3>2. room \in Nat /\ w \in BOOLEAN
      BY <1>3, <1>4, <1>6
    <3>3. o \in DrainsIf(w, q, room)
      BY <2>1 DEF O
    <3> HIDE DEF q, w
    <3>4. o \in 0..Len(q) /\ o \in 0..room
      <4> HIDE DEF room
      <4>1. QED BY <3>1, <3>2, <3>3, DrainsIs
    <3>5. o \in Nat /\ o <= Len(q)
      BY <1>14, <3>1, <3>4
    <3>6. insock[s] + m + o <= SockRoom
      <4> DEFINE p == insock[s]
      <4>1. p \in 0..SockRoom /\ m \in 0..(SockRoom - p) /\ o \in 0..(SockRoom - p - m)
        BY <1>3, <1>6, <3>4
      <4> HIDE DEF p
      <4>2. p + m + o <= SockRoom
        BY <1>4, <4>1
      <4>3. QED BY <4>2 DEF p
    <3>7. QED BY <3>1, <3>5, <3>6
  <2>4. Passes(to_master[s], n, x(n).out, i, inpty[s], PtyRoom)
    <3>1. Len(qm(n)) \in Nat
      BY <1>7, LenProperties
    <3>2. Len(qm(n)) + Len(x(n).out) <= QueueSize
      BY <1>4, <1>14, <1>15, <3>1 DEF Room
    <3>3. QED BY <1>5, <2>2, <3>2 DEF Passes, qm
  <2>5. Passes(to_sock[s], m, Escaped(out(m)), o, insock[s], SockRoom)
    <3>1. Len(qs(m)) \in Nat
      BY <1>7, LenProperties
    <3>2. Len(qs(m)) + Len(Escaped(out(m))) <= QueueSize
      BY <1>4, <1>14, <1>16, <3>1 DEF Room
    <3>3. QED BY <1>6, <2>3, <3>2 DEF Passes, qs
  <2>6. MovesOn(s, in(n), out(m), n, i, m, o)
    BY <1>9, <1>10, <2>1, <2>4, <2>5, Zenon DEF On, MovesOn, x, qm, qs
  <2>7. QED BY <2>6, Zenon
<1>19. QED BY <1>17, <1>18

\* Where a queue that Passes() leaves things: all within their types, and nothing
\* lost, repeated or put elsewhere.
LEMMA PassesIs ==
  ASSUME NEW S, NEW h \in Seq(S), NEW q \in Seq(S), NEW x \in Seq(S),
         NEW limit \in Nat, NEW full \in 0..limit, NEW n, NEW i,
         Passes(q, n, x, i, full, limit)
  PROVE  /\ After(i, After(n, q) \o x) \in Seq(S)
         /\ Len(After(i, After(n, q) \o x)) <= QueueSize
         /\ h \o First(n + i, q \o x) \in Seq(S)
         /\ full + n + i \in 0..limit
         /\ Kept(h, q, n, x, i)
<1>1. n \in 0..Len(q) /\ i \in Nat /\ i <= Len(q) - n + Len(x) /\ full + n + i <= limit
      /\ Len(After(n, q)) + Len(x) <= QueueSize /\ Len(q) \in Nat /\ Len(x) \in Nat
  BY LenProperties DEF Passes
<1> DEFINE a == After(n, q)
           y == a \o x
           z == q \o x
           k == n + i
<1>2. a \in Seq(S) /\ Len(a) = Len(q) - n
  BY <1>1, PartsAre
<1> HIDE DEF a
<1>3. y \in Seq(S) /\ Len(y) = Len(a) + Len(x)
  BY <1>2, ConcatProperties
<1>4. z \in Seq(S) /\ Len(z) = Len(q) + Len(x)
  BY ConcatProperties
<1> HIDE DEF y, z
<1>5. i \in 0..Len(y) /\ k \in 0..Len(z)
  BY <1>1, <1>2, <1>3, <1>4
<1>6. After(i, y) \in Seq(S) /\ Len(After(i, y)) = Len(y) - i
  BY <1>3, <1>5, PartsAre
<1>7. Len(After(i, y)) <= QueueSize
  <2>1. Len(a) + Len(x) <= QueueSize /\ Len(a) + Len(x) \in Nat /\ QueueSize \in Nat
    BY <1>1, <1>2, SizesAssumption DEF a
  <2>2. QED BY <1>1, <1>3, <1>6, <2>1
<1>8. First(k, z) \in Seq(S)
  <2> HIDE DEF k
  <2>1. QED BY <1>4, <1>5, PartsAre
<1>9. h \o First(k, z) \in Seq(S)
  BY <1>8, ConcatProperties
<1>10. full + n + i \in 0..limit
  BY <1>1
<1>11. Kept(h, q, n, x, i)
  BY <1>1, MovedOn
<1>12. QED BY <1>6, <1>7, <1>9, <1>10, <1>11 DEF a, y, z

\* A session that goes on is within its types, and both its streams are right.
LEMMA MovedOnIs ==
  ASSUME TypeOK, NEW s \in Sessions, ShellStream(s), ClientStream(s), UNCHANGED conns,
         NEW in, NEW out, NEW n, NEW i, NEW m, NEW o, MovesOn(s, in, out, n, i, m, o)
  PROVE  /\ state'[s] \in States /\ heard'[s] \in Seq(Bytes) /\ to_master'[s] \in Seq(Bytes)
         /\ seen'[s] \in Seq(Sendable) /\ to_sock'[s] \in Seq(Sendable)
         /\ insock'[s] \in 0..SockRoom /\ inpty'[s] \in 0..PtyRoom
         /\ taken'[s] \in Nat /\ got'[s] \in Nat
         /\ taken'[s] <= Len(sent'[s]) /\ got'[s] <= Len(said'[s])
         /\ Len(to_sock'[s]) <= QueueSize /\ Len(to_master'[s]) <= QueueSize
         /\ ShellStream(s)' /\ ClientStream(s)'
<1> DEFINE x == strip_iac(state[s], in)
           e == Escaped(out)
<1>1. /\ state[s] \in States
      /\ sent[s] \in Seq(Bytes) /\ said[s] \in Seq(Bytes) /\ heard[s] \in Seq(Bytes)
      /\ to_master[s] \in Seq(Bytes) /\ seen[s] \in Seq(Sendable) /\ to_sock[s] \in Seq(Sendable)
      /\ insock[s] \in 0..SockRoom /\ inpty[s] \in 0..PtyRoom
      /\ taken[s] \in 0..Len(sent[s]) /\ got[s] \in 0..Len(said[s])
  BY SessionTypes
<1>2. /\ in \in Seq(Bytes) /\ taken[s] + Len(in) \in 0..Len(sent[s])
      /\ First(taken[s] + Len(in), sent[s]) = First(taken[s], sent[s]) \o in
  BY DEF MovesOn, Reads
<1>3. /\ out \in Seq(Bytes) /\ got[s] + Len(out) \in 0..Len(said[s])
      /\ First(got[s] + Len(out), said[s]) = First(got[s], said[s]) \o out
  BY DEF MovesOn, Reads
<1>4. x \in Progress(Bytes) /\ x.out \in Seq(Bytes) /\ x.state \in States
  BY <1>1, <1>2, StripIacIs DEF Progress
<1>5. e \in Seq(Sendable)
  <2>1. e \in Seq(Bytes)
    BY <1>3, EscapedIs
  <2> HIDE DEF e
  <2>2. QED BY <2>1, SeqMonotonic DEF Sendable
<1>6. /\ Passes(to_master[s], n, x.out, i, inpty[s], PtyRoom)
      /\ Passes(to_sock[s], m, e, o, insock[s], SockRoom)
  BY DEF MovesOn
<1>7. /\ state'[s] = x.state
      /\ taken'[s] = taken[s] + Len(in) /\ got'[s] = got[s] + Len(out)
      /\ to_master'[s] = After(i, After(n, to_master[s]) \o x.out)
      /\ heard'[s] = heard[s] \o First(n + i, to_master[s] \o x.out)
      /\ inpty'[s] = inpty[s] + n + i
      /\ to_sock'[s] = After(o, After(m, to_sock[s]) \o e)
      /\ seen'[s] = seen[s] \o First(m + o, to_sock[s] \o e)
      /\ insock'[s] = insock[s] + m + o
      /\ sent' = sent /\ said' = said
  BY DEF MovesOn, TypeOK, Typed
<1> HIDE DEF x, e
<1>8. /\ to_master'[s] \in Seq(Bytes) /\ Len(to_master'[s]) <= QueueSize
      /\ heard'[s] \in Seq(Bytes) /\ inpty'[s] \in 0..PtyRoom
      /\ heard'[s] \o to_master'[s] = (heard[s] \o to_master[s]) \o x.out
  <2> DEFINE S == Bytes
             h == heard[s]
             q == to_master[s]
             y == x.out
             full == inpty[s]
             a == After(i, After(n, q) \o y)
             b == h \o First(n + i, q \o y)
  <2>1. h \in Seq(S) /\ q \in Seq(S) /\ y \in Seq(S) /\ PtyRoom \in Nat /\ full \in 0..PtyRoom
        /\ Passes(q, n, y, i, full, PtyRoom)
    BY <1>1, <1>4, <1>6, SizesAssumption
  <2> HIDE DEF S, h, q, y, full
  <2>2. /\ a \in Seq(S) /\ Len(a) <= QueueSize /\ b \in Seq(S)
        /\ full + n + i \in 0..PtyRoom /\ Kept(h, q, n, y, i)
    BY <2>1, PassesIs, Zenon
  <2>3. to_master'[s] = a /\ heard'[s] = b /\ inpty'[s] = full + n + i
    BY <1>7 DEF q, h, y, full
  <2>4. b \o a = (h \o q) \o y
    BY <2>2, Zenon DEF Kept
  <2> HIDE DEF a, b
  <2>5. QED BY <2>2, <2>3, <2>4, Zenon DEF S, h, q, y
<1>9. /\ to_sock'[s] \in Seq(Sendable) /\ Len(to_sock'[s]) <= QueueSize
      /\ seen'[s] \in Seq(Sendable) /\ insock'[s] \in 0..SockRoom
      /\ seen'[s] \o to_sock'[s] = (seen[s] \o to_sock[s]) \o e
  <2> DEFINE S == Sendable
             h == seen[s]
             q == to_sock[s]
             full == insock[s]
             a == After(o, After(m, q) \o e)
             b == h \o First(m + o, q \o e)
  <2>1. h \in Seq(S) /\ q \in Seq(S) /\ e \in Seq(S) /\ SockRoom \in Nat /\ full \in 0..SockRoom
        /\ Passes(q, m, e, o, full, SockRoom)
    BY <1>1, <1>5, <1>6, SizesAssumption
  <2> HIDE DEF S, h, q, full
  <2>2. /\ a \in Seq(S) /\ Len(a) <= QueueSize /\ b \in Seq(S)
        /\ full + m + o \in 0..SockRoom /\ Kept(h, q, m, e, o)
    BY <2>1, PassesIs, Zenon
  <2>3. to_sock'[s] = a /\ seen'[s] = b /\ insock'[s] = full + m + o
    BY <1>7 DEF q, h, full
  <2>4. b \o a = (h \o q) \o e
    BY <2>2, Zenon DEF Kept
  <2> HIDE DEF a, b
  <2>5. QED BY <2>2, <2>3, <2>4, Zenon DEF S, h, q
<1>10. ShellStream(s)'
  <2> DEFINE f == First(taken[s], sent[s])
             k == heard[s] \o to_master[s]
  <2>1. f \in Seq(Bytes)
    BY <1>1, PartsAre
  <2>2. strip_iac("DATA", f) = [state |-> state[s], out |-> k]
    BY DEF ShellStream
  <2>3. First(taken'[s], sent'[s]) = f \o in
    BY <1>2, <1>7
  <2> HIDE DEF f, k
  <2>4. strip_iac("DATA", f \o in) = Past(k, x)
    <3>1. "DATA" \in States
      BY DEF States
    <3>2. strip_iac("DATA", f \o in)
            = Past(strip_iac("DATA", f).out, strip_iac(strip_iac("DATA", f).state, in))
      BY <1>2, <2>1, <3>1, StripIacJoins
    <3>3. strip_iac("DATA", f).out = k /\ strip_iac("DATA", f).state = state[s]
      BY <2>2
    <3>4. QED BY <3>2, <3>3, Zenon DEF x
  <2>5. Past(k, x) = [state |-> state'[s], out |-> heard'[s] \o to_master'[s]]
    BY <1>7, <1>8, Zenon DEF Past, k
  <2>6. QED BY <2>3, <2>4, <2>5, Zenon DEF ShellStream
<1>11. ClientStream(s)'
  <2> DEFINE f == First(got[s], said[s])
  <2>1. f \in Seq(Bytes)
    BY <1>1, PartsAre
  <2>2. hello \o Escaped(f) = seen[s] \o to_sock[s]
    BY DEF ClientStream
  <2>3. First(got'[s], said'[s]) = f \o out
    BY <1>3, <1>7
  <2> HIDE DEF f
  <2>4. Escaped(f \o out) = Escaped(f) \o e
    BY <1>3, <2>1, EscapedJoins DEF e
  <2>5. (hello \o Escaped(f)) \o e = hello \o (Escaped(f) \o e)
    <3> DEFINE g == Escaped(f)
    <3>1. g \in Seq(Sendable) /\ hello \in Seq(Sendable)
      <4>1. g \in Seq(Bytes)
        BY <2>1, EscapedIs
      <4> HIDE DEF g
      <4>2. QED BY <4>1, SeqMonotonic DEF Sendable, hello
    <3> HIDE DEF g
    <3>2. (hello \o g) \o e = hello \o (g \o e)
      BY <1>5, <3>1, ConcatAssociative
    <3>3. QED BY <3>2 DEF g
  <2>6. QED BY <1>9, <2>2, <2>3, <2>4, <2>5, Zenon DEF ClientStream
<1>12. taken'[s] \in Nat /\ got'[s] \in Nat /\ taken'[s] <= Len(sent'[s]) /\ got'[s] <= Len(said'[s])
  BY <1>2, <1>3, <1>7
<1>13. state'[s] \in States
  BY <1>4, <1>7
<1>14. QED BY <1>8, <1>9, <1>10, <1>11, <1>12, <1>13

-----------------------------------------------------------------------------
(* What a step changes                                                      *)

\* Nothing of session s changes.
Same(s) ==
  /\ open'[s] = open[s] /\ state'[s] = state[s]
  /\ to_sock'[s] = to_sock[s] /\ to_master'[s] = to_master[s]
  /\ nth'[s] = nth[s] /\ left'[s] = left[s] /\ sent'[s] = sent[s] /\ taken'[s] = taken[s]
  /\ seen'[s] = seen[s] /\ insock'[s] = insock[s]
  /\ ended'[s] = ended[s] /\ said'[s] = said[s] /\ got'[s] = got[s]
  /\ heard'[s] = heard[s] /\ inpty'[s] = inpty[s]

\* What the invariant says of one session, but for what poll() said.
Sound(s) ==
  /\ Fits(s) /\ (~open[s] => Clean(s))
  /\ (open[s] => ShellStream(s) /\ ClientStream(s))

LEMMA SoundAll == IInv <=> Typed /\ ToldRight /\ \A s \in Sessions : Sound(s)
BY DEF IInv, TypeOK, NothingKept, Streams, Sound

LEMMA SameIsSound ==
  ASSUME Typed, NEW s \in Sessions, Sound(s), Same(s), conns' \in {conns, conns + 1}
  PROVE  Sound(s)'
<1>1. Fits(s)'
  <2>1. conns \in Nat /\ \A k \in 1..conns : k \in 1..conns'
    <3>1. conns \in Nat
      BY ConnsAssumption DEF Typed
    <3>2. CASE conns' = conns
      BY <3>1, <3>2
    <3>3. CASE conns' = conns + 1
      BY <3>1, <3>3
    <3>4. QED BY <3>1, <3>2, <3>3
  <2>2. /\ Len(to_sock'[s]) <= QueueSize /\ Len(to_master'[s]) <= QueueSize
        /\ taken'[s] <= Len(sent'[s]) /\ got'[s] <= Len(said'[s])
    BY DEF Sound, Fits, Same
  <2>3. ~open'[s] => to_sock'[s] = <<>> /\ to_master'[s] = <<>>
    BY DEF Sound, Fits, Same
  <2>4. nth'[s] \in IF open'[s] THEN 1..conns' ELSE {0}
    BY <2>1 DEF Sound, Fits, Same
  <2>5. QED BY <2>2, <2>3, <2>4 DEF Fits
<1>2. ~open'[s] => Clean(s)'
  BY DEF Sound, Clean, Same
<1>3. open'[s] => ShellStream(s)' /\ ClientStream(s)'
  BY Zenon DEF Sound, ShellStream, ClientStream, Same
<1>4. QED BY <1>1, <1>2, <1>3 DEF Sound

\* Only session s changes, and s stays as it should be.
LEMMA OneChanges ==
  ASSUME IInv, NEW s \in Sessions, \A t \in Sessions : t # s => Same(t),
         Typed', ToldRight', Sound(s)', conns' \in {conns, conns + 1}
  PROVE  IInv'
<1>1. Typed /\ \A t \in Sessions : Sound(t)
  BY SoundAll
<1>2. \A t \in Sessions : t # s => Sound(t)'
  BY <1>1, SameIsSound
<1>3. \A t \in Sessions : Sound(t)'
  BY <1>2
<1>4. Typed' /\ ToldRight' /\ (\A t \in Sessions : Sound(t))'
  BY <1>3
<1>5. QED BY <1>4 DEF IInv, TypeOK, NothingKept, Streams, Sound

\* No session changes.
LEMMA NoneChanges ==
  ASSUME IInv, \A t \in Sessions : Same(t), Typed', ToldRight', conns' \in {conns, conns + 1}
  PROVE  IInv'
<1>1. Typed /\ \A t \in Sessions : Sound(t)
  BY SoundAll
<1>2. \A t \in Sessions : Sound(t)'
  BY <1>1, SameIsSound
<1>3. Typed' /\ ToldRight' /\ (\A t \in Sessions : Sound(t))'
  BY <1>2
<1>4. QED BY <1>3 DEF IInv, TypeOK, NothingKept, Streams, Sound

\* At its start a session has read and written nothing but hello.
LEMMA Beginning ==
  /\ First(0, <<>>) = <<>> /\ <<>> \o <<>> = <<>>
  /\ strip_iac("DATA", <<>>) = [state |-> "DATA", out |-> <<>>]
  /\ Escaped(<<>>) = <<>>
  /\ hello \in Seq(Sendable) /\ Len(hello) = 1 /\ hello \o <<>> = hello
<1>1. <<>> \in Seq(Bytes) /\ Len(<<>>) = 0
  BY EmptySeq
<1>2. First(0, <<>>) = <<>>
  <2>1. 0 \in 0..Len(<<>>)
    BY <1>1
  <2>2. First(0, <<>>) \in Seq(Bytes) /\ Len(First(0, <<>>)) = 0
    BY <1>1, <2>1, PartsAre
  <2>3. QED BY <2>2, EmptySeq
<1>3. hello \in Seq(Sendable) /\ Len(hello) = 1
  BY DEF hello, Sendable
<1>4. hello \o <<>> = hello
  BY <1>3, ConcatEmptySeq
<1>5. <<>> \o <<>> = <<>>
  BY <1>1, ConcatEmptySeq
<1>6. strip_iac("DATA", <<>>) = [state |-> "DATA", out |-> <<>>]
  <2> DEFINE acc == [state |-> "DATA", out |-> <<>>]
  <2>1. acc \in Progress(Bytes)
    BY <1>1 DEF Progress, States
  <2> HIDE DEF acc
  <2>2. StripFrom(acc, <<>>) = acc
    BY <1>1, <2>1, CourseIs
  <2>3. QED BY <2>2 DEF strip_iac, acc
<1>7. Escaped(<<>>) = <<>>
  BY <1>1, EscapeCourseIs
<1>8. QED BY <1>2, <1>3, <1>4, <1>5, <1>6, <1>7

\* session_end() leaves the session free and clean.
LEMMA EndIs ==
  ASSUME IInv, NEW s \in Sessions, session_end(s)
  PROVE  /\ open' \in [Sessions -> BOOLEAN] /\ left' \in [Sessions -> BOOLEAN]
         /\ ended' \in [Sessions -> BOOLEAN] /\ state' \in [Sessions -> States]
         /\ sent' \in [Sessions -> Seq(Bytes)] /\ said' \in [Sessions -> Seq(Bytes)]
         /\ heard' \in [Sessions -> Seq(Bytes)] /\ to_master' \in [Sessions -> Seq(Bytes)]
         /\ seen' \in [Sessions -> Seq(Sendable)] /\ to_sock' \in [Sessions -> Seq(Sendable)]
         /\ insock' \in [Sessions -> 0..SockRoom] /\ inpty' \in [Sessions -> 0..PtyRoom]
         /\ taken' \in [Sessions -> Nat] /\ got' \in [Sessions -> Nat]
         /\ nth' \in [Sessions -> 0..MaxConns]
         /\ Sound(s)' /\ ~open'[s]
         /\ \A t \in Sessions : t # s => Same(t)
<1>1. <<>> \in Seq(Bytes) /\ <<>> \in Seq(Sendable) /\ Len(<<>>) = 0
  BY EmptySeq
<1>2. 0 \in 0..SockRoom /\ 0 \in 0..PtyRoom /\ 0 \in 0..MaxConns /\ QueueSize \in Nat
  BY SizesAssumption, ConnsAssumption
<1>3. Typed
  BY DEF IInv, TypeOK
<1>4. \A t \in Sessions : t # s => Same(t)
  BY <1>3 DEF Typed, session_end, session_init, Gone, Same
<1>5. /\ open'[s] = FALSE /\ to_sock'[s] = <<>> /\ to_master'[s] = <<>>
      /\ nth'[s] = 0 /\ left'[s] = FALSE /\ ended'[s] = FALSE
      /\ sent'[s] = <<>> /\ taken'[s] = 0 /\ seen'[s] = <<>> /\ insock'[s] = 0
      /\ said'[s] = <<>> /\ got'[s] = 0 /\ heard'[s] = <<>> /\ inpty'[s] = 0
  BY <1>3 DEF Typed, session_end, session_init, Gone
<1>6. Clean(s)'
  BY <1>5 DEF Clean
<1>7. Fits(s)'
  BY <1>1, <1>2, <1>5 DEF Fits
<1>8. Sound(s)'
  BY <1>5, <1>6, <1>7 DEF Sound
<1>9. /\ open' \in [Sessions -> BOOLEAN] /\ left' \in [Sessions -> BOOLEAN]
      /\ ended' \in [Sessions -> BOOLEAN] /\ state' \in [Sessions -> States]
      /\ sent' \in [Sessions -> Seq(Bytes)] /\ said' \in [Sessions -> Seq(Bytes)]
      /\ heard' \in [Sessions -> Seq(Bytes)] /\ to_master' \in [Sessions -> Seq(Bytes)]
  BY <1>1, <1>3 DEF Typed, session_end, session_init, Gone
<1>10. /\ seen' \in [Sessions -> Seq(Sendable)] /\ to_sock' \in [Sessions -> Seq(Sendable)]
       /\ insock' \in [Sessions -> 0..SockRoom] /\ inpty' \in [Sessions -> 0..PtyRoom]
       /\ taken' \in [Sessions -> Nat] /\ got' \in [Sessions -> Nat]
       /\ nth' \in [Sessions -> 0..MaxConns]
  BY <1>1, <1>2, <1>3 DEF Typed, session_end, session_init, Gone
<1>11. QED BY <1>4, <1>5, <1>8, <1>9, <1>10

\* A session that starts has its queue for the client filled with hello, and
\* nothing in the other.
LEMMA StartIs ==
  ASSUME IInv, NEW s \in Sessions, ~open[s], session_start(s), waiting > 0, conns' = conns
  PROVE  /\ open' \in [Sessions -> BOOLEAN] /\ left' \in [Sessions -> BOOLEAN]
         /\ ended' \in [Sessions -> BOOLEAN] /\ state' \in [Sessions -> States]
         /\ sent' \in [Sessions -> Seq(Bytes)] /\ said' \in [Sessions -> Seq(Bytes)]
         /\ heard' \in [Sessions -> Seq(Bytes)] /\ to_master' \in [Sessions -> Seq(Bytes)]
         /\ seen' \in [Sessions -> Seq(Sendable)] /\ to_sock' \in [Sessions -> Seq(Sendable)]
         /\ insock' \in [Sessions -> 0..SockRoom] /\ inpty' \in [Sessions -> 0..PtyRoom]
         /\ taken' \in [Sessions -> Nat] /\ got' \in [Sessions -> Nat]
         /\ nth' \in [Sessions -> 0..MaxConns]
         /\ Sound(s)' /\ open'[s]
         /\ \A t \in Sessions : t # s => Same(t)
<1>1. Typed /\ Sound(s)
  BY SoundAll
<1>2. PICK n \in Drains(hello, SockRoom) :
        /\ to_sock' = [to_sock EXCEPT ![s] = After(n, hello)]
        /\ seen' = [seen EXCEPT ![s] = First(n, hello)]
        /\ insock' = [insock EXCEPT ![s] = n]
  BY DEF session_start
<1>3. /\ open' = [open EXCEPT ![s] = TRUE]
      /\ state' = [state EXCEPT ![s] = "DATA"]
      /\ nth' = [nth EXCEPT ![s] = conns - waiting + 1]
      /\ UNCHANGED <<to_master, left, sent, taken, ended, said, got, heard, inpty>>
  BY DEF session_start, shellVars
<1>4. hello \in Seq(Sendable) /\ Len(hello) = 1 /\ SockRoom \in Nat /\ QueueSize \in Nat /\ QueueSize > 0
  BY Beginning, SizesAssumption
<1>5. n \in 0..Len(hello) /\ n \in 0..SockRoom
  BY <1>4, DrainsIs
<1>6. /\ First(n, hello) \in Seq(Sendable) /\ After(n, hello) \in Seq(Sendable)
      /\ Len(After(n, hello)) = 1 - n
  BY <1>4, <1>5, PartsAre
<1>7. First(n, hello) \o After(n, hello) = hello
  BY <1>4, <1>5, CutIs
<1>8. conns - waiting + 1 \in 1..conns /\ conns - waiting + 1 \in 0..MaxConns
  <2>1. conns \in 0..MaxConns /\ waiting \in 0..conns /\ MaxConns \in Nat
    BY <1>1, ConnsAssumption DEF Typed
  <2>2. QED BY <2>1
<1>9. \A t \in Sessions : t # s => Same(t)
  BY <1>1, <1>2, <1>3 DEF Typed, Same
<1>10. /\ open'[s] = TRUE /\ state'[s] = "DATA" /\ nth'[s] = conns - waiting + 1
       /\ to_sock'[s] = After(n, hello) /\ seen'[s] = First(n, hello) /\ insock'[s] = n
  BY <1>1, <1>2, <1>3 DEF Typed
<1>11. /\ to_master'[s] = <<>> /\ sent'[s] = <<>> /\ taken'[s] = 0 /\ heard'[s] = <<>>
       /\ said'[s] = <<>> /\ got'[s] = 0
  BY <1>1, <1>3 DEF Sound, Fits, Clean
<1>12. Fits(s)'
  <2>1. Len(to_sock'[s]) <= QueueSize /\ Len(to_master'[s]) <= QueueSize
    BY <1>4, <1>5, <1>6, <1>10, <1>11
  <2>2. taken'[s] <= Len(sent'[s]) /\ got'[s] <= Len(said'[s])
    BY <1>11
  <2>3. nth'[s] \in 1..conns'
    BY <1>8, <1>10
  <2>4. QED BY <1>10, <2>1, <2>2, <2>3 DEF Fits
<1>13. ShellStream(s)'
  BY <1>10, <1>11, Beginning, Zenon DEF ShellStream
<1>14. ClientStream(s)'
  BY <1>7, <1>10, <1>11, Beginning, Zenon DEF ClientStream
<1>15. Sound(s)'
  BY <1>10, <1>12, <1>13, <1>14 DEF Sound
<1>16. /\ open' \in [Sessions -> BOOLEAN] /\ left' \in [Sessions -> BOOLEAN]
       /\ ended' \in [Sessions -> BOOLEAN] /\ state' \in [Sessions -> States]
       /\ sent' \in [Sessions -> Seq(Bytes)] /\ said' \in [Sessions -> Seq(Bytes)]
       /\ heard' \in [Sessions -> Seq(Bytes)] /\ to_master' \in [Sessions -> Seq(Bytes)]
       /\ inpty' \in [Sessions -> 0..PtyRoom]
       /\ taken' \in [Sessions -> Nat] /\ got' \in [Sessions -> Nat]
  BY <1>1, <1>3 DEF Typed, States
<1>17. /\ seen' \in [Sessions -> Seq(Sendable)] /\ to_sock' \in [Sessions -> Seq(Sendable)]
       /\ insock' \in [Sessions -> 0..SockRoom] /\ nth' \in [Sessions -> 0..MaxConns]
  BY <1>1, <1>2, <1>3, <1>5, <1>6, <1>8 DEF Typed
<1>18. QED BY <1>9, <1>10, <1>15, <1>16, <1>17

-----------------------------------------------------------------------------
(* The steps                                                                *)

LEMMA InitOK == Init => IInv
<1> SUFFICES ASSUME Init PROVE IInv
  OBVIOUS
<1>1. /\ MaxSessions \in Nat \ {0} /\ QueueSize \in Nat /\ SockRoom \in Nat /\ PtyRoom \in Nat
      /\ MaxConns \in Nat
  BY SizesAssumption, ConnsAssumption
<1>2. <<>> \in Seq(Bytes) /\ <<>> \in Seq(Sendable) /\ Len(<<>>) = 0
  BY EmptySeq
<1>3. Typed
  <2>1. /\ pc = "poll" /\ turn \in Sessions /\ listening \in BOOLEAN
        /\ waiting \in 0..conns /\ conns \in 0..MaxConns
    <3>1. 1 \in Sessions
      BY <1>1 DEF Sessions
    <3>2. conns = 0 /\ waiting = 0 /\ pc = "poll" /\ turn = 1 /\ listening = FALSE
      BY DEF Init
    <3>3. waiting \in 0..conns /\ conns \in 0..MaxConns
      BY <1>1, <3>2
    <3>4. listening \in BOOLEAN
      BY <3>2
    <3>5. QED BY <3>1, <3>2, <3>3, <3>4
  <2>2. revents \in [Sessions -> [sock : SUBSET {"IN", "OUT", "RDHUP"},
                                 master : SUBSET {"IN", "OUT", "HUP"}]]
    <3>1. Quiet \in [sock : SUBSET {"IN", "OUT", "RDHUP"}, master : SUBSET {"IN", "OUT", "HUP"}]
      BY DEF Quiet
    <3>2. QED BY <3>1 DEF Init
  <2>3. /\ open \in [Sessions -> BOOLEAN] /\ left \in [Sessions -> BOOLEAN]
        /\ ended \in [Sessions -> BOOLEAN] /\ state \in [Sessions -> States]
        /\ sent \in [Sessions -> Seq(Bytes)] /\ said \in [Sessions -> Seq(Bytes)]
        /\ heard \in [Sessions -> Seq(Bytes)] /\ to_master \in [Sessions -> Seq(Bytes)]
        /\ seen \in [Sessions -> Seq(Sendable)] /\ to_sock \in [Sessions -> Seq(Sendable)]
    BY <1>2 DEF Init, States
  <2>4. /\ insock \in [Sessions -> 0..SockRoom] /\ inpty \in [Sessions -> 0..PtyRoom]
        /\ taken \in [Sessions -> Nat] /\ got \in [Sessions -> Nat]
        /\ nth \in [Sessions -> 0..MaxConns]
    BY <1>1 DEF Init
  <2>5. QED BY <2>1, <2>2, <2>3, <2>4 DEF Typed
<1>4. \A s \in Sessions : Fits(s) /\ ~open[s] /\ Clean(s)
  BY <1>1, <1>2 DEF Init, Fits, Clean
<1>5. ToldRight
  BY DEF Init, ToldRight, Heeded
<1>6. QED BY <1>3, <1>4, <1>5 DEF IInv, TypeOK, NothingKept, Streams

LEMMA PollOK == IInv /\ Poll => IInv'
<1> SUFFICES ASSUME IInv, Poll PROVE IInv'
  OBVIOUS
<1>1. /\ pc = "poll" /\ pc' = "accept" /\ revents' = Polled /\ listening' = (waiting > 0) /\ turn' = turn
      /\ UNCHANGED <<queueVars, connVars, clientVars, shellVars>>
  BY DEF Poll
<1>2. Typed
  BY DEF IInv, TypeOK
<1>3. \A s \in Sessions : Same(s)
  BY <1>1 DEF Same, queueVars, clientVars, shellVars
<1>4. \A s \in Sessions : revents'[s] = Told(s)
  BY <1>1 DEF Polled
<1>5. \A s \in Sessions : Told(s) \in [sock : SUBSET {"IN", "OUT", "RDHUP"},
                                      master : SUBSET {"IN", "OUT", "HUP"}]
  BY DEF Told, Quiet, SockEvents, SockReady, MasterEvents, MasterReady, nonblockingio_events
<1>6. Typed'
  <2>1. revents' \in [Sessions -> [sock : SUBSET {"IN", "OUT", "RDHUP"},
                                  master : SUBSET {"IN", "OUT", "HUP"}]]
    BY <1>1, <1>5 DEF Polled
  <2>2. listening' \in BOOLEAN /\ pc' \in {"poll", "accept", "serve"} /\ turn' \in Sessions
    <3>1. listening' \in BOOLEAN
      <4> DEFINE there == waiting > 0
      <4>1. there \in BOOLEAN
        OBVIOUS
      <4>2. listening' = there
        BY <1>1
      <4> HIDE DEF there
      <4>3. QED BY <4>1, <4>2
    <3>2. QED BY <1>1, <1>2, <3>1 DEF Typed
  <2>3. QED BY <1>1, <1>2, <2>1, <2>2 DEF Typed, queueVars, connVars, clientVars, shellVars
<1>7. ToldRight'
  <2>1. ASSUME NEW s \in Sessions
        PROVE  /\ open[s] /\ "RDHUP" \in Told(s).sock => left[s]
               /\ open[s] /\ "HUP" \in Told(s).master => ended[s]
               /\ ~open[s] => Told(s) = Quiet
    BY DEF Told, SockEvents, SockReady, MasterEvents, MasterReady, nonblockingio_events
  <2>2. listening' => waiting' > 0
    BY <1>1 DEF connVars
  <2>3. open' = open /\ left' = left /\ ended' = ended
    BY <1>1 DEF queueVars, clientVars, shellVars
  <2>4. QED BY <1>4, <2>1, <2>2, <2>3 DEF ToldRight
<1>8. conns' \in {conns, conns + 1}
  BY <1>1 DEF connVars
<1>9. QED BY <1>3, <1>6, <1>7, <1>8, NoneChanges

LEMMA AcceptOK == IInv /\ Accept => IInv'
<1> SUFFICES ASSUME IInv, Accept PROVE IInv'
  OBVIOUS
<1>1. pc = "accept" /\ pc' = "serve" /\ turn' = 1 /\ UNCHANGED <<revents, listening>>
  BY DEF Accept
<1>2. Typed /\ ToldRight
  BY DEF IInv, TypeOK
<1>3. 1 \in Sessions
  BY SizesAssumption DEF Sessions
<1>4. \A s \in Sessions : Heeded(s)
  BY <1>1 DEF Heeded
<1>5. CASE UNCHANGED <<queueVars, clientVars, shellVars>> /\ conns' = conns /\ waiting' \in 0..conns
  <2>1. \A s \in Sessions : Same(s)
    BY <1>5 DEF Same, queueVars, clientVars, shellVars
  <2>2. Typed'
    BY <1>1, <1>2, <1>3, <1>5 DEF Typed, queueVars, clientVars, shellVars
  <2>3. ToldRight'
    BY <1>1, <1>2, <1>4, <1>5 DEF ToldRight, queueVars, clientVars, shellVars
  <2>4. QED BY <1>5, <2>1, <2>2, <2>3, NoneChanges
<1>6. CASE ~listening
  BY <1>2, <1>5, <1>6 DEF Accept, connVars, Typed
<1>7. CASE listening
  <2>1. accept_one /\ conns' = conns /\ waiting' = waiting - 1
    BY <1>7 DEF Accept, accept_one
  <2>2. waiting > 0 /\ waiting - 1 \in 0..conns
    <3>1. waiting \in 0..conns /\ conns \in Nat
      BY <1>2, ConnsAssumption DEF Typed
    <3>2. waiting > 0
      BY <1>1, <1>2, <1>7 DEF ToldRight
    <3>3. QED BY <3>1, <3>2
  <2>3. CASE Dropped
    BY <1>5, <2>1, <2>2, <2>3 DEF Dropped
  <2>4. CASE Free # {} /\ session_start(Min(Free))
    <3>1. PICK f \in Sessions : f = Min(Free) /\ ~open[f]
      <4>1. Free \subseteq Nat
        BY SizesAssumption DEF Free, Sessions
      <4>2. \E x \in Free : \A y \in Free : x <= y
        BY <2>4, <4>1, LeastNumber
      <4>3. Min(Free) \in Free
        BY <4>2 DEF Min
      <4>4. QED BY <4>3 DEF Free
    <3>2. session_start(f)
      BY <2>4, <3>1
    <3>3. /\ open' \in [Sessions -> BOOLEAN] /\ left' \in [Sessions -> BOOLEAN]
          /\ ended' \in [Sessions -> BOOLEAN] /\ state' \in [Sessions -> States]
          /\ sent' \in [Sessions -> Seq(Bytes)] /\ said' \in [Sessions -> Seq(Bytes)]
          /\ heard' \in [Sessions -> Seq(Bytes)] /\ to_master' \in [Sessions -> Seq(Bytes)]
          /\ seen' \in [Sessions -> Seq(Sendable)] /\ to_sock' \in [Sessions -> Seq(Sendable)]
          /\ insock' \in [Sessions -> 0..SockRoom] /\ inpty' \in [Sessions -> 0..PtyRoom]
          /\ taken' \in [Sessions -> Nat] /\ got' \in [Sessions -> Nat]
          /\ nth' \in [Sessions -> 0..MaxConns]
          /\ Sound(f)' /\ open'[f]
          /\ \A t \in Sessions : t # f => Same(t)
      BY <2>1, <2>2, <3>1, <3>2, StartIs
    <3>4. Typed'
      BY <1>1, <1>2, <1>3, <2>1, <2>2, <3>3 DEF Typed
    <3>5. ToldRight'
      <4>1. revents'[f] = Quiet
        BY <1>1, <1>2, <3>1 DEF ToldRight
      <4>2. ASSUME NEW t \in Sessions
            PROVE  /\ open'[t] /\ "RDHUP" \in revents'[t].sock => left'[t]
                   /\ open'[t] /\ "HUP" \in revents'[t].master => ended'[t]
        <5>1. CASE t = f
          BY <4>1, <5>1 DEF Quiet
        <5>2. CASE t # f
          BY <1>1, <1>2, <1>4, <3>3, <5>2 DEF ToldRight, Same
        <5>3. QED BY <5>1, <5>2
      <4>3. pc' # "accept"
        BY <1>1
      <4>4. QED BY <4>2, <4>3 DEF ToldRight
    <3>6. QED BY <2>1, <3>1, <3>3, <3>4, <3>5, OneChanges
  <2>5. QED BY <2>1, <2>3, <2>4 DEF accept_one
<1>8. QED BY <1>6, <1>7

LEMMA ServiceOK == IInv /\ service => IInv'
<1> SUFFICES ASSUME IInv, service PROVE IInv'
  OBVIOUS
<1>1. /\ pc = "serve" /\ UNCHANGED <<revents, listening>> /\ conns' = conns /\ waiting' = waiting
      /\ IF turn < MaxSessions THEN turn' = turn + 1 /\ pc' = pc ELSE pc' = "poll" /\ turn' = turn
  BY DEF service, connVars
<1>2. Typed /\ ToldRight /\ TypeOK
  BY DEF IInv, TypeOK
<1>3. turn \in 1..MaxSessions /\ MaxSessions \in Nat
  BY <1>2, SizesAssumption DEF Typed, Sessions
<1>4. turn' \in Sessions /\ pc' \in {"poll", "accept", "serve"} /\ pc' # "accept"
  <2>1. CASE turn < MaxSessions
    BY <1>1, <1>3, <2>1 DEF Sessions
  <2>2. CASE ~ (turn < MaxSessions)
    BY <1>1, <1>3, <2>2 DEF Sessions
  <2>3. QED BY <2>1, <2>2
<1>5. ASSUME NEW t \in Sessions, Heeded(t)' PROVE Heeded(t) /\ t # turn
  <2>1. pc' = "serve" /\ turn' <= t
    BY <1>4, <1>5 DEF Heeded
  <2>2. turn < MaxSessions /\ turn' = turn + 1
    BY <1>1, <2>1
  <2>3. turn <= t /\ t # turn
    BY <1>3, <2>1, <2>2 DEF Sessions
  <2>4. QED BY <1>1, <2>3 DEF Heeded
<1>6. PICK s \in Sessions : s = turn
  BY <1>3 DEF Sessions
<1>7. Heeded(s)
  BY <1>1, <1>3, <1>6 DEF Heeded
<1>8. ASSUME \A t \in Sessions : t # s => Same(t) PROVE ToldRight'
  <2>1. ASSUME NEW t \in Sessions, Heeded(t)', open'[t]
        PROVE  /\ "RDHUP" \in revents'[t].sock => left'[t]
               /\ "HUP" \in revents'[t].master => ended'[t]
    <3>1. Heeded(t) /\ Same(t)
      BY <1>5, <1>6, <1>8, <2>1
    <3>2. QED BY <1>1, <1>2, <2>1, <3>1 DEF ToldRight, Same
  <2>2. QED BY <1>4, <2>1, Zenon DEF ToldRight
<1>9. CASE open[s] /\ session_end(s)
  <2>1. Typed' /\ Sound(s)' /\ \A t \in Sessions : t # s => Same(t)
    <3>1. /\ open' \in [Sessions -> BOOLEAN] /\ left' \in [Sessions -> BOOLEAN]
          /\ ended' \in [Sessions -> BOOLEAN] /\ state' \in [Sessions -> States]
          /\ sent' \in [Sessions -> Seq(Bytes)] /\ said' \in [Sessions -> Seq(Bytes)]
          /\ heard' \in [Sessions -> Seq(Bytes)] /\ to_master' \in [Sessions -> Seq(Bytes)]
          /\ seen' \in [Sessions -> Seq(Sendable)] /\ to_sock' \in [Sessions -> Seq(Sendable)]
          /\ insock' \in [Sessions -> 0..SockRoom] /\ inpty' \in [Sessions -> 0..PtyRoom]
          /\ taken' \in [Sessions -> Nat] /\ got' \in [Sessions -> Nat]
          /\ nth' \in [Sessions -> 0..MaxConns]
          /\ Sound(s)' /\ \A t \in Sessions : t # s => Same(t)
      BY <1>9, EndIs
    <3>2. Typed'
      BY <1>1, <1>2, <1>4, <3>1 DEF Typed
    <3>3. QED BY <3>1, <3>2
  <2>2. QED BY <1>1, <1>8, <2>1, OneChanges
<1>10. CASE open[s] /\ \E in, out, n, i, m, o : MovesOn(s, in, out, n, i, m, o)
  <2>1. PICK in, out, n, i, m, o : MovesOn(s, in, out, n, i, m, o)
    BY <1>10
  <2>2. ShellStream(s) /\ ClientStream(s)
    BY <1>10 DEF IInv, Streams
  <2>3. /\ state'[s] \in States /\ heard'[s] \in Seq(Bytes) /\ to_master'[s] \in Seq(Bytes)
        /\ seen'[s] \in Seq(Sendable) /\ to_sock'[s] \in Seq(Sendable)
        /\ insock'[s] \in 0..SockRoom /\ inpty'[s] \in 0..PtyRoom
        /\ taken'[s] \in Nat /\ got'[s] \in Nat
        /\ taken'[s] <= Len(sent'[s]) /\ got'[s] <= Len(said'[s])
        /\ Len(to_sock'[s]) <= QueueSize /\ Len(to_master'[s]) <= QueueSize
        /\ ShellStream(s)' /\ ClientStream(s)'
    BY <1>1, <1>2, <2>1, <2>2, MovedOnIs
  <2>4. open' = open /\ nth' = nth /\ left' = left /\ sent' = sent /\ ended' = ended /\ said' = said
    BY <2>1 DEF MovesOn
  <2> DEFINE Changes(old, new) == \E v : new = [old EXCEPT ![s] = v]
  <2>5. /\ Changes(state, state') /\ Changes(taken, taken') /\ Changes(to_master, to_master')
        /\ Changes(heard, heard') /\ Changes(inpty, inpty') /\ Changes(got, got')
        /\ Changes(to_sock, to_sock') /\ Changes(seen, seen') /\ Changes(insock, insock')
    BY <2>1, Zenon DEF MovesOn
  <2>6. ASSUME NEW S, NEW old \in [Sessions -> S], NEW new, Changes(old, new), new[s] \in S
        PROVE  new \in [Sessions -> S]
    BY <2>6
  <2>7. ASSUME NEW S, NEW old \in [Sessions -> S], NEW new, Changes(old, new)
        PROVE  \A t \in Sessions : t # s => new[t] = old[t]
    BY <2>7
  <2> HIDE DEF Changes
  <2>8. Typed'
    <3>1. /\ state' \in [Sessions -> States] /\ heard' \in [Sessions -> Seq(Bytes)]
          /\ to_master' \in [Sessions -> Seq(Bytes)]
          /\ seen' \in [Sessions -> Seq(Sendable)] /\ to_sock' \in [Sessions -> Seq(Sendable)]
          /\ insock' \in [Sessions -> 0..SockRoom] /\ inpty' \in [Sessions -> 0..PtyRoom]
          /\ taken' \in [Sessions -> Nat] /\ got' \in [Sessions -> Nat]
      BY <1>2, <2>3, <2>5, <2>6, Zenon DEF Typed
    <3>2. QED BY <1>1, <1>2, <1>4, <2>4, <3>1 DEF Typed
  <2>9. \A t \in Sessions : t # s => Same(t)
    <3> SUFFICES ASSUME NEW t \in Sessions, t # s PROVE Same(t)
      OBVIOUS
    <3>1. state'[t] = state[t] /\ taken'[t] = taken[t] /\ to_master'[t] = to_master[t]
      <4>1. /\ state \in [Sessions -> States] /\ taken \in [Sessions -> Nat]
            /\ to_master \in [Sessions -> Seq(Bytes)]
        BY <1>2 DEF Typed
      <4>2. QED BY <2>5, <2>7, <4>1
    <3>2. heard'[t] = heard[t] /\ inpty'[t] = inpty[t] /\ got'[t] = got[t]
      <4>1. /\ heard \in [Sessions -> Seq(Bytes)] /\ inpty \in [Sessions -> 0..PtyRoom]
            /\ got \in [Sessions -> Nat]
        BY <1>2 DEF Typed
      <4>2. QED BY <2>5, <2>7, <4>1
    <3>3. to_sock'[t] = to_sock[t] /\ seen'[t] = seen[t] /\ insock'[t] = insock[t]
      <4>1. /\ to_sock \in [Sessions -> Seq(Sendable)] /\ seen \in [Sessions -> Seq(Sendable)]
            /\ insock \in [Sessions -> 0..SockRoom]
        BY <1>2 DEF Typed
      <4>2. QED BY <2>5, <2>7, <4>1
    <3>4. QED BY <2>4, <3>1, <3>2, <3>3 DEF Same
  <2>10. Sound(s)'
    <3>1. Fits(s)
      BY <1>2 DEF TypeOK
    <3>2. Fits(s)'
      BY <1>1, <1>10, <2>3, <2>4, <3>1 DEF Fits
    <3>3. QED BY <1>10, <2>3, <2>4, <3>2, Zenon DEF Sound
  <2>11. QED BY <1>1, <1>8, <2>8, <2>9, <2>10, OneChanges
<1>11. CASE ~open[s]
  <2>1. UNCHANGED <<queueVars, clientVars, shellVars>>
    BY <1>6, <1>11 DEF service
  <2>2. \A t \in Sessions : Same(t)
    BY <2>1 DEF Same, queueVars, clientVars, shellVars
  <2>3. Typed'
    BY <1>1, <1>2, <1>4, <2>1 DEF Typed, queueVars, clientVars, shellVars
  <2>4. QED BY <1>1, <1>8, <2>2, <2>3, NoneChanges
<1>12. CASE open[s]
  <2>1. Move(s) \/ SocketFails(s)
    BY <1>6, <1>12 DEF service
  <2>2. CASE Move(s)
    BY <1>2, <1>7, <1>9, <1>10, <1>12, <2>2, MoveIs
  <2>3. CASE SocketFails(s)
    BY <1>9, <1>12, <2>3 DEF SocketFails
  <2>4. QED BY <2>1, <2>2, <2>3
<1>13. QED BY <1>11, <1>12

\* What happens behind telnetd's back changes no stream it has read of, and takes
\* back no loss of an end.
LEMMA OutsideOK == IInv /\ Outside => IInv'
<1> SUFFICES ASSUME IInv, Outside PROVE IInv'
  OBVIOUS
<1>1. Typed /\ ToldRight /\ TypeOK /\ \A t \in Sessions : Sound(t)
  BY SoundAll DEF IInv
<1>2. CASE Connect
  <2>1. /\ conns < MaxConns /\ conns' = conns + 1 /\ waiting' = waiting + 1 /\ waiting = 0
        /\ UNCHANGED <<loopVars, queueVars, clientVars, shellVars>>
    BY <1>2 DEF Connect
  <2>2. \A t \in Sessions : Same(t)
    BY <2>1 DEF Same, queueVars, clientVars, shellVars
  <2>3. waiting' \in 0..conns' /\ conns' \in 0..MaxConns
    BY <1>1, <2>1, ConnsAssumption DEF Typed
  <2>4. Typed'
    BY <1>1, <2>1, <2>3 DEF Typed, loopVars, queueVars, clientVars, shellVars
  <2>5. ToldRight'
    BY <1>1, <2>1 DEF ToldRight, Heeded, loopVars, queueVars, clientVars, shellVars
  <2>6. QED BY <2>1, <2>2, <2>4, <2>5, NoneChanges
<1>3. ASSUME NEW s \in Sessions, NEW b \in Bytes, ClientSends(s, b) PROVE IInv'
  <2>1. /\ open[s] /\ sent' = [sent EXCEPT ![s] = Append(@, b)]
        /\ UNCHANGED <<loopVars, queueVars, connVars, nth, left, taken, seen, insock, shellVars>>
    BY <1>3 DEF ClientSends
  <2>2. \A t \in Sessions : t # s => Same(t)
    BY <1>1, <2>1 DEF Typed, Same, queueVars, shellVars
  <2>3. sent'[s] = Append(sent[s], b) /\ sent[s] \in Seq(Bytes) /\ taken[s] \in 0..Len(sent[s])
    BY <1>1, <2>1, SessionTypes DEF Typed
  <2>4. sent'[s] \in Seq(Bytes) /\ Len(sent'[s]) = Len(sent[s]) + 1 /\ Len(sent[s]) \in Nat
    BY <2>3, AppendProperties, LenProperties
  <2>5. First(taken'[s], sent'[s]) = First(taken[s], sent[s])
    BY <2>1, <2>3, FirstOfMore
  <2>6. Typed'
    <3>1. sent' \in [Sessions -> Seq(Bytes)]
      BY <1>1, <2>1, <2>3, <2>4 DEF Typed
    <3>2. QED BY <1>1, <2>1, <3>1 DEF Typed, loopVars, queueVars, connVars, shellVars
  <2>7. ToldRight'
    BY <1>1, <2>1 DEF ToldRight, Heeded, loopVars, queueVars, connVars, shellVars
  <2>8. Sound(s)'
    <3>1. Fits(s)'
      <4>1. Fits(s) /\ taken'[s] <= Len(sent'[s])
        BY <1>1, <2>1, <2>3, <2>4 DEF Sound
      <4>2. /\ open' = open /\ to_sock' = to_sock /\ to_master' = to_master /\ nth' = nth
            /\ got' = got /\ said' = said /\ conns' = conns
        BY <2>1 DEF queueVars, connVars, shellVars
      <4>3. QED BY <4>1, <4>2, Zenon DEF Fits
    <3>2. ShellStream(s)' /\ ClientStream(s)'
      BY <1>1, <2>1, <2>5, Zenon DEF Sound, ShellStream, ClientStream, queueVars, shellVars
    <3>3. open'[s]
      BY <2>1 DEF queueVars
    <3>4. QED BY <3>1, <3>2, <3>3 DEF Sound
  <2>9. conns' = conns
    BY <2>1 DEF connVars
  <2>10. QED BY <2>2, <2>6, <2>7, <2>8, <2>9, OneChanges
<1>4. ASSUME NEW s \in Sessions, NEW b \in Bytes, ShellSays(s, b) PROVE IInv'
  <2>1. /\ open[s] /\ said' = [said EXCEPT ![s] = Append(@, b)]
        /\ UNCHANGED <<loopVars, queueVars, connVars, clientVars, ended, got, heard, inpty>>
    BY <1>4 DEF ShellSays
  <2>2. \A t \in Sessions : t # s => Same(t)
    BY <1>1, <2>1 DEF Typed, Same, queueVars, clientVars
  <2>3. said'[s] = Append(said[s], b) /\ said[s] \in Seq(Bytes) /\ got[s] \in 0..Len(said[s])
    BY <1>1, <2>1, SessionTypes DEF Typed
  <2>4. said'[s] \in Seq(Bytes) /\ Len(said'[s]) = Len(said[s]) + 1 /\ Len(said[s]) \in Nat
    BY <2>3, AppendProperties, LenProperties
  <2>5. First(got'[s], said'[s]) = First(got[s], said[s])
    BY <2>1, <2>3, FirstOfMore
  <2>6. Typed'
    <3>1. said' \in [Sessions -> Seq(Bytes)]
      BY <1>1, <2>1, <2>3, <2>4 DEF Typed
    <3>2. QED BY <1>1, <2>1, <3>1 DEF Typed, loopVars, queueVars, connVars, clientVars
  <2>7. ToldRight'
    BY <1>1, <2>1 DEF ToldRight, Heeded, loopVars, queueVars, connVars, clientVars
  <2>8. Sound(s)'
    <3>1. Fits(s)'
      <4>1. Fits(s) /\ got'[s] <= Len(said'[s])
        BY <1>1, <2>1, <2>3, <2>4 DEF Sound
      <4>2. /\ open' = open /\ to_sock' = to_sock /\ to_master' = to_master /\ nth' = nth
            /\ taken' = taken /\ sent' = sent /\ conns' = conns
        BY <2>1 DEF queueVars, connVars, clientVars
      <4>3. QED BY <4>1, <4>2, Zenon DEF Fits
    <3>2. ShellStream(s)' /\ ClientStream(s)'
      BY <1>1, <2>1, <2>5, Zenon DEF Sound, ShellStream, ClientStream, queueVars, clientVars
    <3>3. open'[s]
      BY <2>1 DEF queueVars
    <3>4. QED BY <3>1, <3>2, <3>3 DEF Sound
  <2>9. conns' = conns
    BY <2>1 DEF connVars
  <2>10. QED BY <2>2, <2>6, <2>7, <2>8, <2>9, OneChanges
<1>5. ASSUME NEW s \in Sessions,
             \/ ClientReads(s) \/ ClientLeaves(s) \/ ShellReads(s) \/ ShellEnds(s)
      PROVE  IInv'
  <2>1. /\ open[s] /\ UNCHANGED <<loopVars, queueVars, connVars>>
        /\ UNCHANGED <<nth, sent, taken, seen, said, got, heard>>
        /\ insock' = insock \/ (insock[s] > 0 /\ insock' = [insock EXCEPT ![s] = @ - 1])
        /\ inpty' = inpty \/ (inpty[s] > 0 /\ inpty' = [inpty EXCEPT ![s] = @ - 1])
        /\ left' = left \/ left' = [left EXCEPT ![s] = TRUE]
        /\ ended' = ended \/ ended' = [ended EXCEPT ![s] = TRUE]
    <3>1. CASE ClientReads(s)
      BY <3>1 DEF ClientReads, shellVars
    <3>2. CASE ClientLeaves(s)
      BY <3>2 DEF ClientLeaves, shellVars
    <3>3. CASE ShellReads(s)
      BY <3>3 DEF ShellReads, clientVars
    <3>4. CASE ShellEnds(s)
      BY <3>4 DEF ShellEnds, clientVars
    <3>5. QED BY <1>5, <3>1, <3>2, <3>3, <3>4
  <2>2. \A t \in Sessions : t # s => Same(t)
    BY <1>1, <2>1 DEF Typed, Same, queueVars
  <2>3. insock' \in [Sessions -> 0..SockRoom] /\ inpty' \in [Sessions -> 0..PtyRoom]
    <3>1. insock[s] \in 0..SockRoom /\ inpty[s] \in 0..PtyRoom /\ SockRoom \in Nat /\ PtyRoom \in Nat
      BY <1>1, SizesAssumption DEF Typed
    <3>2. /\ insock[s] > 0 => insock[s] - 1 \in 0..SockRoom
          /\ inpty[s] > 0 => inpty[s] - 1 \in 0..PtyRoom
      BY <3>1
    <3>3. insock \in [Sessions -> 0..SockRoom] /\ inpty \in [Sessions -> 0..PtyRoom]
      BY <1>1 DEF Typed
    <3>4. insock' \in [Sessions -> 0..SockRoom]
      BY <2>1, <3>2, <3>3
    <3>5. inpty' \in [Sessions -> 0..PtyRoom]
      BY <2>1, <3>2, <3>3
    <3>6. QED BY <3>4, <3>5
  <2>4. left' \in [Sessions -> BOOLEAN] /\ ended' \in [Sessions -> BOOLEAN]
        /\ \A t \in Sessions : (left[t] => left'[t]) /\ (ended[t] => ended'[t])
    BY <1>1, <2>1 DEF Typed
  <2>5. Typed'
    BY <1>1, <2>1, <2>3, <2>4 DEF Typed, loopVars, queueVars, connVars
  <2>6. ToldRight'
    BY <1>1, <2>1, <2>4 DEF ToldRight, Heeded, loopVars, queueVars, connVars
  <2>7. Sound(s)'
    <3>1. Fits(s)'
      BY <1>1, <2>1 DEF Sound, Fits, queueVars, connVars
    <3>2. ShellStream(s)' /\ ClientStream(s)'
      BY <1>1, <2>1, Zenon DEF Sound, ShellStream, ClientStream, queueVars
    <3>3. open'[s]
      BY <2>1 DEF queueVars
    <3>4. QED BY <3>1, <3>2, <3>3 DEF Sound
  <2>8. conns' = conns
    BY <2>1 DEF connVars
  <2>9. QED BY <2>2, <2>5, <2>6, <2>7, <2>8, OneChanges
<1>6. QED BY <1>2, <1>3, <1>4, <1>5 DEF Outside

-----------------------------------------------------------------------------
(* What a stream means                                                      *)

\* A set of numbers of 1..K is all of it, if a number is in it when all the
\* greater ones are.
LEMMA DownTo ==
  ASSUME NEW K \in Nat, NEW T,
         \A i \in 1..K : (\A k \in (i + 1)..K : k \in T) => i \in T
  PROVE  \A i \in 1..K : i \in T
<1>1. SUFFICES ASSUME NEW m \in 1..K, m \notin T PROVE FALSE
  OBVIOUS
<1> DEFINE U == {n \in 0..K : K - n \in 1..K /\ K - n \notin T}
<1>2. U \subseteq Nat /\ U # {}
  <2>1. K - m \in 0..K /\ K - (K - m) = m
    OBVIOUS
  <2>2. K - m \in U
    BY <1>1, <2>1
  <2>3. U \subseteq Nat
    OBVIOUS
  <2> HIDE DEF U
  <2>4. QED BY <2>2, <2>3
<1> HIDE DEF U
<1>3. PICK x \in U : \A y \in U : x <= y
  BY <1>2, LeastNumber
<1>4. x \in 0..K /\ K - x \in 1..K /\ K - x \notin T
  BY <1>3 DEF U
<1>5. ASSUME NEW k \in (K - x + 1)..K, k \notin T PROVE FALSE
  <2>1. K - k \in 0..K /\ K - (K - k) = k /\ k \in 1..K /\ ~ (x <= K - k)
    BY <1>4
  <2>2. K - k \in U
    BY <1>5, <2>1 DEF U
  <2>3. QED BY <1>3, <2>1, <2>2
<1>6. QED BY <1>4, <1>5

\* What a step on a function makes of a number depends on greater ones only.
LooksAhead(step, K, V) ==
  \A i \in 1..K, f, g \in [1..K -> V] :
    (\A k \in (i + 1)..K : f[k] = g[k]) => step[<<i, f>>] = step[<<i, g>>]

SolvesDown(f, K, step) == f = [i \in 1..K |-> step[<<i, f>>]]

\* A function on 1..K can be defined by such a step.
LEMMA DownRecursion ==
  ASSUME NEW K \in Nat, NEW V, NEW v \in V, NEW step \in [(1..K) \X [1..K -> V] -> V],
         LooksAhead(step, K, V)
  PROVE  \E f \in [1..K -> V] : SolvesDown(f, K, step)
<1> DEFINE Is(f, m) == \A i \in 1..K : K - m < i => f[i] = step[<<i, f>>]
           T == {m \in 0..K : \E f \in [1..K -> V] : Is(f, m)}
<1>1. 0 \in T
  <2> DEFINE f == [i \in 1..K |-> v]
  <2>1. f \in [1..K -> V] /\ Is(f, 0)
    OBVIOUS
  <2>2. \E g \in [1..K -> V] : Is(g, 0)
    BY <2>1
  <2> HIDE DEF f, Is
  <2>3. QED BY <2>2
<1>2. ASSUME NEW m \in 1..K, m - 1 \in T PROVE m \in T
  <2>1. PICK f \in [1..K -> V] : Is(f, m - 1)
    BY <1>2
  <2> DEFINE j == K - m + 1
             g == [f EXCEPT ![j] = step[<<j, f>>]]
  <2>2. j \in 1..K /\ \A i \in 1..K : (K - m < i /\ i # j) => (K - (m - 1) < i /\ j < i)
    OBVIOUS
  <2> HIDE DEF j
  <2>3. g \in [1..K -> V] /\ g[j] = step[<<j, f>>] /\ \A k \in 1..K : k # j => g[k] = f[k]
    BY <2>2
  <2> HIDE DEF g
  <2>4. ASSUME NEW i \in 1..K, i = j \/ j < i PROVE step[<<i, g>>] = step[<<i, f>>]
    <3>1. \A k \in (i + 1)..K : g[k] = f[k]
      BY <2>2, <2>3, <2>4
    <3>2. QED BY <2>3, <3>1 DEF LooksAhead
  <2>5. Is(g, m)
    <3> SUFFICES ASSUME NEW i \in 1..K, K - m < i PROVE g[i] = step[<<i, g>>]
      OBVIOUS
    <3>1. CASE i = j
      BY <2>3, <2>4, <3>1
    <3>2. CASE i # j
      <4>1. K - (m - 1) < i /\ j < i
        BY <2>2, <3>2
      <4>2. f[i] = step[<<i, f>>]
        BY <2>1, <4>1
      <4>3. QED BY <2>3, <2>4, <3>2, <4>1, <4>2
    <3>3. QED BY <3>1, <3>2
  <2> HIDE DEF Is
  <2>6. QED BY <2>3, <2>5
<1>3. K \in T
  <2> HIDE DEF T
  <2>1. \A m \in 0..K : m \in T
    BY <1>1, <1>2, UpTo
  <2>2. QED BY <2>1
<1>4. PICK f \in [1..K -> V] : Is(f, K)
  BY <1>3
<1>5. \A i \in 1..K : f[i] = step[<<i, f>>]
  BY <1>4
<1>6. SolvesDown(f, K, step)
  BY <1>5 DEF SolvesDown
<1>7. QED BY <1>6

\* The recursive functions of Meaning().
At(bytes, i, b) == i <= Len(bytes) /\ bytes[i] = b

SubStep(bytes, i, f) ==
  IF i > Len(bytes) THEN Len(bytes) + 1
  ELSE IF At(bytes, i, IAC) THEN IF At(bytes, i + 1, SE) THEN i + 2 ELSE f[i + 2]
  ELSE f[i + 1]

SubEnds(bytes) == CHOOSE f : f = [i \in 1..Len(bytes) + 2 |-> SubStep(bytes, i, f)]

MeansStep(bytes, newlines, i, f) ==
  IF i > Len(bytes) THEN <<>>
  ELSE IF At(bytes, i, HELLO) THEN f[i + 1]
  ELSE IF At(bytes, i, IAC) THEN
         IF i = Len(bytes) THEN <<>>
         ELSE IF At(bytes, i + 1, IAC) THEN <<IAC>> \o f[i + 2]
         ELSE IF At(bytes, i + 1, WILL) THEN f[i + 3]
         ELSE IF At(bytes, i + 1, SB) THEN f[SubEnds(bytes)[i + 2]]
         ELSE f[i + 2]
  ELSE IF At(bytes, i, CR) /\ At(bytes, i + 1, NUL) /\ newlines THEN <<CR>> \o f[i + 2]
  ELSE <<bytes[i]>> \o f[i + 1]

MeansFrom(bytes, newlines) ==
  CHOOSE f : f = [i \in 1..Len(bytes) + 3 |-> MeansStep(bytes, newlines, i, f)]

LEMMA MeaningIsFrom ==
  ASSUME NEW bytes, NEW newlines
  PROVE  Meaning(bytes, newlines) = MeansFrom(bytes, newlines)[1]
BY Zenon DEF Meaning, MeansFrom, MeansStep, SubEnds, SubStep, At

\* A subnegotiation ends after where it began.
LEMMA SubEndsIs ==
  ASSUME NEW B, NEW bytes \in Seq(B)
  PROVE  \A i \in 1..Len(bytes) + 2 :
           /\ SubEnds(bytes)[i] = SubStep(bytes, i, SubEnds(bytes))
           /\ i <= Len(bytes) + 1 => SubEnds(bytes)[i] \in i..(Len(bytes) + 1)
           /\ i > Len(bytes) => SubEnds(bytes)[i] = Len(bytes) + 1
<1> DEFINE N == Len(bytes)
           K == N + 2
           step == [x \in (1..K) \X [1..K -> Nat] |-> SubStep(bytes, x[1], x[2])]
           f == SubEnds(bytes)
<1>1. N \in Nat /\ K \in Nat
  BY LenProperties
<1>2. \A i \in 1..K, g \in [1..K -> Nat] :
        step[<<i, g>>] = SubStep(bytes, i, g) /\ step[<<i, g>>] \in Nat
  <2>1. ASSUME NEW i \in 1..K, NEW g \in [1..K -> Nat] PROVE SubStep(bytes, i, g) \in Nat
    BY <1>1 DEF SubStep
  <2>2. QED BY <2>1
<1>3. step \in [(1..K) \X [1..K -> Nat] -> Nat]
  BY <1>2
<1>4. ASSUME NEW i \in 1..K, NEW g \in [1..K -> Nat], NEW h \in [1..K -> Nat],
             \A k \in (i + 1)..K : g[k] = h[k]
      PROVE  step[<<i, g>>] = step[<<i, h>>]
  <2>1. SubStep(bytes, i, g) = SubStep(bytes, i, h)
    <3>1. i <= N => i + 1 \in (i + 1)..K /\ i + 2 \in (i + 1)..K
      BY <1>1
    <3>2. QED BY <1>1, <1>4, <3>1 DEF SubStep
  <2>2. QED BY <1>2, <2>1
<1> HIDE DEF step
<1>5. \E g \in [1..K -> Nat] : SolvesDown(g, K, step)
  <2>1. LooksAhead(step, K, Nat)
    BY <1>4, Zenon DEF LooksAhead
  <2>2. 0 \in Nat /\ K \in Nat
    BY <1>1
  <2> HIDE DEF K
  <2>3. QED BY <1>3, <2>1, <2>2, DownRecursion
<1>6. \E g : g = [i \in 1..K |-> SubStep(bytes, i, g)]
  <2>1. PICK g \in [1..K -> Nat] : g = [i \in 1..K |-> step[<<i, g>>]]
    BY <1>5 DEF SolvesDown
  <2>2. [i \in 1..K |-> step[<<i, g>>]] = [i \in 1..K |-> SubStep(bytes, i, g)]
    BY <1>2
  <2>3. QED BY <2>1, <2>2
<1>7. f = [i \in 1..K |-> SubStep(bytes, i, f)]
  BY <1>6, Zenon DEF SubEnds
<1> HIDE DEF f
<1>8. \A i \in 1..K : f[i] = SubStep(bytes, i, f)
  BY <1>7
<1>9. \A i \in 1..K : i > N => f[i] = N + 1
  BY <1>8 DEF SubStep
<1> DEFINE T == {i \in 1..(N + 1) : f[i] \in i..(N + 1)}
<1>10. ASSUME NEW i \in 1..(N + 1), \A k \in (i + 1)..(N + 1) : k \in T PROVE i \in T
  <2>1. CASE i > N
    BY <1>1, <1>9, <2>1
  <2>2. CASE i <= N
    <3>1. (f[i] = i + 2 /\ At(bytes, i + 1, SE)) \/ f[i] = f[i + 2] \/ f[i] = f[i + 1]
      BY <1>1, <1>8, <2>2 DEF SubStep
    <3>2. CASE f[i] = i + 2 /\ At(bytes, i + 1, SE)
      BY <1>1, <3>2 DEF At
    <3>3. CASE f[i] = f[i + 1]
      <4>1. f[i + 1] \in (i + 1)..(N + 1)
        BY <1>1, <1>10, <2>2
      <4>2. QED BY <1>1, <3>3, <4>1
    <3>4. CASE f[i] = f[i + 2]
      <4>1. CASE i = N
        <5>1. f[i + 2] = N + 1
          BY <1>1, <1>9, <4>1
        <5>2. QED BY <1>1, <3>4, <5>1
      <4>2. CASE i # N
        <5>1. f[i + 2] \in (i + 2)..(N + 1)
          BY <1>1, <1>10, <2>2, <4>2
        <5>2. QED BY <1>1, <3>4, <5>1
      <4>3. QED BY <4>1, <4>2
    <3>5. QED BY <3>1, <3>2, <3>3, <3>4
  <2>3. QED BY <1>1, <2>1, <2>2
<1>11. \A i \in 1..(N + 1) : f[i] \in i..(N + 1)
  <2>1. N + 1 \in Nat
    BY <1>1
  <2> HIDE DEF T
  <2>2. \A i \in 1..(N + 1) : i \in T
    BY <1>10, <2>1, DownTo
  <2>3. QED BY <2>2 DEF T
<1>12. QED BY <1>1, <1>8, <1>9, <1>11 DEF f

\* The recursion of Meaning() is well-founded: it is what it says.
LEMMA MeansFromIs ==
  ASSUME NEW B, NEW bytes \in Seq(B), NEW newlines \in BOOLEAN
  PROVE  /\ MeansFrom(bytes, newlines) \in [1..Len(bytes) + 3 -> Seq(B)]
         /\ \A i \in 1..Len(bytes) + 3 :
              MeansFrom(bytes, newlines)[i]
                = MeansStep(bytes, newlines, i, MeansFrom(bytes, newlines))
<1> DEFINE N == Len(bytes)
           K == N + 3
           V == Seq(B)
           step == [x \in (1..K) \X [1..K -> V] |-> MeansStep(bytes, newlines, x[1], x[2])]
           f == MeansFrom(bytes, newlines)
<1>1. N \in Nat /\ K \in Nat /\ \A n \in 1..N : bytes[n] \in B
  BY LenProperties, ElementOfSeq
<1>2. \A i \in 1..N : /\ i + 1 \in (i + 1)..K /\ i + 2 \in (i + 1)..K /\ i + 3 \in (i + 1)..K
                      /\ i + 1 \in 1..K /\ i + 2 \in 1..K /\ i + 3 \in 1..K
                      /\ i # N => /\ SubEnds(bytes)[i + 2] \in (i + 1)..K
                                  /\ SubEnds(bytes)[i + 2] \in 1..K
  <2> SUFFICES ASSUME NEW i \in 1..N
               PROVE  /\ i + 1 \in (i + 1)..K /\ i + 2 \in (i + 1)..K /\ i + 3 \in (i + 1)..K
                      /\ i + 1 \in 1..K /\ i + 2 \in 1..K /\ i + 3 \in 1..K
                      /\ i # N => /\ SubEnds(bytes)[i + 2] \in (i + 1)..K
                                  /\ SubEnds(bytes)[i + 2] \in 1..K
    OBVIOUS
  <2>1. i # N => SubEnds(bytes)[i + 2] \in (i + 2)..(N + 1)
    <3>1. i # N => i + 2 \in 1..N + 2 /\ i + 2 <= N + 1
      BY <1>1
    <3>2. QED BY <3>1, SubEndsIs
  <2>2. QED BY <1>1, <2>1
<1>3. ASSUME NEW i \in 1..K, NEW g \in [1..K -> V]
      PROVE  MeansStep(bytes, newlines, i, g) \in V
  <2>1. CASE i > N
    BY <2>1, EmptySeq DEF MeansStep
  <2>2. CASE i <= N
    <3>1. i \in 1..N
      BY <1>1, <2>2
    <3>2. /\ g[i + 1] \in V /\ g[i + 2] \in V /\ g[i + 3] \in V
          /\ i # N => g[SubEnds(bytes)[i + 2]] \in V
      BY <1>2, <3>1
    <3>3. bytes[i] \in B
      BY <1>1, <3>1
    <3>4. ASSUME NEW b \in B, NEW r \in V PROVE <<b>> \o r \in V
      BY <3>4, ConcatProperties
    <3> HIDE DEF V
    <3>5. /\ At(bytes, i, IAC) => <<IAC>> \o g[i + 2] \in V
          /\ At(bytes, i, CR) => <<CR>> \o g[i + 2] \in V
          /\ <<bytes[i]>> \o g[i + 1] \in V
      BY <3>2, <3>3, <3>4, Zenon DEF At
    <3>6. <<>> \in V
      BY EmptySeq DEF V
    <3>7. QED BY <2>2, <3>2, <3>5, <3>6 DEF MeansStep
  <2>3. QED BY <1>1, <2>1, <2>2
<1>4. \A i \in 1..K, g \in [1..K -> V] :
        step[<<i, g>>] = MeansStep(bytes, newlines, i, g)
  OBVIOUS
<1>5. step \in [(1..K) \X [1..K -> V] -> V]
  BY <1>3
<1>6. ASSUME NEW i \in 1..K, NEW g \in [1..K -> V], NEW h \in [1..K -> V],
             \A k \in (i + 1)..K : g[k] = h[k]
      PROVE  step[<<i, g>>] = step[<<i, h>>]
  <2>1. MeansStep(bytes, newlines, i, g) = MeansStep(bytes, newlines, i, h)
    <3>1. CASE i > N
      BY <3>1 DEF MeansStep
    <3>2. CASE i <= N
      <4>1. i \in 1..N
        BY <1>1, <3>2
      <4>2. /\ g[i + 1] = h[i + 1] /\ g[i + 2] = h[i + 2] /\ g[i + 3] = h[i + 3]
            /\ i # N => g[SubEnds(bytes)[i + 2]] = h[SubEnds(bytes)[i + 2]]
        BY <1>2, <1>6, <4>1
      <4>3. QED BY <4>2, Zenon DEF MeansStep
    <3>3. QED BY <1>1, <3>1, <3>2
  <2>2. QED BY <1>4, <2>1
<1> HIDE DEF step
<1>7. PICK g \in [1..K -> V] : g = [i \in 1..K |-> step[<<i, g>>]]
  <2>1. LooksAhead(step, K, V)
    BY <1>6, Zenon DEF LooksAhead
  <2>2. <<>> \in V /\ K \in Nat
    BY <1>1, EmptySeq
  <2> HIDE DEF K, V
  <2>3. \E g \in [1..K -> V] : SolvesDown(g, K, step)
    BY <1>5, <2>1, <2>2, DownRecursion
  <2>4. QED BY <2>3 DEF SolvesDown
<1>8. g = [i \in 1..K |-> MeansStep(bytes, newlines, i, g)]
  <2>1. [i \in 1..K |-> step[<<i, g>>]] = [i \in 1..K |-> MeansStep(bytes, newlines, i, g)]
    BY <1>4
  <2>2. QED BY <1>7, <2>1
<1>9. f = [i \in 1..K |-> MeansStep(bytes, newlines, i, f)]
  BY <1>8, Zenon DEF MeansFrom
<1> HIDE DEF f
<1>10. \A i \in 1..K : f[i] = MeansStep(bytes, newlines, i, f)
  BY <1>9
<1>11. f \in [1..K -> V]
  <2> DEFINE T == {i \in 1..K : f[i] \in V}
  <2>1. ASSUME NEW i \in 1..K, \A k \in (i + 1)..K : k \in T PROVE i \in T
    <3> DEFINE h == [k \in 1..K |-> IF k > i THEN f[k] ELSE <<>>]
    <3>1. h \in [1..K -> V] /\ \A k \in (i + 1)..K : h[k] = f[k]
      BY <1>1, <2>1, EmptySeq
    <3> HIDE DEF h
    <3>2. MeansStep(bytes, newlines, i, h) = MeansStep(bytes, newlines, i, f)
      <4>1. CASE i > N
        BY <4>1 DEF MeansStep
      <4>2. CASE i <= N
        <5>1. i \in 1..N
          BY <1>1, <4>2
        <5>2. /\ h[i + 1] = f[i + 1] /\ h[i + 2] = f[i + 2] /\ h[i + 3] = f[i + 3]
              /\ i # N => h[SubEnds(bytes)[i + 2]] = f[SubEnds(bytes)[i + 2]]
          BY <1>2, <3>1, <5>1
        <5>3. QED BY <5>2, Zenon DEF MeansStep
      <4>3. QED BY <1>1, <4>1, <4>2
    <3>3. f[i] \in V
      BY <1>3, <1>10, <3>1, <3>2
    <3>4. QED BY <3>3
  <2> HIDE DEF T, K, V
  <2>2. \A i \in 1..K : i \in T
    BY <1>1, <2>1, DownTo
  <2>3. QED BY <1>9, <2>2 DEF T
<1>12. QED BY <1>10, <1>11 DEF f

-----------------------------------------------------------------------------
(* What strip_iac() lets through is what a stream means                     *)

Becomes(acc, ch, st, out) ==
  StripByte(acc, ch).state = st /\ StripByte(acc, ch).out = out

\* One turn of the loop, state by state.
LEMMA TurnIs ==
  ASSUME NEW B, NEW acc \in Progress(B), NEW ch
  PROVE  /\ acc.state = "SUB" => Becomes(acc, ch, IF ch = IAC THEN "SUB_IAC" ELSE "SUB", acc.out)
         /\ acc.state = "SUB_IAC" => Becomes(acc, ch, IF ch = SE THEN "DATA" ELSE "SUB", acc.out)
         /\ acc.state = "OPT" => Becomes(acc, ch, "DATA", acc.out)
         /\ acc.state = "CR" /\ ch = NUL => Becomes(acc, ch, "DATA", acc.out)
         /\ acc.state = "CMD" /\ ch = IAC => Becomes(acc, ch, "DATA", Append(acc.out, ch))
         /\ acc.state = "CMD" /\ ch = SB => Becomes(acc, ch, "SUB", acc.out)
         /\ acc.state = "CMD" /\ ch = WILL => Becomes(acc, ch, "OPT", acc.out)
         /\ acc.state = "CMD" /\ ch \notin {IAC, SB, WILL} => Becomes(acc, ch, "DATA", acc.out)
         /\ acc.state = "DATA" \/ (acc.state = "CR" /\ ch # NUL) =>
              /\ ch = IAC => Becomes(acc, ch, "CMD", acc.out)
              /\ ch = CR => Becomes(acc, ch, "CR", Append(acc.out, ch))
              /\ ch \notin {IAC, CR} => Becomes(acc, ch, "DATA", Append(acc.out, ch))
<1>1. \A s : /\ Goes(acc, s).state = s /\ Goes(acc, s).out = acc.out
             /\ Emits(acc, ch, s).state = s /\ Emits(acc, ch, s).out = Append(acc.out, ch)
  BY DEF Progress, Goes, Emits
<1>2. CASE acc.state = "DATA"
  BY <1>1, <1>2 DEF StripByte, Data, Becomes, IAC, CR
<1>3. CASE acc.state = "CR"
  BY <1>1, <1>3 DEF StripByte, Data, Becomes, IAC, CR
<1>4. CASE acc.state = "CMD"
  BY <1>1, <1>4 DEF StripByte, Becomes, IAC, SB, WILL
<1>5. CASE acc.state = "OPT"
  BY <1>1, <1>5 DEF StripByte, Becomes
<1>6. CASE acc.state = "SUB"
  BY <1>1, <1>6 DEF StripByte, Becomes
<1>7. CASE acc.state = "SUB_IAC"
  BY <1>1, <1>7 DEF StripByte, Becomes
<1>8. acc.state \in States
  BY DEF Progress
<1>9. QED BY <1>2, <1>3, <1>4, <1>5, <1>6, <1>7, <1>8 DEF States

\* c is the course of strip_iac()'s loop over bytes.
IsCourse(c, B, bytes) ==
  /\ c \in [0..Len(bytes) -> Progress(B)]
  /\ \A n \in 1..Len(bytes) : c[n] = StripByte(c[n - 1], bytes[n])

\* Nothing of a subnegotiation is let through, and it ends where Meaning() says.
LEMMA SubPassed ==
  ASSUME NEW B, NEW bytes \in Seq(B), NEW c, IsCourse(c, B, bytes)
  PROVE  \A j \in 1..(Len(bytes) + 1) : c[j - 1].state = "SUB" =>
           /\ c[SubEnds(bytes)[j] - 1].out = c[j - 1].out
           /\ SubEnds(bytes)[j] <= Len(bytes) => c[SubEnds(bytes)[j] - 1].state = "DATA"
<1> DEFINE N == Len(bytes)
           f == SubEnds(bytes)
           Passed(j) == /\ c[f[j] - 1].out = c[j - 1].out
                        /\ f[j] <= N => c[f[j] - 1].state = "DATA"
           T == {j \in 1..(N + 1) : c[j - 1].state = "SUB" => Passed(j)}
<1>1. N \in Nat
  BY LenProperties
<1>2. \A i \in 1..(N + 2) : /\ f[i] = SubStep(bytes, i, f)
                            /\ i > N => f[i] = N + 1
  BY SubEndsIs
<1>3. \A n \in 0..N : c[n] \in Progress(B)
  BY DEF IsCourse
<1> HIDE DEF f
<1>4. ASSUME NEW j \in 1..(N + 1), \A k \in (j + 1)..(N + 1) : k \in T, c[j - 1].state = "SUB"
      PROVE  Passed(j)
  <2>1. CASE j > N
    BY <1>1, <1>2, <2>1
  <2>2. CASE j <= N
    <3>1. j \in 1..N /\ j - 1 \in 0..N /\ j \in 1..(N + 2) /\ c[j - 1] \in Progress(B)
      BY <1>1, <1>3, <2>2
    <3>2. c[j] = StripByte(c[j - 1], bytes[j])
      BY <3>1 DEF IsCourse
    <3>3. CASE bytes[j] # IAC
      <4>1. c[j].state = "SUB" /\ c[j].out = c[j - 1].out
        BY <1>4, <3>1, <3>2, <3>3, TurnIs DEF Becomes
      <4>2. f[j] = f[j + 1]
        BY <1>1, <1>2, <3>1, <3>3 DEF SubStep, At
      <4>3. j + 1 \in T /\ (j + 1) - 1 = j
        BY <1>1, <1>4, <3>1
      <4>4. QED BY <4>1, <4>2, <4>3
    <3>4. CASE bytes[j] = IAC
      <4>1. c[j].state = "SUB_IAC" /\ c[j].out = c[j - 1].out
        BY <1>4, <3>1, <3>2, <3>4, TurnIs DEF Becomes
      <4>2. f[j] = IF At(bytes, j + 1, SE) THEN j + 2 ELSE f[j + 2]
        BY <1>1, <1>2, <3>1, <3>4 DEF SubStep, At
      <4>3. CASE j = N
        <5>1. ~ At(bytes, j + 1, SE)
          BY <1>1, <4>3 DEF At
        <5>2. f[j] = N + 1 /\ (N + 1) - 1 = N /\ ~ (N + 1 <= N)
          BY <1>1, <1>2, <4>2, <4>3, <5>1
        <5>3. QED BY <4>1, <4>3, <5>2
      <4>4. CASE j # N
        <5>1. j + 1 \in 1..N /\ (j + 1) - 1 = j /\ (j + 2) - 1 = j + 1 /\ j \in 0..N
          BY <1>1, <3>1, <4>4
        <5>2. c[j + 1] = StripByte(c[j], bytes[j + 1]) /\ c[j] \in Progress(B)
          BY <1>3, <5>1 DEF IsCourse
        <5>3. CASE bytes[j + 1] = SE
          <6>1. c[j + 1].state = "DATA" /\ c[j + 1].out = c[j].out
            BY <4>1, <5>2, <5>3, TurnIs DEF Becomes
          <6>2. f[j] = j + 2
            BY <4>2, <5>1, <5>3 DEF At
          <6>3. QED BY <4>1, <5>1, <6>1, <6>2
        <5>4. CASE bytes[j + 1] # SE
          <6>1. c[j + 1].state = "SUB" /\ c[j + 1].out = c[j].out
            BY <4>1, <5>2, <5>4, TurnIs DEF Becomes
          <6>2. f[j] = f[j + 2]
            BY <4>2, <5>4 DEF At
          <6>3. j + 2 \in T
            BY <1>1, <1>4, <5>1
          <6>4. QED BY <4>1, <5>1, <6>1, <6>2, <6>3
        <5>5. QED BY <5>3, <5>4
      <4>5. QED BY <4>3, <4>4
    <3>5. QED BY <3>3, <3>4
  <2>3. QED BY <1>1, <2>1, <2>2
<1>5. \A j \in 1..(N + 1) : j \in T
  <2>1. ASSUME NEW j \in 1..(N + 1), \A k \in (j + 1)..(N + 1) : k \in T PROVE j \in T
    BY <1>4, <2>1
  <2>2. N + 1 \in Nat
    BY <1>1
  <2> HIDE DEF T
  <2>3. QED BY <2>1, <2>2, DownTo
<1>6. QED BY <1>5 DEF f

LEMMA Onto ==
  ASSUME NEW B, NEW o \in Seq(B), NEW r \in Seq(B), NEW x \in B
  PROVE  Append(o, x) \o r = o \o (<<x>> \o r)
<1>1. Append(o, x) = o \o <<x>> /\ <<x>> \in Seq(B)
  BY AppendIsConcat
<1>2. (o \o <<x>>) \o r = o \o (<<x>> \o r)
  BY <1>1, ConcatAssociative
<1>3. QED BY <1>1, <1>2

\* Between commands, what is still let through is what the rest means.
LEMMA RestMeans ==
  ASSUME NEW B, HELLO \notin B, NEW bytes \in Seq(B), NEW c, IsCourse(c, B, bytes)
  PROVE  \A i \in 1..(Len(bytes) + 1) :
           (c[i - 1].state = "DATA" \/ (c[i - 1].state = "CR" /\ ~ At(bytes, i, NUL))) =>
             c[Len(bytes)].out = c[i - 1].out \o MeansFrom(bytes, TRUE)[i]
<1> DEFINE N == Len(bytes)
           f == MeansFrom(bytes, TRUE)
           g == SubEnds(bytes)
           Ready(i) == c[i - 1].state = "DATA" \/ (c[i - 1].state = "CR" /\ ~ At(bytes, i, NUL))
           Means(i) == c[N].out = c[i - 1].out \o f[i]
           T == {i \in 1..(N + 1) : Ready(i) => Means(i)}
<1>1. N \in Nat /\ \A n \in 1..N : bytes[n] \in B
  BY LenProperties, ElementOfSeq
<1>2. /\ \A i \in 1..(N + 3) : f[i] \in Seq(B)
      /\ \A i \in 1..(N + 3) : f[i] = MeansStep(bytes, TRUE, i, f)
  BY MeansFromIs
<1>3. \A n \in 0..N : c[n] \in Progress(B) /\ c[n].out \in Seq(B)
  BY DEF IsCourse, Progress
<1>4. \A i \in 1..(N + 3) : i > N => f[i] = <<>>
  BY <1>2 DEF MeansStep
<1>5. \A n \in 1..N : c[n] = StripByte(c[n - 1], bytes[n])
  BY DEF IsCourse
<1> HIDE DEF f, g, T, Means
<1>6. ASSUME NEW i \in 1..(N + 1), \A k \in (i + 1)..(N + 1) : k \in T, Ready(i)
      PROVE  Means(i)
  <2>1. ASSUME NEW k \in (i + 1)..(N + 1), c[k - 1].state = "DATA"
        PROVE  c[N].out = c[k - 1].out \o f[k]
    BY <1>6, <2>1 DEF T, Means
  <2>2. \A k \in 0..N : c[k].out = c[k].out \o <<>>
    BY <1>3, ConcatEmptySeq
  <2>3. CASE i > N
    <3>1. i - 1 = N /\ N \in 0..N /\ i \in 1..(N + 3)
      BY <1>1, <2>3
    <3>2. f[i] = <<>>
      BY <1>4, <2>3, <3>1
    <3>3. c[N].out = c[N].out \o <<>>
      BY <2>2, <3>1
    <3>4. QED BY <3>1, <3>2, <3>3 DEF Means
  <2>4. CASE i <= N
    <3>1. /\ i \in 1..N /\ i - 1 \in 0..N /\ i \in 0..N /\ i \in 1..(N + 3)
          /\ i + 1 \in 1..(N + 3) /\ i + 2 \in 1..(N + 3) /\ i + 3 \in 1..(N + 3)
          /\ (i + 1) - 1 = i /\ (i + 2) - 1 = i + 1 /\ (i + 3) - 1 = i + 2
      BY <1>1, <2>4
    <3>2. /\ c[i] = StripByte(c[i - 1], bytes[i]) /\ bytes[i] \in B /\ bytes[i] # HELLO
          /\ c[i - 1] \in Progress(B) /\ c[i - 1].out \in Seq(B)
          /\ c[i] \in Progress(B) /\ c[i].out \in Seq(B)
      BY <1>1, <1>3, <1>5, <3>1
    <3>3. c[i - 1].state = "DATA" \/ (c[i - 1].state = "CR" /\ bytes[i] # NUL)
      BY <1>6, <2>4 DEF At
    <3>4. f[i] = MeansStep(bytes, TRUE, i, f)
      BY <1>2, <3>1
    <3> DEFINE o == c[i - 1].out
    <3>5. ASSUME NEW x \in B, NEW k \in 1..(N + 3)
          PROVE  Append(o, x) \o f[k] = o \o (<<x>> \o f[k])
      <4>1. o \in Seq(B) /\ f[k] \in Seq(B)
        BY <1>2, <3>2
      <4> HIDE DEF o
      <4>2. QED BY <4>1, Onto
    <3> SUFFICES c[N].out = o \o f[i]
      BY DEF Means
    <3> HIDE DEF o
    <3>6. c[i - 1].out = o
      BY DEF o
    <3>7. CASE bytes[i] = IAC
      <4>1. c[i].state = "CMD" /\ c[i].out = c[i - 1].out
        BY <3>2, <3>3, <3>7, TurnIs DEF Becomes
      <4>2. CASE i = N
        <5>1. f[i] = <<>>
          BY <3>1, <3>2, <3>4, <3>7, <4>2 DEF MeansStep, At
        <5>2. QED BY <2>2, <3>1, <3>6, <4>1, <4>2, <5>1
      <4>3. CASE i # N
        <5>1. i + 1 \in 1..N /\ i + 1 \in 0..N /\ i + 2 \in (i + 1)..(N + 1)
          BY <1>1, <3>1, <4>3
        <5>2. c[i + 1] = StripByte(c[i], bytes[i + 1]) /\ bytes[i + 1] \in B
              /\ c[i + 1] \in Progress(B) /\ c[i + 1].out \in Seq(B)
          BY <1>1, <1>3, <1>5, <3>1, <5>1
        <5>3. f[i] = IF bytes[i + 1] = IAC THEN <<IAC>> \o f[i + 2]
                     ELSE IF bytes[i + 1] = WILL THEN f[i + 3]
                     ELSE IF bytes[i + 1] = SB THEN f[g[i + 2]]
                     ELSE f[i + 2]
          BY <3>1, <3>2, <3>4, <3>7, <4>3, <5>1 DEF MeansStep, At, g
        <5>4. IAC # WILL /\ IAC # SB /\ WILL # SB
          BY DEF IAC, WILL, SB
        <5>5. CASE bytes[i + 1] = IAC
          <6>1. Becomes(c[i], bytes[i + 1], "DATA", Append(c[i].out, bytes[i + 1]))
            BY <3>2, <4>1, <5>5, TurnIs
          <6>2. c[i + 1].state = "DATA" /\ c[i + 1].out = Append(o, bytes[i + 1])
            BY <3>6, <4>1, <5>2, <6>1 DEF Becomes
          <6>3. c[N].out = Append(o, bytes[i + 1]) \o f[i + 2]
            BY <2>1, <3>1, <5>1, <6>2
          <6>4. Append(o, bytes[i + 1]) \o f[i + 2] = o \o (<<bytes[i + 1]>> \o f[i + 2])
            BY <3>1, <3>5, <5>2
          <6>5. f[i] = <<bytes[i + 1]>> \o f[i + 2]
            BY <5>3, <5>5
          <6>6. QED BY <6>3, <6>4, <6>5
        <5>6. CASE bytes[i + 1] = WILL
          <6>1. c[i + 1].state = "OPT" /\ c[i + 1].out = c[i].out
            BY <3>2, <4>1, <5>2, <5>6, TurnIs DEF Becomes
          <6>2. f[i] = f[i + 3]
            BY <5>3, <5>4, <5>6
          <6>3. CASE i + 1 = N
            <7>1. f[i + 3] = <<>>
              BY <1>1, <1>4, <3>1, <6>3
            <7>2. QED BY <2>2, <3>6, <4>1, <5>1, <6>1, <6>2, <6>3, <7>1
          <6>4. CASE i + 1 # N
            <7>1. i + 2 \in 1..N /\ (i + 2) - 1 = i + 1 /\ i + 3 \in (i + 1)..(N + 1)
              BY <1>1, <5>1, <6>4
            <7>2. c[i + 2] = StripByte(c[i + 1], bytes[i + 2])
              BY <1>5, <7>1
            <7>3. c[i + 2].state = "DATA" /\ c[i + 2].out = c[i + 1].out
              BY <5>2, <6>1, <7>2, TurnIs DEF Becomes
            <7>4. c[N].out = c[i + 2].out \o f[i + 3]
              BY <2>1, <3>1, <7>1, <7>3
            <7>5. QED BY <3>6, <4>1, <6>1, <6>2, <7>3, <7>4
          <6>5. QED BY <6>3, <6>4
        <5>7. CASE bytes[i + 1] = SB
          <6>1. c[i + 1].state = "SUB" /\ c[i + 1].out = c[i].out
            BY <3>2, <4>1, <5>2, <5>7, TurnIs DEF Becomes
          <6>2. f[i] = f[g[i + 2]]
            BY <5>3, <5>4, <5>7
          <6>3. g[i + 2] \in (i + 2)..(N + 1)
            <7>1. i + 2 \in 1..(N + 2) /\ i + 2 <= N + 1
              BY <1>1, <5>1
            <7>2. QED BY <7>1, SubEndsIs DEF g
          <6>4. /\ c[g[i + 2] - 1].out = c[i + 1].out
                /\ g[i + 2] <= N => c[g[i + 2] - 1].state = "DATA"
            <7>1. i + 2 \in 1..(N + 1)
              BY <1>1, <5>1
            <7>2. QED BY <3>1, <6>1, <7>1, SubPassed DEF g
          <6> DEFINE k == g[i + 2]
          <6>5. k \in (i + 1)..(N + 1) /\ c[k - 1].out = o /\ f[i] = f[k]
                /\ (k <= N => c[k - 1].state = "DATA")
            BY <1>1, <3>1, <3>6, <4>1, <6>1, <6>2, <6>3, <6>4
          <6> HIDE DEF k
          <6>6. CASE k <= N
            BY <2>1, <6>5, <6>6
          <6>7. CASE k = N + 1
            <7>1. k - 1 = N /\ f[k] = <<>>
              BY <1>1, <1>4, <6>7
            <7>2. N \in 0..N
              BY <1>1
            <7>3. QED BY <2>2, <6>5, <7>1, <7>2
          <6>8. k <= N \/ k = N + 1
            BY <1>1, <6>5
          <6>9. QED BY <6>6, <6>7, <6>8
        <5>8. CASE bytes[i + 1] \notin {IAC, SB, WILL}
          <6>1. c[i + 1].state = "DATA" /\ c[i + 1].out = c[i].out
            BY <3>2, <4>1, <5>2, <5>8, TurnIs DEF Becomes
          <6>2. c[N].out = c[i + 1].out \o f[i + 2]
            BY <2>1, <3>1, <5>1, <6>1
          <6>3. f[i] = f[i + 2]
            BY <5>3, <5>8
          <6>4. QED BY <3>6, <4>1, <6>1, <6>2, <6>3
        <5>9. QED BY <5>5, <5>6, <5>7, <5>8
      <4>4. QED BY <4>2, <4>3
    <3>8. CASE bytes[i] = CR
      <4>1. Becomes(c[i - 1], bytes[i], "CR", Append(c[i - 1].out, bytes[i]))
        BY <3>2, <3>3, <3>8, TurnIs
      <4>2. c[i].state = "CR" /\ c[i].out = Append(o, bytes[i])
        BY <3>2, <3>6, <4>1 DEF Becomes
      <4>3. f[i] = IF At(bytes, i + 1, NUL) THEN <<bytes[i]>> \o f[i + 2]
                   ELSE <<bytes[i]>> \o f[i + 1]
        BY <3>1, <3>2, <3>4, <3>8 DEF MeansStep, At, IAC, CR
      <4>4. CASE At(bytes, i + 1, NUL)
        <5>1. i + 1 \in 1..N /\ bytes[i + 1] = NUL /\ i + 2 \in (i + 1)..(N + 1)
          BY <1>1, <3>1, <4>4 DEF At
        <5>2. c[i + 1] = StripByte(c[i], bytes[i + 1])
          BY <1>5, <3>1, <5>1
        <5>3. c[i + 1].state = "DATA" /\ c[i + 1].out = c[i].out
          BY <3>2, <4>2, <5>1, <5>2, TurnIs DEF Becomes
        <5>4. c[N].out = Append(o, bytes[i]) \o f[i + 2]
          BY <2>1, <3>1, <4>2, <5>1, <5>3
        <5>5. Append(o, bytes[i]) \o f[i + 2] = o \o (<<bytes[i]>> \o f[i + 2])
          BY <3>1, <3>2, <3>5
        <5>6. QED BY <4>3, <4>4, <5>4, <5>5
      <4>5. CASE ~ At(bytes, i + 1, NUL)
        <5>1. i + 1 \in T
          BY <1>1, <1>6, <3>1
        <5>2. c[N].out = Append(o, bytes[i]) \o f[i + 1]
          BY <3>1, <4>2, <4>5, <5>1 DEF T, Means
        <5>3. Append(o, bytes[i]) \o f[i + 1] = o \o (<<bytes[i]>> \o f[i + 1])
          BY <3>1, <3>2, <3>5
        <5>4. QED BY <4>3, <4>5, <5>2, <5>3
      <4>6. QED BY <4>4, <4>5
    <3>9. CASE bytes[i] \notin {IAC, CR}
      <4>1. Becomes(c[i - 1], bytes[i], "DATA", Append(c[i - 1].out, bytes[i]))
        BY <3>2, <3>3, <3>9, TurnIs
      <4>2. c[i].state = "DATA" /\ c[i].out = Append(o, bytes[i])
        BY <3>2, <3>6, <4>1 DEF Becomes
      <4>3. f[i] = <<bytes[i]>> \o f[i + 1]
        <5>1. /\ ~ (i > Len(bytes)) /\ ~ At(bytes, i, HELLO)
              /\ ~ At(bytes, i, IAC) /\ ~ At(bytes, i, CR)
          BY <1>1, <3>1, <3>2, <3>9 DEF At
        <5>2. QED BY <3>4, <5>1, Zenon DEF MeansStep
      <4>4. i + 1 \in (i + 1)..(N + 1)
        BY <1>1, <3>1
      <4>5. c[N].out = Append(o, bytes[i]) \o f[i + 1]
        BY <2>1, <3>1, <4>2, <4>4
      <4>6. Append(o, bytes[i]) \o f[i + 1] = o \o (<<bytes[i]>> \o f[i + 1])
        BY <3>1, <3>2, <3>5
      <4>7. QED BY <4>3, <4>5, <4>6
    <3>10. QED BY <3>7, <3>8, <3>9, Zenon
  <2>5. i > N \/ i <= N
    BY <1>1
  <2>6. QED BY <2>3, <2>4, <2>5
<1>7. \A i \in 1..(N + 1) : i \in T
  <2>1. ASSUME NEW i \in 1..(N + 1), \A k \in (i + 1)..(N + 1) : k \in T PROVE i \in T
    BY <1>6, <2>1 DEF T
  <2>2. N + 1 \in Nat
    BY <1>1
  <2>3. QED BY <2>1, <2>2, DownTo
<1>8. QED BY <1>7 DEF T, Means, f

\* strip_iac() lets through what the stream means.
LEMMA StripMeans ==
  ASSUME NEW B, HELLO \notin B, NEW bytes \in Seq(B)
  PROVE  strip_iac("DATA", bytes).out = Meaning(bytes, TRUE)
<1> DEFINE acc == [state |-> "DATA", out |-> <<>>]
           c == Course(acc, bytes)
           r == MeansFrom(bytes, TRUE)[1]
<1>1. acc \in Progress(B)
  BY EmptySeq DEF Progress, States
<1>2. IsCourse(c, B, bytes) /\ c[0] = acc /\ strip_iac("DATA", bytes) = c[Len(bytes)]
  BY <1>1, CourseIs DEF strip_iac, IsCourse
<1>3. 1 \in 1..(Len(bytes) + 1) /\ 1 \in 1..(Len(bytes) + 3) /\ 1 - 1 = 0
  BY LenProperties
<1> HIDE DEF c
<1>4. c[Len(bytes)].out = <<>> \o r
  <2>1. c[1 - 1].state = "DATA" /\ c[1 - 1].out = <<>>
    BY <1>2, <1>3
  <2>2. c[Len(bytes)].out = c[1 - 1].out \o r
    BY <1>2, <1>3, <2>1, RestMeans, Zenon
  <2>3. QED BY <2>1, <2>2
<1>5. r \in Seq(B)
  BY <1>3, MeansFromIs
<1>6. <<>> \o r = r
  BY <1>5, ConcatEmptySeq
<1>7. QED BY <1>2, <1>4, <1>6, MeaningIsFrom

\* What is escaped up to a byte is the beginning of what is escaped in all.
LEMMA EscapeStarts ==
  ASSUME NEW B, NEW bytes \in Seq(B), NEW n \in 0..Len(bytes)
  PROVE  /\ Len(EscapeCourse(bytes)[n]) <= Len(Escaped(bytes))
         /\ \A k \in 1..Len(EscapeCourse(bytes)[n]) : Escaped(bytes)[k] = EscapeCourse(bytes)[n][k]
<1> DEFINE N == Len(bytes)
           f == EscapeCourse(bytes)
           Starts(m) == /\ Len(f[n]) <= Len(f[m])
                        /\ \A k \in 1..Len(f[n]) : f[m][k] = f[n][k]
           T == {m \in 0..N : n <= m => Starts(m)}
<1>1. N \in Nat /\ \A m \in 1..N : bytes[m] \in B
  BY LenProperties, ElementOfSeq
<1>2. /\ \A m \in 0..N : f[m] \in Seq(B)
      /\ \A m \in 1..N : f[m] = f[m - 1] \o SentAs(bytes[m])
      /\ Escaped(bytes) = f[N]
  BY EscapeCourseIs
<1> HIDE DEF f
<1>3. \A m \in 0..N : Len(f[m]) \in Nat
  BY <1>2, LenProperties
<1>4. Starts(n)
  BY <1>3
<1>5. 0 \in T
  BY <1>1, <1>4
<1>6. ASSUME NEW m \in 1..N, m - 1 \in T PROVE m \in T
  <2>1. CASE m = n
    BY <1>1, <1>4, <2>1
  <2>2. CASE n > m
    BY <1>1, <2>2
  <2>3. CASE n < m
    <3>1. m - 1 \in 0..N /\ n <= m - 1 /\ m \in 0..N
      BY <1>1, <2>3
    <3>2. Starts(m - 1)
      BY <1>6, <3>1
    <3>3. SentAs(bytes[m]) \in Seq(B) /\ Len(SentAs(bytes[m])) \in Nat
      BY <1>1, SentAsIs
    <3> DEFINE u == f[m - 1]
               v == SentAs(bytes[m])
    <3>4. u \in Seq(B) /\ f[m] = u \o v /\ Len(u) \in Nat
      BY <1>2, <1>3, <3>1
    <3> HIDE DEF u, v
    <3>5. Len(u \o v) = Len(u) + Len(v) /\ \A k \in 1..Len(u) : (u \o v)[k] = u[k]
      BY <3>3, <3>4, ConcatProperties DEF v
    <3>6. /\ Len(f[m]) = Len(u) + Len(v) /\ Len(v) \in Nat
          /\ \A k \in 1..Len(u) : f[m][k] = u[k]
      BY <3>3, <3>4, <3>5 DEF v
    <3>7. Len(f[n]) <= Len(u) /\ \A k \in 1..Len(f[n]) : u[k] = f[n][k]
      BY <3>2 DEF u
    <3>8. Starts(m)
      BY <1>3, <3>4, <3>6, <3>7
    <3>9. QED BY <3>1, <3>8
  <2>4. QED BY <1>1, <2>1, <2>2, <2>3
<1>7. \A m \in 0..N : m \in T
  <2> HIDE DEF T
  <2>1. QED BY <1>1, <1>5, <1>6, UpTo
<1>8. QED BY <1>1, <1>2, <1>7 DEF f

\* One byte of a stream before the rest of it.
LEMMA OneMore ==
  ASSUME NEW B, NEW x \in Seq(B), NEW n \in 1..Len(x)
  PROVE  <<x[n]>> \o After(n, x) = After(n - 1, x)
<1>1. /\ After(n, x) \in Seq(B) /\ Len(After(n, x)) = Len(x) - n
      /\ \A k \in 1..(Len(x) - n) : After(n, x)[k] = x[n + k]
  <2>1. n \in 0..Len(x)
    BY LenProperties
  <2>2. QED BY <2>1, CutIs
<1>2. /\ After(n - 1, x) \in Seq(B) /\ Len(After(n - 1, x)) = Len(x) - (n - 1)
      /\ \A k \in 1..(Len(x) - (n - 1)) : After(n - 1, x)[k] = x[n - 1 + k]
  <2> DEFINE m == n - 1
  <2>1. m \in 0..Len(x)
    BY LenProperties
  <2> HIDE DEF m
  <2>2. /\ After(m, x) \in Seq(B) /\ Len(After(m, x)) = Len(x) - m
        /\ \A k \in 1..(Len(x) - m) : After(m, x)[k] = x[m + k]
    BY <2>1, CutIs
  <2>3. QED BY <2>2 DEF m
<1>3. Len(x) \in Nat /\ x[n] \in B /\ <<x[n]>> \in Seq(B) /\ Len(<<x[n]>>) = 1 /\ <<x[n]>>[1] = x[n]
  BY ElementOfSeq, LenProperties
<1> DEFINE y == <<x[n]>> \o After(n, x)
<1>4. y \in Seq(B) /\ Len(y) = 1 + (Len(x) - n)
  BY <1>1, <1>3, ConcatProperties
<1>5. ASSUME NEW k \in 1..Len(y) PROVE y[k] = After(n - 1, x)[k]
  <2>1. CASE k = 1
    BY <1>1, <1>2, <1>3, <2>1, ConcatProperties
  <2>2. CASE k # 1
    <3>1. y[k] = After(n, x)[k - 1]
      BY <1>1, <1>3, <1>4, <2>2, ConcatProperties
    <3>2. k - 1 \in 1..(Len(x) - n) /\ k \in 1..(Len(x) - (n - 1)) /\ n + (k - 1) = n - 1 + k
      BY <1>3, <1>4, <2>2
    <3>3. QED BY <1>1, <1>2, <3>1, <3>2
  <2>3. QED BY <2>1, <2>2
<1> HIDE DEF y
<1>6. Len(y) = Len(After(n - 1, x))
  BY <1>2, <1>3, <1>4
<1>7. y = After(n - 1, x)
  BY <1>2, <1>4, <1>5, <1>6, SeqEqual
<1>8. QED BY <1>7 DEF y

\* What a client makes of what telnetd sends is what the shell said.
LEMMA EscapeMeans ==
  ASSUME NEW B, HELLO \notin B, NEW x \in Seq(B)
  PROVE  Meaning(hello \o Escaped(x), FALSE) = x
<1> DEFINE C == B \cup {HELLO}
           e == Escaped(x)
           y == hello \o e
           f == MeansFrom(y, FALSE)
           g == EscapeCourse(x)
           M == Len(x)
           N == Len(y)
           p(n) == Len(g[n])
<1>1. M \in Nat /\ \A n \in 1..M : x[n] \in B /\ x[n] # HELLO
  BY LenProperties, ElementOfSeq
<1>2. e \in Seq(B) /\ Len(e) \in Nat
  BY EscapedIs, LenProperties
<1>3. hello \in Seq(C) /\ Len(hello) = 1 /\ hello[1] = HELLO
  BY DEF hello
<1>4. e \in Seq(C)
  BY <1>2, SeqMonotonic
<1>5. /\ y \in Seq(C) /\ N = 1 + Len(e) /\ N \in Nat /\ y[1] = HELLO
      /\ \A k \in 1..Len(e) : y[1 + k] = e[k]
  <2> HIDE DEF e
  <2>1. /\ hello \o e \in Seq(C) /\ Len(hello \o e) = Len(hello) + Len(e)
        /\ \A k \in 1..(Len(hello) + Len(e)) :
             (hello \o e)[k] = IF k <= Len(hello) THEN hello[k] ELSE e[k - Len(hello)]
    <3> HIDE DEF C
    <3>1. QED BY <1>3, <1>4, ConcatProperties
  <2> HIDE DEF C
  <2>2. /\ y \in Seq(C) /\ N = 1 + Len(e)
        /\ \A k \in 1..(1 + Len(e)) : y[k] = IF k <= 1 THEN hello[k] ELSE e[k - 1]
    BY <1>3, <2>1
  <2> HIDE DEF y, N
  <2>3. N \in Nat /\ y[1] = HELLO
    <3>1. 1 \in 1..(1 + Len(e)) /\ 1 + Len(e) \in Nat
      BY <1>2
    <3>2. y[1] = hello[1]
      BY <2>2, <3>1
    <3>3. QED BY <1>3, <2>2, <3>1, <3>2
  <2>4. ASSUME NEW k \in 1..Len(e) PROVE y[1 + k] = e[k]
    <3>1. 1 + k \in 1..(1 + Len(e)) /\ ~ (1 + k <= 1) /\ (1 + k) - 1 = k
      BY <1>2
    <3>2. QED BY <2>2, <3>1
  <2>5. QED BY <2>2, <2>3, <2>4
<1>6. /\ \A n \in 0..M : g[n] \in Seq(B) /\ p(n) \in Nat
      /\ p(0) = 0 /\ p(M) = Len(e)
      /\ \A n \in 1..M : g[n] = g[n - 1] \o SentAs(x[n])
  <2>1. /\ \A n \in 0..M : g[n] \in Seq(B)
        /\ g[0] = <<>> /\ e = g[M]
        /\ \A n \in 1..M : g[n] = g[n - 1] \o SentAs(x[n])
    BY EscapeCourseIs
  <2> HIDE DEF e, g
  <2>2. \A n \in 0..M : p(n) \in Nat
    BY <2>1, LenProperties
  <2>3. Len(<<>>) = 0
    BY EmptySeq
  <2>4. p(0) = 0 /\ p(M) = Len(e)
    BY <2>1, <2>3
  <2>5. QED BY <2>1, <2>2, <2>4, Zenon
<1>7. \A n \in 1..M :
        LET i == 2 + p(n - 1)
        IN  IF x[n] = IAC THEN y[i] = IAC /\ y[i + 1] = IAC /\ p(n) = p(n - 1) + 2 /\ i < N
            ELSE y[i] = x[n] /\ p(n) = p(n - 1) + 1 /\ i <= N
  <2> SUFFICES ASSUME NEW n \in 1..M
               PROVE  IF x[n] = IAC
                      THEN /\ y[2 + p(n - 1)] = IAC /\ y[2 + p(n - 1) + 1] = IAC
                           /\ p(n) = p(n - 1) + 2 /\ 2 + p(n - 1) < N
                      ELSE /\ y[2 + p(n - 1)] = x[n]
                           /\ p(n) = p(n - 1) + 1 /\ 2 + p(n - 1) <= N
    OBVIOUS
  <2> DEFINE q == p(n - 1)
             z == SentAs(x[n])
  <2>1. n \in 0..M /\ n - 1 \in 0..M /\ g[n - 1] \in Seq(B) /\ q \in Nat /\ p(n) \in Nat
    BY <1>1, <1>6
  <2>2. z \in Seq(B) /\ Len(z) \in 1..2
    BY <1>1, SentAsIs
  <2>3. z = IF x[n] = IAC THEN <<IAC, IAC>> ELSE <<x[n]>>
    BY DEF SentAs
  <2>4. g[n] = g[n - 1] \o z
    BY <1>6
  <2> HIDE DEF z, g, e, y
  <2>5. p(n) = q + Len(z) /\ \A k \in 1..Len(z) : g[n][q + k] = z[k]
    BY <2>1, <2>2, <2>4, ConcatProperties
  <2>6. p(n) <= Len(e) /\ \A k \in 1..p(n) : e[k] = g[n][k]
    BY <2>1, EscapeStarts DEF g, e
  <2>7. \A k \in 1..Len(z) : q + k \in 1..Len(e) /\ q + k \in 1..p(n)
    BY <1>2, <2>1, <2>2, <2>5, <2>6
  <2>8. \A k \in 1..Len(z) : y[1 + (q + k)] = z[k]
    BY <1>5, <2>5, <2>6, <2>7
  <2>9. CASE x[n] = IAC
    <3>1. Len(z) = 2 /\ z[1] = IAC /\ z[2] = IAC
      BY <2>3, <2>9
    <3>2. y[1 + (q + 1)] = IAC /\ y[1 + (q + 2)] = IAC /\ p(n) = q + 2 /\ q + 2 <= Len(e)
      BY <2>5, <2>6, <2>8, <3>1
    <3> HIDE DEF q
    <3>3. 1 + (q + 1) = 2 + q /\ 1 + (q + 2) = 2 + q + 1 /\ 2 + q < N
      BY <1>2, <1>5, <2>1, <3>2
    <3>4. QED BY <2>9, <3>2, <3>3 DEF q
  <2>10. CASE x[n] # IAC
    <3>1. Len(z) = 1 /\ z[1] = x[n]
      BY <2>3, <2>10
    <3>2. y[1 + (q + 1)] = x[n] /\ p(n) = q + 1 /\ q + 1 <= Len(e)
      BY <2>5, <2>6, <2>8, <3>1
    <3> HIDE DEF q
    <3>3. 1 + (q + 1) = 2 + q /\ 2 + q <= N
      BY <1>2, <1>5, <2>1, <3>2
    <3>4. QED BY <2>10, <3>2, <3>3 DEF q
  <2>11. QED BY <2>9, <2>10
<1>8. \A i \in 1..(N + 3) : f[i] = MeansStep(y, FALSE, i, f)
  BY <1>5, MeansFromIs
<1> HIDE DEF e, y, f, g, N, p
<1> DEFINE T == {n \in 1..(M + 1) : f[2 + p(n - 1)] = After(n - 1, x)}
<1>9. ASSUME NEW n \in 1..(M + 1), \A k \in (n + 1)..(M + 1) : k \in T PROVE n \in T
  <2> DEFINE i == 2 + p(n - 1)
  <2>1. n - 1 \in 0..M /\ p(n - 1) \in Nat
    BY <1>1, <1>6
  <2>2. CASE n = M + 1
    <3>1. n - 1 = M /\ i = N + 1 /\ i \in 1..(N + 3)
      BY <1>1, <1>2, <1>5, <1>6, <2>2
    <3>2. f[i] = <<>>
      <4>1. f[i] = MeansStep(y, FALSE, i, f)
        BY <1>8, <3>1
      <4> HIDE DEF i
      <4>2. i > Len(y)
        BY <1>5, <3>1 DEF N
      <4>3. QED BY <4>1, <4>2, Zenon DEF MeansStep
    <3>3. After(M, x) = <<>>
      <4>1. After(M, x) \in Seq(B) /\ Len(After(M, x)) = 0
        BY <1>1, CutIs
      <4>2. QED BY <4>1, EmptySeq
    <3>4. QED BY <3>1, <3>2, <3>3
  <2>3. CASE n # M + 1
    <3>1. n \in 1..M /\ n + 1 \in (n + 1)..(M + 1) /\ (n + 1) - 1 = n
      BY <1>1, <2>3
    <3>2. f[2 + p(n)] = After(n, x)
      BY <1>9, <3>1
    <3>3. <<x[n]>> \o After(n, x) = After(n - 1, x)
      BY <3>1, OneMore
    <3>4. i \in Nat /\ i >= 1
      BY <2>1
    <3>5. CASE x[n] = IAC
      <4>1. y[i] = IAC /\ y[i + 1] = IAC /\ p(n) = p(n - 1) + 2 /\ i < N
        BY <1>7, <3>1, <3>5
      <4>2. 2 + p(n) = i + 2 /\ i \in 1..(N + 3)
        BY <1>5, <2>1, <3>4, <4>1
      <4> HIDE DEF i
      <4>3. /\ ~ (i > Len(y)) /\ i # Len(y)
            /\ At(y, i, IAC) /\ ~ At(y, i, HELLO) /\ At(y, i + 1, IAC)
        BY <1>5, <3>4, <4>1 DEF At, IAC, HELLO, N
      <4>4. f[i] = <<IAC>> \o f[i + 2]
        BY <1>8, <4>2, <4>3, Zenon DEF MeansStep
      <4>5. f[i] = After(n - 1, x)
        BY <3>2, <3>3, <3>5, <4>2, <4>4
      <4>6. QED BY <4>5 DEF i
    <3>6. CASE x[n] # IAC
      <4>1. y[i] = x[n] /\ p(n) = p(n - 1) + 1 /\ i <= N
        BY <1>7, <3>1, <3>6
      <4>2. 2 + p(n) = i + 1 /\ i \in 1..(N + 3)
        BY <1>5, <2>1, <3>4, <4>1
      <4> HIDE DEF i
      <4>3. ~ (i > Len(y)) /\ ~ At(y, i, IAC) /\ ~ At(y, i, HELLO)
        BY <1>1, <1>5, <3>1, <3>4, <3>6, <4>1 DEF At, N
      <4>4. f[i] = <<y[i]>> \o f[i + 1]
        BY <1>8, <4>2, <4>3, Zenon DEF MeansStep
      <4>5. f[i] = After(n - 1, x)
        BY <3>2, <3>3, <4>1, <4>2, <4>4
      <4>6. QED BY <4>5 DEF i
    <3>7. QED BY <3>5, <3>6
  <2>4. QED BY <2>2, <2>3
<1>10. \A n \in 1..(M + 1) : n \in T
  <2>1. M + 1 \in Nat
    BY <1>1
  <2> HIDE DEF T
  <2>2. QED BY <1>9, <2>1, DownTo
<1>11. f[2] = x
  <2>1. f[2 + p(0)] = After(0, x) /\ p(0) = 0
    <3>1. 1 \in T /\ 1 - 1 = 0
      BY <1>1, <1>10
    <3>2. QED BY <1>6, <3>1
  <2>2. After(0, x) = x
    BY DEF After
  <2>3. QED BY <2>1, <2>2
<1>12. f[1] = f[2]
  <2>1. 1 \in 1..(N + 3) /\ ~ (1 > Len(y)) /\ At(y, 1, HELLO) /\ 1 + 1 = 2
    BY <1>2, <1>5 DEF At, N
  <2>2. f[1] = f[1 + 1]
    BY <1>8, <2>1, Zenon DEF MeansStep
  <2>3. QED BY <2>1, <2>2
<1>13. QED BY <1>11, <1>12, MeaningIsFrom DEF f, y, e

-----------------------------------------------------------------------------
(* Theorems                                                                 *)

LEMMA StutterOK == IInv /\ UNCHANGED vars => IInv'
<1> SUFFICES ASSUME IInv, UNCHANGED vars PROVE IInv'
  OBVIOUS
<1>1. UNCHANGED <<loopVars, queueVars, connVars, clientVars, shellVars>>
  BY DEF vars
<1>2. \A s \in Sessions : Same(s)
  BY <1>1 DEF Same, queueVars, clientVars, shellVars
<1>3. Typed' /\ conns' = conns
  BY <1>1 DEF IInv, TypeOK, Typed, loopVars, queueVars, connVars, clientVars, shellVars
<1>4. ToldRight'
  BY <1>1 DEF IInv, ToldRight, Heeded, loopVars, queueVars, connVars, clientVars, shellVars
<1>5. QED BY <1>2, <1>3, <1>4, NoneChanges

\* The invariant everything below follows from: what poll() said of an end that
\* is lost stays true until its session is served, a free session holds nothing,
\* and what went through each queue is what strip_iac() and escape() make of the
\* whole stream, as if they had been given it at once.
THEOREM Invariant == Spec => []IInv
<1>1. Init => IInv
  BY InitOK
<1>2. IInv /\ [Next]_vars => IInv'
  BY PollOK, AcceptOK, ServiceOK, OutsideOK, StutterOK DEF Next, main
<1>3. QED BY <1>1, <1>2, PTL DEF Spec

\* No queue and no kernel buffer ever holds more than it can, and a session that
\* is free holds nothing of the connection before: session_init() in telnetd.c.
THEOREM TypeCorrect == Spec => []TypeOK
<1>1. IInv => TypeOK
  BY DEF IInv
<1>2. QED BY <1>1, Invariant, PTL

\* The read sizes service() works out leave room for all that a read can grow
\* to, so that neither ringbuf_add() nor escape() ever fails for want of it: a
\* session ends because its client left or its shell ended, and never else.
THEOREM EndsWhenLostCorrect == Spec => EndsWhenLost
<1> DEFINE Lost == \A s \in Sessions : open[s] /\ ~open'[s] => left[s] \/ ended[s]
<1>1. IInv /\ Next => Lost
  <2> SUFFICES ASSUME IInv, Next, NEW s \in Sessions, open[s], ~open'[s]
               PROVE  left[s] \/ ended[s]
    OBVIOUS
  <2>1. Typed /\ ToldRight /\ TypeOK
    BY DEF IInv, TypeOK
  <2>2. open' # open
    OBVIOUS
  <2>3. CASE Poll
    BY <2>2, <2>3 DEF Poll, queueVars
  <2>4. CASE Accept
    <3>1. \E f : open' = [open EXCEPT ![f] = TRUE]
      BY <2>2, <2>4, Zenon DEF Accept, accept_one, Dropped, session_start, queueVars
    <3>2. QED BY <2>1, <3>1 DEF Typed
  <2>5. CASE Outside
    BY <2>2, <2>5, Zenon DEF Outside, Connect, ClientSends, ClientReads, ClientLeaves,
                             ShellSays, ShellReads, ShellEnds, queueVars
  <2>6. CASE service
    <3>1. pc = "serve" /\ turn \in Sessions /\ (Move(turn) \/ SocketFails(turn)) /\ open[turn]
      BY <2>1, <2>2, <2>6 DEF service, Typed, queueVars
    <3>2. PICK t \in Sessions : t = turn
      BY <3>1
    <3>3. Heeded(t)
      BY <3>1, <3>2, SizesAssumption DEF Heeded, Sessions
    <3>4. session_end(t) /\ (left[t] \/ ended[t])
      <4>1. CASE Move(t)
        <5>1. ~ \E in, out, n, i, m, o : MovesOn(t, in, out, n, i, m, o)
          <6> SUFFICES ASSUME NEW in, NEW out, NEW n, NEW i, NEW m, NEW o,
                              MovesOn(t, in, out, n, i, m, o)
                       PROVE  FALSE
            OBVIOUS
          <6>1. open' = open
            BY DEF MovesOn
          <6>2. QED BY <2>2, <6>1
        <5>2. QED BY <2>1, <3>1, <3>2, <3>3, <4>1, <5>1, MoveIs
      <4>2. CASE SocketFails(t)
        BY <4>2 DEF SocketFails
      <4>3. QED BY <3>1, <3>2, <4>1, <4>2
    <3>5. s = t
      BY <2>1, <3>4 DEF session_end, Typed
    <3>6. QED BY <3>4, <3>5
  <2>7. QED BY <2>3, <2>4, <2>5, <2>6 DEF Next, main
<1>2. IInv /\ [Next]_vars => [Lost]_vars
  BY <1>1
<1>3. QED BY <1>2, Invariant, PTL DEF Spec, EndsWhenLost

\* However the network, the reads of service() and a pty with little room cut the
\* client's bytes up, the shell gets what strip_iac() in telnetd.c makes of all of
\* them at once, and that is what the telnet standard says they mean.
THEOREM ShellInputCorrect == Spec => []ShellInput
<1>1. IInv => ShellInput
  <2> SUFFICES ASSUME IInv, NEW s \in Sessions, open[s]
               PROVE  heard[s] \o to_master[s] = Meaning(First(taken[s], sent[s]), TRUE)
    BY DEF ShellInput
  <2> DEFINE x == First(taken[s], sent[s])
  <2>1. TypeOK /\ ShellStream(s)
    BY DEF IInv, Streams
  <2>2. x \in Seq(Bytes)
    BY <2>1, SessionTypes, PartsAre
  <2>3. strip_iac("DATA", x).out = heard[s] \o to_master[s]
    <3> DEFINE out == heard[s] \o to_master[s]
    <3>1. strip_iac("DATA", x) = [state |-> state[s], out |-> out]
      BY <2>1, Zenon DEF ShellStream
    <3> HIDE DEF out, x
    <3>2. strip_iac("DATA", x).out = out
      BY <3>1
    <3>3. QED BY <3>2 DEF out
  <2>4. strip_iac("DATA", x).out = Meaning(x, TRUE)
    BY <2>2, HelloAssumption, StripMeans
  <2>5. QED BY <2>3, <2>4
<1>2. QED BY <1>1, Invariant, PTL

\* A client that takes the telnet commands out of what escape() in telnetd.c sent
\* it has what its shell said, complete and in order, up to what is still queued.
THEOREM ClientOutputCorrect == Spec => []ClientOutput
<1>1. IInv => ClientOutput
  <2> SUFFICES ASSUME IInv, NEW s \in Sessions, open[s]
               PROVE  Meaning(seen[s] \o to_sock[s], FALSE) = First(got[s], said[s])
    BY DEF ClientOutput
  <2> DEFINE x == First(got[s], said[s])
  <2>1. TypeOK /\ ClientStream(s)
    BY DEF IInv, Streams
  <2>2. x \in Seq(Bytes)
    BY <2>1, SessionTypes, PartsAre
  <2>3. hello \o Escaped(x) = seen[s] \o to_sock[s]
    BY <2>1, Zenon DEF ClientStream
  <2>4. Meaning(hello \o Escaped(x), FALSE) = x
    BY <2>2, HelloAssumption, EscapeMeans
  <2> HIDE DEF x
  <2>5. Meaning(seen[s] \o to_sock[s], FALSE) = x
    BY <2>3, <2>4
  <2>6. QED BY <2>5 DEF x
<1>2. QED BY <1>1, Invariant, PTL

=============================================================================
