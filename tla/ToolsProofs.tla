----------------------------- MODULE ToolsProofs -----------------------------
(* What the tools that run once keep to, for any values of their constants: *)
(* resolv, ping and sntp report what was said in answer to them, smolsh     *)
(* lets go of what a line took, the file tools lose nothing, a keeper that  *)
(* started anew leaves alone what init keeps, and hardware leaves a seat.   *)
EXTENDS HostTools, DeviceTools, SequenceTheorems, FiniteSetTheorems, WellFoundedInduction, TLAPS

\* The variables by the names they have in the tools' own modules.
pc == s1
exit == s2
job == s3
i == s4
queue == s5
num == s6
left == s7

\* Resolv
peer == s3
got == s8
said == s9
result == s10
refused == s11

\* Ping
sent == s3
answered == s6
replies == s8

\* Sntp
asked == s3
pkt == s7
clock == s8

\* Pipeline
line == s2
prevRead == s3
pipe == s5
held == s6
proc == s7

\* Dungeon
by == s1
act == s2
starts == s3
spoilt == s4
stopped == s5
file == s6

\* Login
who == s2
link == s3
tries == s4
dev == s5
path == s6
seat == s7
todo == s8
logins == s9
plugs == s10
cut == s11
aside == s12

\* Files; nth is its k, copied its done.
ino == s4
kind == s5
data == s6
nth == s8
fd == s9
copied == s10
meddled == s11

USE DEF pc, exit, job, i, queue, num, left, peer, got, said, result, refused, sent, answered,
    replies, asked, pkt, clock, line, prevRead, pipe, held, proc, ino, kind, data,
    nth, fd, copied, meddled, by, act, starts, spoilt, stopped, file,
    who, link, tries, dev, path, seat, todo, logins, plugs, cut, aside

\* What is known of every sequence.
LEMMA OfSequences ==
  ASSUME NEW S, NEW s \in Seq(S)
  PROVE  /\ Len(s) \in Nat /\ DOMAIN s = 1..Len(s)
         /\ Len(s) = 0 <=> s = <<>>
         /\ \A k \in 1..Len(s) : s[k] \in S
<1>1. Len(s) \in Nat /\ DOMAIN s = 1..Len(s) /\ \A k \in 1..Len(s) : s[k] \in S
  OBVIOUS
<1>2. Len(s) = 0 <=> s = <<>>
  BY EmptySeq
<1>3. QED BY <1>1, <1>2

LEMMA SeqOfNumbers == ASSUME NEW n, NEW s \in Seq(1..n) PROVE s \in Seq(Nat)
<1>1. 1..n \subseteq Nat
  OBVIOUS
<1>2. QED BY <1>1, SeqMonotonic

-----------------------------------------------------------------------------
(* Induction, with sets for predicates                                     *)

\* A set of numbers that is not empty has a least one.
LEMMA LeastNumber ==
  ASSUME NEW T, T \subseteq Nat, T # {}
  PROVE  \E x \in T : \A y \in T : x <= y
<1>1. PICK x \in T : \A y \in T : ~ (<<y, x>> \in OpToRel(<, Nat))
  BY NatLessThanWellFounded, WFMin
<1>2. \A y \in T : ~ (y < x)
  BY <1>1 DEF OpToRel
<1>3. \A y \in T : x <= y
  BY <1>2
<1>4. QED BY <1>3

\* A set of numbers with 0 in it, and with each number the next, is all of 0..N.
LEMMA UpTo ==
  ASSUME NEW N \in Nat, NEW T, 0 \in T,
         \A n \in 1..N : n - 1 \in T => n \in T
  PROVE  \A n \in 0..N : n \in T
<1>1. SUFFICES ASSUME NEW m \in 0..N, m \notin T PROVE FALSE
  OBVIOUS
<1> DEFINE U == {n \in 0..N : n \notin T}
<1>2. U \subseteq Nat /\ U # {}
  BY <1>1
<1> HIDE DEF U
<1>3. PICK x \in U : \A y \in U : x <= y
  BY <1>2, LeastNumber
<1>4. x \in 0..N /\ x \notin T
  BY <1>3 DEF U
<1>5. x # 0
  BY <1>4
<1>6. x \in 1..N /\ x - 1 \in 0..N
  BY <1>4, <1>5
<1>7. x - 1 \in U
  BY <1>4, <1>6 DEF U
<1>8. x <= x - 1
  BY <1>3, <1>7
<1>9. QED BY <1>6, <1>8

\* f is defined on 0..N by its value at 0 and by a step from each number to the next.
Solves(f, N, base, step) ==
  f = [n \in 0..N |-> IF n = 0 THEN base ELSE step[<<f[n - 1], n>>]]

\* Such a function exists.
LEMMA Recursion ==
  ASSUME NEW N \in Nat, NEW V, NEW base \in V, NEW step \in [V \X (1..N) -> V]
  PROVE  \E f \in [0..N -> V] : Solves(f, N, base, step)
<1> USE DEF Solves
<1> DEFINE Is(f, m) == Solves(f, m, base, step)
           T == {m \in 0..N : \E f \in [0..m -> V] : Is(f, m)}
<1>1. 0 \in T
  <2> DEFINE f == [n \in 0..0 |-> base]
  <2>1. f \in [0..0 -> V] /\ Is(f, 0)
    OBVIOUS
  <2>2. \E g \in [0..0 -> V] : Is(g, 0)
    BY <2>1
  <2> HIDE DEF f, Is
  <2>3. QED BY <2>2
<1>2. ASSUME NEW m \in 1..N, m - 1 \in T PROVE m \in T
  <2>1. PICK f \in [0..(m - 1) -> V] : Is(f, m - 1)
    BY <1>2
  <2> DEFINE v == step[<<f[m - 1], m>>]
             g == [n \in 0..m |-> IF n = m THEN v ELSE f[n]]
  <2>2. m - 1 \in 0..(m - 1) /\ m - 1 \in 0..m /\ m \in 0..m /\ 0 \in 0..(m - 1)
    OBVIOUS
  <2>3. v \in V
    BY <2>1, <2>2
  <2>4. \A n \in 0..m : n # m => n \in 0..(m - 1)
    OBVIOUS
  <2> HIDE DEF v
  <2>5. g \in [0..m -> V]
    BY <2>1, <2>3, <2>4
  <2>6. \A n \in 0..m : g[n] = IF n = 0 THEN base ELSE step[<<g[n - 1], n>>]
    <3>1. ASSUME NEW n \in 0..m PROVE g[n] = IF n = 0 THEN base ELSE step[<<g[n - 1], n>>]
      <4>1. CASE n = m
        <5>1. g[n - 1] = f[m - 1] /\ g[n] = v /\ n # 0
          BY <4>1, <2>2
        <5>2. QED BY <4>1, <5>1 DEF v
      <4>2. CASE n # m
        <5>1. n \in 0..(m - 1) /\ g[n] = f[n]
          BY <4>2
        <5>2. f[n] = IF n = 0 THEN base ELSE step[<<f[n - 1], n>>]
          BY <2>1, <5>1
        <5>3. n # 0 => g[n - 1] = f[n - 1]
          BY <4>2
        <5>4. QED BY <5>1, <5>2, <5>3
      <4>3. QED BY <4>1, <4>2
    <3>2. QED BY <3>1
  <2> DEFINE h == [n \in 0..m |-> IF n = 0 THEN base ELSE step[<<g[n - 1], n>>]]
  <2>7. \A n \in 0..m : g[n] = h[n]
    BY <2>6
  <2>8. g = h
    BY <2>7
  <2>9. \E e \in [0..m -> V] : Is(e, m)
    BY <2>5, <2>8
  <2> HIDE DEF Is, g, h
  <2>10. QED BY <2>9
<1>3. N \in T
  <2> HIDE DEF T
  <2>1. \A n \in 0..N : n \in T
    BY <1>1, <1>2, UpTo
  <2>2. QED BY <2>1
<1>4. QED BY <1>3

-----------------------------------------------------------------------------
(* Resolv                                                                   *)

Packets == [what : {"reply", "junk"}, reply : Replies \cup {R!NoReply}]

\* A packet that counts as a reply was sent by a server that the query reached,
\* even if it was not the one being asked now.
Said(m) == m.what = "reply" => m.reply \in Replies \cap said

ResolvInv ==
    /\ queue \in Seq(Packets)
    /\ \A k \in 1..Len(queue) : Said(queue[k])
    /\ pc # "done" => exit = "pending"
    /\ R!OwnAnswer

\* What is not reported was not said by anybody.
LEMMA ReportsNothing ==
  ASSUME exit \in {"pending", "no answer", "usage"} PROVE R!OwnAnswer
  BY DEF R!OwnAnswer

LEMMA ResolvInit == R!Init => ResolvInv
<1>1. ASSUME R!Init PROVE ResolvInv
  <2>1. queue = <<>> /\ exit = "pending" /\ pc = "connect"
    BY <1>1 DEF R!Init
  <2>2. R!OwnAnswer
    BY <2>1, ReportsNothing
  <2>3. queue \in Seq(Packets) /\ Len(queue) = 0
    <3>1. <<>> \in Seq(Packets) /\ Len(<<>>) = 0
      BY EmptySeq
    <3>2. QED BY <2>1, <3>1
  <2>4. 1..Len(queue) = {}
    BY <2>3
  <2>5. QED BY <2>1, <2>2, <2>3, <2>4 DEF ResolvInv
<1>2. QED BY <1>1

\* What resolv does not report yet, it may go on with.
LEMMA NextServerGoesOn ==
  ASSUME pc # "done", ResolvInv, R!NextServer
  PROVE  (pc' # "done" => exit' = "pending") /\ R!OwnAnswer'
<1>1. (pc' # "done" => exit' = "pending") /\ exit' \in {"pending", "no answer"}
  BY DEF ResolvInv, R!NextServer
<1>2. R!OwnAnswer'
  BY <1>1 DEF R!OwnAnswer
<1>3. QED BY <1>1, <1>2

\* A step that reports nothing and takes a packet at most.
LEMMA OnlyTakes ==
  ASSUME ResolvInv, pc # "done", queue # <<>>, queue' = Tail(queue)
  PROVE  /\ queue' \in Seq(Packets)
         /\ \A k \in 1..Len(queue') : Said(queue'[k])
<1>1. queue \in Seq(Packets) /\ \A k \in 1..Len(queue) : Said(queue[k])
  BY DEF ResolvInv
<1>2. /\ queue' \in Seq(Packets)
      /\ \A k \in 1..Len(queue') : k + 1 \in 1..Len(queue) /\ queue'[k] = queue[k + 1]
  BY <1>1, HeadTailProperties
<1>3. QED BY <1>1, <1>2

\* Steps that neither take nor report anything.
LEMMA ResolvOthers ==
  ASSUME ResolvInv, R!Connect \/ R!Send \/ R!Tick \/ R!ServerRefuses \/ UNCHANGED R!vars
  PROVE  ResolvInv'
<1>1. UNCHANGED <<queue, said, result, exit>> /\ (pc' # "done" => pc # "done")
  BY DEF R!Connect, R!Send, R!Tick, R!ServerRefuses, R!vars
<1>2. R!OwnAnswer'
  BY <1>1 DEF ResolvInv, R!OwnAnswer
<1>3. QED BY <1>1, <1>2 DEF ResolvInv, Said, Packets

LEMMA ResolvGoesOn ==
  ASSUME ResolvInv, R!ConnectFails \/ R!SendFails \/ R!TimesOut \/ R!Refused
  PROVE  ResolvInv'
<1>1. pc # "done" /\ R!NextServer /\ UNCHANGED <<queue, said, result>>
  BY DEF R!ConnectFails, R!SendFails, R!TimesOut, R!Refused
<1>2. (pc' # "done" => exit' = "pending") /\ R!OwnAnswer'
  BY <1>1, NextServerGoesOn
<1>3. QED BY <1>1, <1>2 DEF ResolvInv, Said, Packets

LEMMA ResolvJunk == ASSUME ResolvInv, R!RecvJunk PROVE ResolvInv'
<1>1. /\ pc # "done" /\ queue # <<>> /\ queue' = Tail(queue)
      /\ UNCHANGED <<pc, said, result, exit>>
  BY DEF R!RecvJunk, R!Receives
<1>2. queue' \in Seq(Packets) /\ \A k \in 1..Len(queue') : Said(queue'[k])
  BY <1>1, OnlyTakes
<1>3. R!OwnAnswer'
  BY <1>1 DEF ResolvInv, R!OwnAnswer
<1>4. QED BY <1>1, <1>2, <1>3 DEF ResolvInv, Said, Packets

\* An answer is one that a server gave, whichever it was.
LEMMA ResolvReply == ASSUME R!ResolvAssumption, ResolvInv, R!RecvReply PROVE ResolvInv'
<1>1. /\ pc # "done" /\ queue # <<>> /\ queue' = Tail(queue)
      /\ Head(queue).what = "reply"
  BY DEF R!RecvReply, R!Receives
<1>2. queue' \in Seq(Packets) /\ \A k \in 1..Len(queue') : Said(queue'[k])
  BY <1>1, OnlyTakes
<1> DEFINE r == Head(queue).reply
           n == IF "cut" \in R!ToSet(r.records) THEN "bad response"
                ELSE IF R!Addresses(r) = <<>> THEN "no address" ELSE "ok"
<1>3. r \in Replies \cap said
  <2>1. Len(queue) \in Nat \ {0}
    BY <1>1, EmptySeq DEF ResolvInv
  <2>2. Head(queue) = queue[1] /\ 1 \in 1..Len(queue)
    <3>1. queue \in Seq(Packets)
      BY DEF ResolvInv
    <3>2. QED BY <2>1, <3>1
  <2>3. QED BY <1>1, <2>2 DEF ResolvInv, Said
<1>4. \/ r.code = "nx" /\ R!Ends("no such name") /\ result' = result
      \/ r.code = "fail" /\ R!NextServer /\ UNCHANGED <<said, result>>
      \/ r.code = "ok" /\ R!Ends(n) /\ result' = R!Addresses(r)
  BY <1>3 DEF R!RecvReply, R!ResolvAssumption
<1>5. (pc' # "done" => exit' = "pending") /\ R!OwnAnswer'
  <2>1. CASE r.code = "nx" /\ R!Ends("no such name") /\ result' = result
    BY <1>1, <1>3, <2>1 DEF R!Ends, R!OwnAnswer
  <2>2. CASE r.code = "fail" /\ R!NextServer /\ UNCHANGED <<said, result>>
    BY <1>1, <2>2, NextServerGoesOn
  <2>3. CASE r.code = "ok" /\ R!Ends(n) /\ result' = R!Addresses(r)
    <3>1. exit' = n /\ pc' = "done" /\ r \in said'
      BY <1>1, <1>3, <2>3 DEF R!Ends
    <3>2. CASE n = "ok"
      <4>1. R!ToSet(r.records) \cap {"cut"} = {} /\ result' # <<>>
        BY <2>3, <3>2
      <4>2. QED BY <2>3, <3>1, <3>2, <4>1 DEF R!OwnAnswer
    <3>3. CASE n \in {"no address", "bad response"}
      BY <2>3, <3>1, <3>3 DEF R!OwnAnswer
    <3>4. QED BY <3>2, <3>3
  <2>4. QED BY <1>4, <2>1, <2>2, <2>3
<1>6. said' = said
  BY <1>4 DEF R!Ends
<1>7. QED BY <1>2, <1>5, <1>6 DEF ResolvInv, Said, Packets

LEMMA ResolvArrives ==
  ASSUME ResolvInv, R!ServerAnswers \/ R!SomebodySends PROVE ResolvInv'
<1>1. PICK m \in Packets : /\ R!Arrives(m) /\ said \subseteq said'
                           /\ m.what = "reply" => m.reply \in Replies \cap said'
  <2>1. CASE R!SomebodySends
    <3> DEFINE m == [what |-> "junk", reply |-> R!NoReply]
    <3>1. m \in Packets /\ m.what # "reply"
      BY DEF Packets
    <3>2. R!Arrives(m) /\ said' = said
      BY <2>1 DEF R!SomebodySends
    <3>3. QED BY <3>1, <3>2
  <2>2. CASE R!ServerAnswers
    <3>1. PICK r \in Replies : /\ R!Arrives([what |-> "reply", reply |-> r])
                               /\ said' = said \cup {r}
      BY <2>2 DEF R!ServerAnswers
    <3> DEFINE m == [what |-> "reply", reply |-> r]
    <3>2. m \in Packets /\ m.reply \in Replies \cap said'
      BY <3>1 DEF Packets
    <3>3. QED BY <3>1, <3>2
  <2>3. QED BY <2>1, <2>2
<1>2. pc # "done" /\ queue' = Append(queue, m) /\ UNCHANGED <<pc, result, exit>>
  BY <1>1 DEF R!Arrives, R!Reachable
<1>3. queue' \in Seq(Packets) /\ (\A k \in 1..Len(queue) : Said(queue[k]))'
  <2>1. /\ queue' \in Seq(Packets) /\ Len(queue') = Len(queue) + 1
        /\ queue'[Len(queue) + 1] = m /\ \A k \in 1..Len(queue) : queue'[k] = queue[k]
    BY <1>2, AppendProperties DEF ResolvInv
  <2>2. \A k \in 1..Len(queue) : Said(queue[k])
    BY DEF ResolvInv
  <2>3. Len(queue) \in Nat
    <3>1. queue \in Seq(Packets)
      BY DEF ResolvInv
    <3>2. QED BY <3>1
  <2>4. QED BY <1>1, <2>1, <2>2, <2>3 DEF Said
<1>4. R!OwnAnswer'
  BY <1>1, <1>2 DEF ResolvInv, R!OwnAnswer
<1>5. QED BY <1>2, <1>3, <1>4 DEF ResolvInv

LEMMA ResolvNext ==
  ASSUME R!ResolvAssumption, ResolvInv, [R!Next]_R!vars
  PROVE  ResolvInv'
BY ResolvOthers, ResolvGoesOn, ResolvJunk, ResolvReply, ResolvArrives DEF R!Next, R!ResolvStep

-----------------------------------------------------------------------------
(* Ping                                                                     *)

\* What ping goes on to write below, a reply to the request at hand is still to
\* be told of, and those before it have been.
Told == pc = "done" \/ \A k \in 1..Len(replies) : replies[k] < i

PingInv ==
    /\ P!TypeOK
    /\ queue \in Seq(0..Requests)
    /\ \A k \in 1..Len(queue) : queue[k] # 0 => queue[k] \in answered
    /\ replies \in Seq(1..Requests)
    /\ \A k \in 1..Len(replies) : replies[k] \in answered
    /\ \A j, k \in 1..Len(replies) : j < k => replies[j] < replies[k]
    /\ Told
    /\ pc # "done" => exit = "pending"
    /\ exit = "ok" => replies # <<>>
    /\ exit = "none" => replies = <<>>

LEMMA PingInvImplies == ASSUME PingInv PROVE P!EachReplyOnce
<1>1. DOMAIN replies = 1..Len(replies)
  <2>1. replies \in Seq(1..Requests)
    BY DEF PingInv
  <2>2. QED BY <2>1, OfSequences
<1>2. P!ToSet(replies) \subseteq answered
  BY <1>1 DEF PingInv, P!ToSet
<1>3. QED BY <1>1, <1>2 DEF PingInv, P!EachReplyOnce

LEMMA PingConstants ==
  ASSUME P!PingAssumption
  PROVE  Requests \in Nat \ {0} /\ Seconds \in Nat \ {0} /\ MaxQueue \in Nat \ {0}
  BY DEF P!PingAssumption

LEMMA PingInit == ASSUME P!PingAssumption, P!Init PROVE PingInv
<1>1. <<>> \in Seq(0..Requests) /\ <<>> \in Seq(1..Requests) /\ Len(<<>>) = 0
  BY EmptySeq
<1>2. queue = <<>> /\ replies = <<>> /\ exit = "pending" /\ pc = "send" /\ i = 1
  BY DEF P!Init
<1>3. queue \in Seq(0..Requests) /\ replies \in Seq(1..Requests)
  BY <1>1, <1>2
<1>4. Len(queue) = 0 /\ Len(replies) = 0
  BY <1>1, <1>2
<1>5. 1..Len(queue) = {} /\ 1..Len(replies) = {}
  BY <1>4
<1>6. P!TypeOK
  <2>1. Requests \in Nat \ {0} /\ Seconds \in Nat \ {0} /\ MaxQueue \in Nat \ {0}
    BY PingConstants
  <2>2. i \in 1..Requests /\ left \in 0..Seconds /\ Len(queue) <= MaxQueue
    BY <1>4, <2>1 DEF P!Init
  <2>3. QED BY <2>2 DEF P!Init, P!TypeOK
<1>7. QED BY <1>2, <1>3, <1>5, <1>6 DEF PingInv, Told

\* The next request is none that has been told of, and the result is what was.
LEMMA NextRequestGoesOn ==
  ASSUME P!PingAssumption, i \in 1..Requests, exit = "pending",
         NEW r \in Seq(Nat), \A k \in 1..Len(r) : r[k] <= i,
         \/ i < Requests /\ i' = i + 1 /\ pc' = "send" /\ exit' = exit
         \/ i' = i /\ pc' = "done" /\ exit' = IF Len(r) > 0 THEN "ok" ELSE "none"
  PROVE  /\ i' \in 1..Requests /\ pc' \in {"send", "done"}
         /\ pc' = "done" \/ \A k \in 1..Len(r) : r[k] < i'
         /\ pc' # "done" => exit' = "pending"
         /\ exit' = "ok" => r # <<>>
         /\ exit' = "none" => r = <<>>
<1>1. /\ Len(r) \in Nat /\ (Len(r) = 0 <=> r = <<>>)
      /\ \A k \in 1..Len(r) : r[k] \in Nat
  BY OfSequences
<1>2. Requests \in Nat \ {0}
  BY PingConstants
<1>3. CASE i < Requests /\ i' = i + 1 /\ pc' = "send" /\ exit' = exit
  <2>1. i' \in 1..Requests
    BY <1>2, <1>3
  <2>2. \A k \in 1..Len(r) : r[k] < i'
    BY <1>1, <1>2, <1>3
  <2>3. QED BY <1>3, <2>1, <2>2
<1>4. CASE i' = i /\ pc' = "done" /\ exit' = IF Len(r) > 0 THEN "ok" ELSE "none"
  BY <1>1, <1>4
<1>5. QED BY <1>3, <1>4

LEMMA PingStays ==
  ASSUME PingInv, P!PingAssumption,
         P!Send \/ P!SendFails \/ P!RecvFails \/ P!Tick \/ UNCHANGED P!vars
  PROVE  PingInv'
<1>1. UNCHANGED <<queue, answered, replies, i>>
  BY DEF P!Send, P!SendFails, P!RecvFails, P!Fails, P!Tick, P!vars
<1>2. /\ pc' = "done" \/ pc # "done"
      /\ (pc' # "done" => exit' = "pending") /\ exit' \in {exit, "failed"}
  BY DEF P!Send, P!SendFails, P!RecvFails, P!Fails, P!Tick, P!vars, PingInv
<1>3. P!TypeOK'
  <2>0. P!TypeOK
    BY DEF PingInv
  <2>1. CASE P!Send
    BY <2>0, <2>1, PingConstants DEF P!Send, P!TypeOK
  <2>2. CASE P!SendFails \/ P!RecvFails
    BY <2>0, <2>2 DEF P!SendFails, P!RecvFails, P!Fails, P!TypeOK
  <2>3. CASE P!Tick
    BY <2>0, <2>3, PingConstants DEF P!Tick, P!TypeOK
  <2>4. CASE UNCHANGED P!vars
    BY <2>0, <2>4 DEF P!vars, P!TypeOK
  <2>5. QED BY <2>1, <2>2, <2>3, <2>4
<1>4. QED BY <1>1, <1>2, <1>3 DEF PingInv, Told

LEMMA PingTakes ==
  ASSUME P!PingAssumption, PingInv, queue # <<>>, queue' = Tail(queue), UNCHANGED answered
  PROVE  /\ queue' \in Seq(0..Requests) /\ Len(queue') <= MaxQueue
         /\ \A k \in 1..Len(queue') : queue'[k] # 0 => queue'[k] \in answered'
<1>1. queue \in Seq(0..Requests)
  BY DEF PingInv
<1>2. /\ queue' \in Seq(0..Requests) /\ Len(queue') = Len(queue) - 1
      /\ \A k \in 1..Len(queue') : queue'[k] = queue[k + 1]
  BY <1>1, HeadTailProperties
<1>3. \A k \in 1..Len(queue') : k + 1 \in 1..Len(queue)
  BY <1>1, <1>2
<1>4. Len(queue') <= MaxQueue
  <2>1. Len(queue) <= MaxQueue /\ Len(queue) \in Nat
    BY <1>1 DEF PingInv, P!TypeOK
  <2>2. QED BY <1>2, <2>1, PingConstants
<1>5. QED BY <1>2, <1>3, <1>4 DEF PingInv

\* The request at hand ends, with what was reported until then.
LEMMA PingTimesOut == ASSUME P!PingAssumption, PingInv, P!TimesOut PROVE PingInv'
<1>1. /\ pc = "wait" /\ exit = "pending" /\ i \in 1..Requests
      /\ replies \in Seq(1..Requests) /\ \A k \in 1..Len(replies) : replies[k] < i
  BY DEF P!TimesOut, PingInv, P!TypeOK, Told
<1>2. \/ i < Requests /\ i' = i + 1 /\ pc' = "send" /\ exit' = exit
      \/ i' = i /\ pc' = "done" /\ exit' = IF Len(replies) > 0 THEN "ok" ELSE "none"
  BY DEF P!TimesOut, P!NextRequest
<1>3. replies \in Seq(Nat) /\ \A k \in 1..Len(replies) : replies[k] <= i
  <2>1. \A k \in 1..Len(replies) : replies[k] \in 1..Requests /\ replies[k] < i
    BY <1>1, OfSequences
  <2>2. \A k \in 1..Len(replies) : replies[k] <= i
    BY <1>1, <2>1
  <2>3. QED BY <1>1, <2>2, SeqOfNumbers
<1>4. UNCHANGED <<left, queue, sent, answered, replies>>
  BY DEF P!TimesOut
<1>5. /\ i' \in 1..Requests /\ pc' \in {"send", "done"} /\ Told'
      /\ pc' # "done" => exit' = "pending"
      /\ exit' = "ok" => replies # <<>>
      /\ exit' = "none" => replies = <<>>
  BY <1>1, <1>2, <1>3, <1>4, NextRequestGoesOn DEF Told
<1>6. P!TypeOK'
  BY <1>4, <1>5 DEF PingInv, P!TypeOK
<1>7. QED BY <1>4, <1>5, <1>6 DEF PingInv

LEMMA PingOther == ASSUME P!PingAssumption, PingInv, P!RecvOther PROVE PingInv'
<1>1. /\ queue # <<>> /\ queue' = Tail(queue)
      /\ UNCHANGED <<i, pc, left, sent, answered, replies, exit>>
  BY DEF P!RecvOther, P!Receives
<1>2. /\ queue' \in Seq(0..Requests) /\ Len(queue') <= MaxQueue
      /\ \A k \in 1..Len(queue') : queue'[k] # 0 => queue'[k] \in answered'
  BY <1>1, PingTakes
<1>3. P!TypeOK'
  BY <1>1, <1>2 DEF PingInv, P!TypeOK
<1>4. QED BY <1>1, <1>2, <1>3 DEF PingInv, Told

\* What is reported is the request at hand, which the host has answered, and
\* which none of the lines before was for.
LEMMA PingReply == ASSUME P!PingAssumption, PingInv, P!RecvReply PROVE PingInv'
<1>1. /\ pc = "wait" /\ queue # <<>> /\ queue' = Tail(queue) /\ Head(queue) = i
      /\ replies' = Append(replies, i) /\ UNCHANGED <<left, sent, answered>>
      /\ P!NextRequest(Len(replies) + 1)
  BY DEF P!RecvReply, P!Receives, P!Wanted
<1>2. /\ exit = "pending" /\ i \in 1..Requests
      /\ replies \in Seq(1..Requests) /\ \A k \in 1..Len(replies) : replies[k] < i
  BY <1>1 DEF PingInv, P!TypeOK, Told
<1>3. i \in answered
  <2>1. queue \in Seq(0..Requests) /\ \A k \in 1..Len(queue) : queue[k] # 0 => queue[k] \in answered
    BY DEF PingInv
  <2>2. Head(queue) = queue[1] /\ Len(queue) \in Nat \ {0}
    BY <1>1, <2>1, EmptySeq
  <2>3. i = queue[1] /\ 1 \in 1..Len(queue) /\ i # 0
    BY <1>1, <1>2, <2>2
  <2>4. QED BY <2>1, <2>3
<1>4. /\ queue' \in Seq(0..Requests) /\ Len(queue') <= MaxQueue
      /\ \A k \in 1..Len(queue') : queue'[k] # 0 => queue'[k] \in answered'
  BY <1>1, PingTakes
<1>5. /\ replies' \in Seq(1..Requests) /\ Len(replies') = Len(replies) + 1
      /\ Len(replies) \in Nat /\ replies'[Len(replies) + 1] = i
      /\ \A k \in 1..Len(replies) : replies'[k] = replies[k]
  BY <1>1, <1>2, AppendProperties, OfSequences
<1>6. \A k \in 1..Len(replies') : k \in 1..Len(replies) \/ k = Len(replies) + 1
  BY <1>5
<1>7. \A k \in 1..Len(replies') : replies'[k] <= i
  <2>1. \A k \in 1..Len(replies) : replies[k] \in 1..Requests
    BY <1>2, OfSequences
  <2>2. ASSUME NEW k \in 1..Len(replies) PROVE replies'[k] <= i
    BY <1>2, <1>5, <2>1
  <2>3. replies'[Len(replies) + 1] <= i
    BY <1>2, <1>5
  <2>4. QED BY <1>6, <2>2, <2>3
<1>8. \A k \in 1..Len(replies') : replies'[k] \in answered'
  BY <1>1, <1>3, <1>5, <1>6 DEF PingInv
<1>9. \A j, k \in 1..Len(replies') : j < k => replies'[j] < replies'[k]
  <2>1. SUFFICES ASSUME NEW j \in 1..Len(replies'), NEW k \in 1..Len(replies'), j < k
                 PROVE  replies'[j] < replies'[k]
    OBVIOUS
  <2>2. j \in 1..Len(replies)
    BY <1>5, <2>1
  <2>3. CASE k \in 1..Len(replies)
    BY <1>5, <2>1, <2>2, <2>3 DEF PingInv
  <2>4. CASE k = Len(replies) + 1
    BY <1>2, <1>5, <2>2, <2>4
  <2>5. QED BY <1>6, <2>3, <2>4
<1>10. \/ i < Requests /\ i' = i + 1 /\ pc' = "send" /\ exit' = exit
       \/ i' = i /\ pc' = "done" /\ exit' = IF Len(replies') > 0 THEN "ok" ELSE "none"
  BY <1>1, <1>5 DEF P!NextRequest
<1>11. replies' \in Seq(Nat)
  BY <1>5, SeqOfNumbers
<1>12. /\ i' \in 1..Requests /\ pc' \in {"send", "done"} /\ Told'
       /\ pc' # "done" => exit' = "pending"
       /\ exit' = "ok" => replies' # <<>>
       /\ exit' = "none" => replies' = <<>>
  BY <1>2, <1>7, <1>10, <1>11, NextRequestGoesOn DEF Told
<1>13. P!TypeOK'
  BY <1>1, <1>4, <1>12 DEF PingInv, P!TypeOK
<1>14. QED BY <1>4, <1>5, <1>8, <1>9, <1>12, <1>13 DEF PingInv

LEMMA PingArrives ==
  ASSUME P!PingAssumption, PingInv, P!HostAnswers \/ P!OthersAnswer PROVE PingInv'
<1>1. PICK m \in 0..Requests : /\ P!Arrives(m)
                               /\ m # 0 => m \in answered'
                               /\ answered \subseteq answered' /\ answered' \subseteq sent
  <2>1. sent \subseteq 1..Requests /\ answered \subseteq sent /\ Requests \in Nat
    BY PingConstants DEF PingInv, P!TypeOK
  <2>2. CASE P!OthersAnswer
    BY <2>1, <2>2 DEF P!OthersAnswer
  <2>3. CASE P!HostAnswers
    BY <2>1, <2>3 DEF P!HostAnswers
  <2>4. QED BY <2>2, <2>3
<1>2. /\ Len(queue) < MaxQueue /\ queue' = Append(queue, m)
      /\ UNCHANGED <<i, pc, left, sent, replies, exit>>
  BY <1>1 DEF P!Arrives
<1>3. queue \in Seq(0..Requests) /\ \A k \in 1..Len(queue) : queue[k] # 0 => queue[k] \in answered
  BY DEF PingInv
<1>4. /\ queue' \in Seq(0..Requests) /\ Len(queue') = Len(queue) + 1 /\ Len(queue) \in Nat
      /\ queue'[Len(queue) + 1] = m /\ \A k \in 1..Len(queue) : queue'[k] = queue[k]
  BY <1>2, <1>3, AppendProperties, OfSequences
<1>5. \A k \in 1..Len(queue') : queue'[k] # 0 => queue'[k] \in answered'
  BY <1>1, <1>3, <1>4
<1>6. Len(queue') <= MaxQueue
  BY <1>2, <1>4, PingConstants
<1>7. P!TypeOK'
  BY <1>1, <1>2, <1>6 DEF PingInv, P!TypeOK
<1>8. QED BY <1>1, <1>2, <1>4, <1>5, <1>7 DEF PingInv, Told

LEMMA PingNext ==
  ASSUME P!PingAssumption, PingInv, [P!Next]_P!vars
  PROVE  PingInv'
BY PingStays, PingTimesOut, PingOther, PingReply, PingArrives DEF P!Next, P!PingStep

-----------------------------------------------------------------------------
(* Sntp                                                                    *)

\* What can be in the socket.
NtpAnswer(t, s) == [whole |-> TRUE, stratum |-> s, tx |-> (t + Delta) % Wrap, real |-> t]
NtpForged(t) == [whole |-> TRUE, stratum |-> 1, tx |-> t, real |-> Ntp!Stranger]
NtpPackets == {Ntp!NoPacket} \cup {NtpAnswer(t, s) : t \in Times, s \in 0..1}
                             \cup {NtpForged(t) : t \in 0..(Wrap - 1)}

\* A server's comes after a request only.
NtpAsked(m) == m.real # Ntp!Stranger => asked # {}

\* A remainder, of what is less than twice the divisor.
LEMMA RemainderOnce ==
  ASSUME NEW w \in Nat \ {0}, NEW x \in Nat, x < 2 * w
  PROVE  x % w = IF x < w THEN x ELSE x - w
OBVIOUS

\* A time after 1970, as NTP counts them, is the one a server means, since those
\* that are counted from 2036 on all look as if they were before 1970.
LEMMA UsableTime ==
  ASSUME Ntp!SntpAssumption, NEW m \in NtpPackets, Ntp!Usable(m)
  PROVE  /\ m.tx - Delta \in 0..(Wrap - 1)
         /\ m.real # Ntp!Stranger => m.tx - Delta = m.real
<1>1. /\ Wrap \in Nat \ {0} /\ Delta \in Nat \ {0} /\ Delta < Wrap
      /\ \A t \in Times : t \in 0..(Wrap - 1)
  BY DEF Ntp!SntpAssumption
<1>2. ASSUME NEW t \in Times, NEW s \in 0..1, m = NtpAnswer(t, s)
      PROVE  m.tx - Delta = m.real /\ m.real \in 0..(Wrap - 1)
  <2>1. m.tx = (t + Delta) % Wrap /\ m.real = t /\ m.tx >= Delta
    BY <1>2 DEF Ntp!Usable, NtpAnswer
  <2>2. t \in 0..(Wrap - 1)
    BY <1>1
  <2> DEFINE x == t + Delta
  <2>3. x \in Nat /\ x < 2 * Wrap /\ x - Delta = t
    BY <1>1, <2>2
  <2>4. m.tx = x % Wrap
    BY <2>1
  <2> HIDE DEF x
  <2>5. x % Wrap = IF x < Wrap THEN x ELSE x - Wrap
    BY <1>1, <2>3, RemainderOnce
  <2>6. x < Wrap
    BY <1>1, <2>1, <2>2, <2>3, <2>4, <2>5
  <2>7. QED BY <1>1, <2>1, <2>2, <2>3, <2>4, <2>5, <2>6
<1>3. ASSUME NEW t \in 0..(Wrap - 1), m = NtpForged(t)
      PROVE  m.tx - Delta \in 0..(Wrap - 1) /\ m.real = Ntp!Stranger
  <2>1. m.tx = t /\ m.tx >= Delta /\ m.real = Ntp!Stranger
    BY <1>3 DEF Ntp!Usable, NtpForged
  <2>2. QED BY <1>1, <2>1
<1>4. m # Ntp!NoPacket
  BY DEF Ntp!Usable, Ntp!NoPacket
<1>5. QED BY <1>2, <1>3, <1>4 DEF NtpPackets

\* A server's packet has come only after a request; the one that was taken could be
\* used; and the clock is set only in the end.
NtpInv == /\ Ntp!TypeOK /\ queue \in Seq(NtpPackets) /\ i \in Nat
          /\ \A j \in 1..Len(queue) : NtpAsked(queue[j])
          /\ pc = "set" => pkt \in NtpPackets /\ Ntp!Usable(pkt) /\ NtpAsked(pkt)
          /\ pc # "done" => exit # "ok" /\ i <= num
          /\ Ntp!TimeMeant

LEMMA NtpInit == ASSUME Ntp!SntpAssumption, Ntp!Init PROVE NtpInv
<1>1. queue = <<>> /\ num \in 0..PoolSize /\ i = 1 /\ asked = {} /\ clock = 0
      /\ pc \in {"send", "done"} /\ (num = 0 => pc = "done")
  BY Zenon DEF Ntp!Init
<1>2. exit # "ok"
  BY Zenon DEF Ntp!Init
<1>3. queue \in Seq(NtpPackets) /\ Len(queue) = 0
  BY <1>1
<1>4. PoolSize \in Nat /\ Wrap \in Nat \ {0} /\ MaxQueue \in Nat
  BY DEF Ntp!SntpAssumption
<1>5. Ntp!TypeOK
  BY <1>1, <1>3, <1>4 DEF Ntp!TypeOK
<1>6. pc # "done" => i <= num
  <2>1. CASE num = 0
    BY <1>1, <2>1
  <2>2. CASE num # 0
    BY <1>1, <1>4, <2>2
  <2>3. QED BY <2>1, <2>2
<1>7. QED BY <1>1, <1>2, <1>3, <1>5, <1>6 DEF NtpInv, Ntp!TimeMeant

\* The next address, with the same packets or fewer.
LEMMA NtpGoesOn ==
  ASSUME Ntp!SntpAssumption, NtpInv, Ntp!NextAddress, pc # "done",
         UNCHANGED <<num, asked, pkt, clock>>, queue' \in Seq(NtpPackets),
         Len(queue') <= MaxQueue,
         \A j \in 1..Len(queue') : NtpAsked(queue'[j])
  PROVE  NtpInv'
<1>1. exit # "ok" /\ clock = 0 /\ num' = num /\ clock' = clock
  BY Zenon DEF NtpInv, Ntp!TimeMeant
<1>2. exit' # "ok"
  BY <1>1, Zenon DEF Ntp!NextAddress
<1>3. \/ i < num /\ i' = i + 1 /\ pc' = "send"
      \/ i' = i /\ pc' = "done"
  BY Zenon DEF Ntp!NextAddress
<1>4. i \in 1..(PoolSize + 1) /\ num \in 0..PoolSize /\ PoolSize \in Nat
  BY DEF NtpInv, Ntp!TypeOK, Ntp!SntpAssumption
<1>5. i' \in 1..(PoolSize + 1) /\ (pc' # "done" => i' <= num)
  BY <1>3, <1>4
<1>6. pc' \in {"send", "recv", "set", "done"} /\ pc' # "set"
  BY <1>3
<1>7. Ntp!TypeOK'
  BY <1>1, <1>5, <1>6 DEF NtpInv, Ntp!TypeOK
<1>8. QED BY <1>1, <1>2, <1>5, <1>6, <1>7 DEF NtpInv, NtpAsked, Ntp!TimeMeant

LEMMA NtpTakes ==
  ASSUME queue \in Seq(NtpPackets), queue # <<>>, Len(queue) <= MaxQueue, MaxQueue \in Nat,
         \A j \in 1..Len(queue) : NtpAsked(queue[j])
  PROVE  /\ Head(queue) \in NtpPackets /\ Tail(queue) \in Seq(NtpPackets)
         /\ Len(Tail(queue)) <= MaxQueue
         /\ NtpAsked(Head(queue))
         /\ \A j \in 1..Len(Tail(queue)) : NtpAsked(Tail(queue)[j])
<1>1. /\ Head(queue) \in NtpPackets /\ Tail(queue) \in Seq(NtpPackets)
      /\ Len(Tail(queue)) = Len(queue) - 1 /\ Len(queue) \in Nat \ {0}
      /\ Head(queue) = queue[1]
      /\ \A j \in 1..Len(Tail(queue)) : Tail(queue)[j] = queue[j + 1]
  BY HeadTailProperties, EmptySeq, LenProperties
<1>2. \A j \in 1..Len(Tail(queue)) : j + 1 \in 1..Len(queue)
  BY <1>1
<1>3. \A j \in 1..Len(Tail(queue)) : NtpAsked(queue[j + 1])
  BY <1>2
<1>4. QED BY <1>1, <1>3

LEMMA NtpArrives ==
  ASSUME Ntp!SntpAssumption, NtpInv, NEW m \in NtpPackets, Ntp!Arrives(m),
         NtpAsked(m)
  PROVE  NtpInv'
<1>1. queue \in Seq(NtpPackets) /\ Len(queue) < MaxQueue /\ queue' = Append(queue, m)
      /\ MaxQueue \in Nat /\ Len(queue) \in Nat
  BY OfSequences DEF NtpInv, Ntp!Arrives, Ntp!SntpAssumption
<1>2. /\ queue' \in Seq(NtpPackets) /\ Len(queue') = Len(queue) + 1
      /\ \A j \in 1..Len(queue) : queue'[j] = queue[j]
      /\ queue'[Len(queue) + 1] = m
  BY <1>1, AppendProperties
<1>3. \A j \in 1..Len(queue') : j \in 1..Len(queue) \/ j = Len(queue) + 1
  BY <1>1, <1>2
<1>4. \A j \in 1..Len(queue') : NtpAsked(queue'[j])
  BY <1>2, <1>3 DEF NtpInv
<1>5. Len(queue') <= MaxQueue
  BY <1>1, <1>2
<1>6. UNCHANGED <<num, i, pc, asked, pkt, clock, exit>>
  BY DEF Ntp!Arrives
<1>7. Ntp!TypeOK' /\ Ntp!TimeMeant'
  BY <1>5, <1>6 DEF NtpInv, Ntp!TypeOK, Ntp!TimeMeant
<1>8. QED BY <1>2, <1>4, <1>6, <1>7 DEF NtpInv, NtpAsked

LEMMA NtpNext ==
  ASSUME Ntp!SntpAssumption, NtpInv, [Ntp!Next]_Ntp!vars
  PROVE  NtpInv'
<1> USE DEF NtpInv
<1>1. CASE Ntp!Send
  <2>1. /\ pc = "send" /\ pc' = "recv" /\ asked' = asked \cup {i}
        /\ UNCHANGED <<num, i, queue, pkt, clock, exit>>
    BY <1>1 DEF Ntp!Send
  <2>2. asked' \subseteq 1..num /\ asked' # {}
    BY <2>1 DEF Ntp!TypeOK
  <2>3. Ntp!TypeOK' /\ Ntp!TimeMeant'
    BY <2>1, <2>2 DEF Ntp!TypeOK, Ntp!TimeMeant
  <2>4. QED BY <2>1, <2>2, <2>3 DEF NtpAsked
<1>2. CASE Ntp!SendFails \/ Ntp!NoResponse
  <2>1. Ntp!NextAddress /\ pc # "done" /\ UNCHANGED <<num, queue, asked, pkt, clock>>
    BY <1>2 DEF Ntp!SendFails, Ntp!NoResponse
  <2>2. QED BY <2>1, NtpGoesOn DEF Ntp!TypeOK
<1>3. CASE Ntp!Unusable
  <2>1. /\ Ntp!NextAddress /\ pc # "done" /\ UNCHANGED <<num, asked, pkt, clock>>
        /\ queue # <<>> /\ queue' = Tail(queue)
    BY <1>3 DEF Ntp!Unusable
  <2>2. QED BY <2>1, NtpGoesOn, NtpTakes DEF Ntp!TypeOK, Ntp!SntpAssumption
<1>4. CASE Ntp!Receive
  <2>1. /\ pc = "recv" /\ queue # <<>> /\ Ntp!Usable(Head(queue)) /\ pkt' = Head(queue)
        /\ queue' = Tail(queue) /\ pc' = "set" /\ UNCHANGED <<num, i, asked, clock, exit>>
    BY <1>4 DEF Ntp!Receive
  <2>2. /\ pkt' \in NtpPackets /\ queue' \in Seq(NtpPackets) /\ Len(queue') <= MaxQueue
        /\ NtpAsked(pkt') /\ \A j \in 1..Len(queue') : NtpAsked(queue'[j])
    BY <2>1, NtpTakes DEF Ntp!TypeOK, Ntp!SntpAssumption
  <2>3. exit # "ok" /\ Ntp!TimeMeant'
    BY <2>1 DEF Ntp!TimeMeant
  <2>4. Ntp!TypeOK'
    BY <2>1, <2>2 DEF Ntp!TypeOK
  <2>5. Ntp!Usable(pkt')
    BY <2>1
  <2>6. QED BY <2>1, <2>2, <2>3, <2>4, <2>5 DEF NtpAsked
<1>5. CASE Ntp!SetClock
  <2>1. /\ pc = "set" /\ clock' = pkt.tx - Delta /\ pc' = "done" /\ exit' = "ok"
        /\ UNCHANGED <<num, i, queue, asked, pkt>>
    BY <1>5 DEF Ntp!SetClock
  <2>2. /\ clock' \in 0..(Wrap - 1)
        /\ pkt.real # Ntp!Stranger => clock' = pkt.real /\ asked # {}
    BY <2>1, UsableTime DEF NtpAsked
  <2>3. QED BY <2>1, <2>2 DEF Ntp!TypeOK, Ntp!TimeMeant, NtpAsked
<1>6. CASE Ntp!SetFails
  <2>1. Ntp!NextAddress /\ pc # "done" /\ UNCHANGED <<num, queue, asked, pkt, clock>>
    BY <1>6 DEF Ntp!SetFails
  <2>2. QED BY <2>1, NtpGoesOn DEF Ntp!TypeOK
<1>7. CASE Ntp!ServerAnswers
  <2>1. PICK t \in Times, s \in 0..1 :
           /\ asked # {}
           /\ Ntp!Arrives([whole |-> TRUE, stratum |-> s, tx |-> (t + Delta) % Wrap, real |-> t])
    BY <1>7 DEF Ntp!ServerAnswers
  <2>2. NtpAnswer(t, s) \in NtpPackets /\ NtpAsked(NtpAnswer(t, s))
    BY <2>1 DEF NtpPackets, NtpAsked
  <2>3. QED BY <2>1, <2>2, NtpArrives DEF NtpAnswer
<1>8. CASE Ntp!SomebodySends
  <2>1. Ntp!NoPacket \in NtpPackets /\ NtpAsked(Ntp!NoPacket)
    BY DEF NtpPackets, NtpAsked, Ntp!NoPacket
  <2>2. ASSUME NEW t \in 0..(Wrap - 1)
        PROVE  NtpForged(t) \in NtpPackets /\ NtpAsked(NtpForged(t))
    <3>1. NtpForged(t) \in NtpPackets
      BY DEF NtpPackets
    <3>2. NtpForged(t).real = Ntp!Stranger
      BY DEF NtpForged
    <3>3. QED BY <3>1, <3>2 DEF NtpAsked
  <2>3. \/ Ntp!Arrives(Ntp!NoPacket)
        \/ \E t \in 0..(Wrap - 1) : Ntp!Arrives(NtpForged(t))
    BY <1>8 DEF Ntp!SomebodySends, NtpForged
  <2>4. QED BY <2>1, <2>2, <2>3, NtpArrives
<1>9. CASE UNCHANGED Ntp!vars
  BY <1>9 DEF Ntp!vars, Ntp!TypeOK, Ntp!TimeMeant, NtpAsked
<1>10. QED BY <1>1, <1>2, <1>3, <1>4, <1>5, <1>6, <1>7, <1>8, <1>9 DEF Ntp!Next, Ntp!SntpStep

-----------------------------------------------------------------------------
(* Pipeline                                                                 *)

\* What run_line() may have open, at each of its steps.
Taken == IF pc \in {"prompt", "collect", "exited"} THEN {}
         ELSE {L!End(0, "r", prevRead)}
              \cup (IF pc = "parse" THEN {} ELSE {L!End(0, "r", pipe), L!End(0, "w", pipe)})
              \cup (IF pc \in {"parse", "open"} THEN {}
                    ELSE {L!End(0, "in", i), L!End(0, "out", i)})

ShellHolds == \A h \in held : h.who = 0 => h \in Taken
ProgramsHold == \A h \in held : h.who # 0 => proc[h.who] = "runs"

\* A stage that run_line() has not come to has no child, and the one it is at
\* has one only until it is waited for, or the next stage is there to read it.
Children ==
    /\ \A k \in L!Stages : proc[k] # "none" => k < i \/ (k = i /\ pc \in {"wait", "close"})
    /\ pc = "close" /\ proc[i] # "none" => L!Sep = "pipe" /\ line[i].what # "exit"
    /\ pc \in {"prompt", "exited"} => \A k \in L!Stages : proc[k] = "none"

PipelineInv == L!TypeOK /\ Len(line) \in L!Stages /\ ShellHolds /\ ProgramsHold /\ Children

LEMMA PipelineInvImplies == ASSUME L!PipelineAssumption, PipelineInv PROVE L!NothingHeld
<1>1. SUFFICES ASSUME pc \in {"prompt", "exited"}
               PROVE  held = {} /\ \A k \in L!Stages : proc[k] = "none"
  BY DEF L!NothingHeld
<1>2. \A k \in L!Stages : proc[k] = "none"
  BY <1>1 DEF PipelineInv, Children
<1>3. \A h \in held : h.who # 0
  BY <1>1 DEF PipelineInv, ShellHolds, Taken
<1>4. \A h \in held : h.who \in 0..MaxStages
  BY DEF PipelineInv, L!TypeOK
<1>5. \A h \in held : h.who \in L!Stages
  BY <1>3, <1>4 DEF L!Stages, L!PipelineAssumption
<1>6. \A h \in held : FALSE
  BY <1>2, <1>3, <1>5 DEF PipelineInv, ProgramsHold
<1>7. QED BY <1>2, <1>6

LEMMA PipelineInit == ASSUME L!PipelineAssumption, L!Init PROVE PipelineInv
<1>1. /\ Len(line) \in L!Stages /\ i = 1 /\ pc = "prompt" /\ prevRead = 0 /\ pipe = 0
      /\ held = {} /\ proc = [k \in L!Stages |-> "none"] /\ MaxStages \in Nat
  BY DEF L!Init, L!PipelineAssumption, L!Stages
<1>2. i \in 1..Len(line)
  BY <1>1 DEF L!Stages
<1>3. L!TypeOK
  BY <1>1, <1>2 DEF L!TypeOK
<1>4. ShellHolds /\ ProgramsHold /\ Children
  BY <1>1 DEF ShellHolds, ProgramsHold, Children
<1>5. QED BY <1>1, <1>3, <1>4 DEF PipelineInv

\* main() reads a line: nothing is open and no child is left.
LEMMA PipelineReads == ASSUME L!PipelineAssumption, PipelineInv, L!ReadLine PROVE PipelineInv'
<1>1. held = {} /\ \A k \in L!Stages : proc[k] = "none"
  BY PipelineInvImplies DEF L!NothingHeld, L!ReadLine
<1>2. /\ Len(line') \in L!Stages /\ i' = 1 /\ pc' = "parse" /\ prevRead' = 0 /\ pipe' = 0
      /\ UNCHANGED <<held, proc>> /\ MaxStages \in Nat
  BY DEF L!ReadLine, L!PipelineAssumption, L!Stages
<1>3. i' \in 1..Len(line')
  BY <1>2 DEF L!Stages
<1>4. L!TypeOK'
  BY <1>2, <1>3 DEF PipelineInv, L!TypeOK
<1>5. ShellHolds' /\ ProgramsHold' /\ Children'
  BY <1>1, <1>2 DEF ShellHolds, ProgramsHold, Children
<1>6. QED BY <1>2, <1>4, <1>5 DEF PipelineInv

LEMMA StageAtHand ==
  ASSUME L!PipelineAssumption, PipelineInv
  PROVE  /\ i \in L!Stages /\ i \in Nat \ {0} /\ Len(line) \in L!Stages /\ i <= Len(line)
         /\ i < Len(line) => i + 1 \in 1..Len(line)
         /\ MaxStages \in Nat
  BY DEF PipelineInv, L!TypeOK, L!Stages, L!PipelineAssumption

\* The line is given up: what was to be the input of this stage is closed.
LEMMA PipelineLeaves ==
  ASSUME L!PipelineAssumption, PipelineInv, L!SyntaxError \/ L!PipeFails PROVE PipelineInv'
<1>1. pc = "parse" /\ L!Leave
  BY DEF L!SyntaxError, L!PipeFails, L!Parses
<1>2. /\ held' = held \ {L!End(0, "r", prevRead)} /\ pc' = "collect" /\ prevRead' = 0 /\ pipe' = 0
      /\ UNCHANGED <<line, i, proc>>
  BY <1>1 DEF L!Leave, L!Shell
<1>3. L!TypeOK' /\ Len(line') \in L!Stages
  BY <1>2, StageAtHand DEF PipelineInv, L!TypeOK
<1>4. ShellHolds' /\ ProgramsHold'
  BY <1>1, <1>2 DEF PipelineInv, ShellHolds, ProgramsHold, Taken
<1>5. Children'
  BY <1>1, <1>2 DEF PipelineInv, Children
<1>6. QED BY <1>3, <1>4, <1>5 DEF PipelineInv

LEMMA PipelineOpens ==
  ASSUME L!PipelineAssumption, PipelineInv, L!MakePipe \/ L!NoPipe \/ L!OpenRedirects
  PROVE  PipelineInv'
<1>1. MaxStages \in Nat /\ i \in 0..MaxStages
  BY StageAtHand DEF L!Stages
<1>2. CASE L!MakePipe
  <2>1. /\ pc = "parse" /\ pc' = "open" /\ pipe' = i /\ UNCHANGED <<line, i, prevRead, proc>>
        /\ held' = held \cup {L!End(0, "r", i), L!End(0, "w", i)}
    BY <1>2 DEF L!MakePipe, L!Parses, L!Shell
  <2>2. L!TypeOK'
    BY <1>1, <2>1 DEF PipelineInv, L!TypeOK, L!End
  <2>3. ShellHolds' /\ ProgramsHold'
    BY <2>1 DEF PipelineInv, ShellHolds, ProgramsHold, Taken, L!End
  <2>4. Children'
    BY <2>1 DEF PipelineInv, Children
  <2>5. QED BY <2>1, <2>2, <2>3, <2>4 DEF PipelineInv, L!Stages
<1>3. CASE L!NoPipe
  <2>1. pc = "parse" /\ pc' = "open" /\ pipe' = 0 /\ UNCHANGED <<line, i, prevRead, held, proc>>
    BY <1>3 DEF L!NoPipe, L!Parses
  <2>2. L!TypeOK'
    BY <1>1, <2>1 DEF PipelineInv, L!TypeOK
  <2>3. ShellHolds' /\ ProgramsHold'
    BY <2>1 DEF PipelineInv, ShellHolds, ProgramsHold, Taken
  <2>4. Children'
    BY <2>1 DEF PipelineInv, Children
  <2>5. QED BY <2>1, <2>2, <2>3, <2>4 DEF PipelineInv, L!Stages
<1>4. CASE L!OpenRedirects
  <2>1. /\ pc = "open" /\ pc' \in {"close", "run"} /\ UNCHANGED <<line, i, prevRead, pipe, proc>>
        /\ \A h \in held' : h \in held \cup {L!End(0, "in", i), L!End(0, "out", i)}
    BY <1>4 DEF L!OpenRedirects, L!Shell
  <2>2. L!TypeOK'
    <3>1. held' \subseteq [who : 0..MaxStages, end : {"r", "w", "in", "out"}, of : 0..MaxStages]
      BY <1>1, <2>1 DEF PipelineInv, L!TypeOK, L!End
    <3>2. QED BY <2>1, <3>1 DEF PipelineInv, L!TypeOK
  <2>3. ShellHolds' /\ ProgramsHold'
    BY <2>1 DEF PipelineInv, ShellHolds, ProgramsHold, Taken, L!End
  <2>4. Children'
    BY <2>1, StageAtHand DEF PipelineInv, Children
  <2>5. QED BY <2>1, <2>2, <2>3, <2>4 DEF PipelineInv, L!Stages
<1>5. QED BY <1>2, <1>3, <1>4

LEMMA PipelineNoProcess ==
  ASSUME L!PipelineAssumption, PipelineInv,
         L!NothingToRun \/ L!Builtin \/ L!NotFound \/ L!SpawnFails
  PROVE  PipelineInv'
<1>1. pc \in {"open", "run"} /\ pc' = "close" /\ UNCHANGED <<line, i, prevRead, pipe, held, proc>>
  BY DEF L!NothingToRun, L!Builtin, L!NotFound, L!SpawnFails, L!IsProgram, L!NoProcess
<1>2. L!TypeOK'
  BY <1>1 DEF PipelineInv, L!TypeOK
<1>3. ShellHolds' /\ ProgramsHold'
  BY <1>1 DEF PipelineInv, ShellHolds, ProgramsHold, Taken
<1>4. Children'
  BY <1>1, StageAtHand DEF PipelineInv, Children
<1>5. QED BY <1>1, <1>2, <1>3, <1>4 DEF PipelineInv, L!Stages

\* The child holds what dup2() gave it, and no other child anything new.
LEMMA PipelineSpawns == ASSUME L!PipelineAssumption, PipelineInv, L!Spawn PROVE PipelineInv'
<1>1. /\ i \in L!Stages /\ i \in Nat \ {0} /\ MaxStages \in Nat /\ i \in 0..MaxStages
  BY StageAtHand DEF L!Stages
<1>2. /\ pc = "run" /\ line[i].what # "exit" /\ UNCHANGED <<line, i, prevRead, pipe>>
      /\ pc' = (IF L!Sep = "pipe" THEN "close" ELSE "wait")
      /\ proc' = [proc EXCEPT ![i] = "runs"]
      /\ \A h \in held' : \/ h \in held
                           \/ h \in {L!End(i, "in", i), L!End(i, "r", prevRead),
                                     L!End(i, "out", i), L!End(i, "w", pipe)}
  BY DEF L!Spawn, L!IsProgram, L!Stage
<1>3. L!Sep' = L!Sep
  BY <1>2 DEF L!Sep, L!Stage
<1>4. proc \in [L!Stages -> {"none", "runs", "zombie"}]
  BY DEF PipelineInv, L!TypeOK
<1>5. L!TypeOK'
  <2>1. held' \subseteq [who : 0..MaxStages, end : {"r", "w", "in", "out"}, of : 0..MaxStages]
    BY <1>1, <1>2 DEF PipelineInv, L!TypeOK, L!End
  <2>2. proc' \in [L!Stages -> {"none", "runs", "zombie"}]
    BY <1>2, <1>4
  <2>3. QED BY <1>2, <2>1, <2>2 DEF PipelineInv, L!TypeOK, L!Stages
<1>6. ShellHolds'
  <2>1. \A h \in held' : h.who = 0 => h \in held
    BY <1>1, <1>2 DEF L!End
  <2>2. QED BY <1>2, <2>1 DEF PipelineInv, ShellHolds, Taken
<1>7. ProgramsHold'
  <2>1. \A h \in held' : h \in held \/ h.who = i
    BY <1>2 DEF L!End
  <2>2. \A k \in L!Stages : proc[k] = "runs" => proc'[k] = "runs"
    BY <1>2, <1>4
  <2>3. \A h \in held : h.who # 0 => h.who \in L!Stages
    BY <1>1 DEF PipelineInv, L!TypeOK, L!Stages
  <2>4. proc'[i] = "runs"
    BY <1>1, <1>2, <1>4
  <2>5. QED BY <1>1, <2>1, <2>2, <2>3, <2>4 DEF PipelineInv, ProgramsHold
<1>8. Children'
  <2>1. \A k \in L!Stages : proc'[k] # "none" => k < i \/ k = i
    BY <1>2, <1>4 DEF PipelineInv, Children
  <2>2. QED BY <1>2, <1>3, <2>1 DEF Children
<1>9. QED BY <1>2, <1>5, <1>6, <1>7, <1>8 DEF PipelineInv, L!Stages

\* The shell waits, for this child or for any.
LEMMA PipelineWaits ==
  ASSUME L!PipelineAssumption, PipelineInv, L!WaitForIt \/ L!CollectOne PROVE PipelineInv'
<1>0. proc \in [L!Stages -> {"none", "runs", "zombie"}] /\ i \in L!Stages
  BY StageAtHand DEF PipelineInv, L!TypeOK
<1>1. PICK k \in L!Stages :
        /\ proc[k] = "zombie" /\ proc' = [proc EXCEPT ![k] = "none"]
        /\ UNCHANGED <<line, i, prevRead, pipe, held>>
        /\ \/ pc = "wait" /\ pc' = "close" /\ k = i
           \/ pc = "collect" /\ pc' = "collect"
  BY <1>0 DEF L!WaitForIt, L!CollectOne
<1>2. \A j \in L!Stages : proc'[j] # "none" => j # k /\ proc'[j] = proc[j]
  BY <1>0, <1>1
<1>3. L!TypeOK'
  BY <1>0, <1>1 DEF PipelineInv, L!TypeOK, L!Stages
<1>4. ShellHolds'
  BY <1>1 DEF PipelineInv, ShellHolds, Taken
<1>5. ProgramsHold'
  <2>1. \A j \in L!Stages : proc[j] = "runs" => proc'[j] = "runs"
    BY <1>0, <1>1
  <2>2. \A h \in held : h.who # 0 => h.who \in L!Stages
    BY DEF PipelineInv, L!TypeOK, L!Stages
  <2>3. QED BY <1>1, <2>1, <2>2 DEF PipelineInv, ProgramsHold
<1>6. Children'
  BY <1>0, <1>1, <1>2 DEF PipelineInv, Children
<1>7. QED BY <1>1, <1>3, <1>4, <1>5, <1>6 DEF PipelineInv, L!Stages

\* What run_command() and the turn of the loop close leaves the read end of the
\* pipe to the next stage, and nothing when there is none.
LEMMA PipelineCloses == ASSUME L!PipelineAssumption, PipelineInv, L!CloseEnds PROVE PipelineInv'
<1>0. /\ i \in Nat \ {0} /\ Len(line) \in L!Stages /\ i <= Len(line) /\ i \in L!Stages
      /\ i < Len(line) => i + 1 \in 1..Len(line)
      /\ MaxStages \in Nat /\ pipe \in 0..MaxStages
  BY StageAtHand DEF PipelineInv, L!TypeOK
<1>1. pc = "close" /\ UNCHANGED <<line, proc>>
  BY DEF L!CloseEnds
<1>2. ProgramsHold'
  <2>1. held' \subseteq held
    BY DEF L!CloseEnds
  <2>2. QED BY <1>1, <2>1 DEF PipelineInv, ProgramsHold
<1>3. \A h \in held \ L!DoneWith : h.who = 0 => h = L!End(0, "r", pipe)
  BY <1>1 DEF PipelineInv, ShellHolds, Taken, L!DoneWith, L!Shell
<1>4. \A k \in L!Stages : proc[k] # "none" => k < i \/ k = i
  BY DEF PipelineInv, Children
<1>5. CASE L!Sep = "pipe" /\ ~L!Exits
  <2>1. /\ held' = held \ L!DoneWith /\ i' = i + 1 /\ pc' = "parse" /\ prevRead' = pipe /\ pipe' = 0
    BY <1>5 DEF L!CloseEnds
  <2>2. i' \in 1..Len(line')
    <3>1. i # Len(line)
      BY <1>5 DEF L!Sep
    <3>2. i < Len(line)
      BY <1>0, <3>1 DEF L!Stages
    <3>3. QED BY <1>0, <1>1, <2>1, <3>2
  <2>3. L!TypeOK'
    BY <1>0, <1>1, <2>1, <2>2 DEF PipelineInv, L!TypeOK
  <2>4. ShellHolds'
    BY <1>3, <2>1 DEF ShellHolds, Taken
  <2>5. Children'
    <3>1. \A k \in L!Stages : proc'[k] # "none" => k < i'
      BY <1>0, <1>1, <1>4, <2>1 DEF L!Stages
    <3>2. QED BY <2>1, <3>1 DEF Children
  <2>6. QED BY <1>0, <1>1, <1>2, <2>3, <2>4, <2>5 DEF PipelineInv, L!Stages
<1>6. CASE ~(L!Sep = "pipe" /\ ~L!Exits)
  <2>1. /\ held' = (held \ L!DoneWith) \ {L!End(0, "r", pipe)} /\ i' = i /\ pc' = "collect"
        /\ prevRead' = 0 /\ pipe' = 0
    BY <1>6 DEF L!CloseEnds, L!Shell
  <2>2. proc[i] = "none"
    <3>1. proc[i] # "none" => L!Sep = "pipe" /\ line[i].what # "exit"
      BY <1>1 DEF PipelineInv, Children
    <3>2. L!Exits => line[i].what = "exit"
      BY DEF L!Exits, L!Stage
    <3>3. QED BY <1>6, <3>1, <3>2
  <2>3. L!TypeOK'
    BY <1>0, <1>1, <2>1 DEF PipelineInv, L!TypeOK
  <2>4. ShellHolds'
    BY <1>3, <2>1 DEF ShellHolds
  <2>5. Children'
    BY <1>1, <1>4, <2>1, <2>2 DEF Children
  <2>6. QED BY <1>0, <1>1, <1>2, <2>3, <2>4, <2>5 DEF PipelineInv, L!Stages
<1>7. QED BY <1>5, <1>6

\* main()'s loop again: every child has been waited for, if there was any.
LEMMA PipelineReturns == ASSUME L!PipelineAssumption, PipelineInv, L!BackToPrompt PROVE PipelineInv'
<1>0. i \in Nat \ {0}
  BY StageAtHand
<1>1. /\ pc = "collect" /\ pc' \in {"prompt", "exited"}
      /\ UNCHANGED <<line, i, prevRead, pipe, held, proc>>
      /\ L!Piped => \A k \in L!Stages : proc[k] = "none"
  BY DEF L!BackToPrompt
<1>2. \A k \in L!Stages : proc[k] = "none"
  <2>1. CASE L!Piped
    BY <1>1, <2>1
  <2>2. CASE ~L!Piped
    <3>1. i = 1
      BY <1>0, <2>2 DEF L!Piped
    <3>2. \A k \in L!Stages : proc[k] # "none" => k < 1
      BY <1>1, <3>1 DEF PipelineInv, Children
    <3>3. QED BY <3>2 DEF L!Stages
  <2>3. QED BY <2>1, <2>2
<1>3. L!TypeOK'
  BY <1>1 DEF PipelineInv, L!TypeOK
<1>4. ShellHolds' /\ ProgramsHold'
  BY <1>1 DEF PipelineInv, ShellHolds, ProgramsHold, Taken
<1>5. Children'
  BY <1>1, <1>2 DEF Children
<1>6. QED BY <1>1, <1>3, <1>4, <1>5 DEF PipelineInv, L!Stages

\* Programs end, and let go of what they hold.
LEMMA PipelineEnds ==
  ASSUME L!PipelineAssumption, PipelineInv, L!CtrlC \/ \E k \in L!Stages : L!Finishes(k)
  PROVE  PipelineInv'
<1>0. proc \in [L!Stages -> {"none", "runs", "zombie"}]
  BY DEF PipelineInv, L!TypeOK
<1> DEFINE Fewer == /\ UNCHANGED <<line, i, pc, prevRead, pipe>> /\ held' \subseteq held
                    /\ proc' \in [L!Stages -> {"none", "runs", "zombie"}]
                    /\ \A k \in L!Stages : proc[k] = "none" <=> proc'[k] = "none"
                    /\ \A h \in held' : h.who # 0 => proc'[h.who] = "runs"
<1>1. Fewer
  <2>0. \A h \in held : h.who # 0 => h.who \in L!Stages /\ proc[h.who] = "runs"
    BY DEF PipelineInv, L!TypeOK, L!Stages, ProgramsHold
  <2>1. CASE L!CtrlC
    BY <1>0, <2>1 DEF L!CtrlC, L!Shell
  <2>2. ASSUME NEW k \in L!Stages, L!Finishes(k) PROVE Fewer
    <3>1. /\ proc[k] = "runs" /\ proc' = [proc EXCEPT ![k] = "zombie"]
          /\ held' = {h \in held : h.who # k} /\ UNCHANGED <<line, i, pc, prevRead, pipe>>
      BY <2>2 DEF L!Finishes, L!Ends
    <3>2. \A j \in L!Stages : j # k => proc'[j] = proc[j]
      BY <1>0, <3>1
    <3>3. proc'[k] = "zombie" /\ proc' \in [L!Stages -> {"none", "runs", "zombie"}]
      BY <1>0, <3>1
    <3>4. QED BY <2>0, <3>1, <3>2, <3>3
  <2>3. QED BY <2>1, <2>2
<1>2. L!TypeOK'
  BY <1>1 DEF PipelineInv, L!TypeOK, L!Stages
<1>3. ShellHolds' /\ ProgramsHold'
  BY <1>1 DEF PipelineInv, ShellHolds, ProgramsHold, Taken
<1>4. L!Sep' = L!Sep
  BY <1>1 DEF L!Sep, L!Stage
<1>5. Children'
  BY <1>1, <1>4, StageAtHand DEF PipelineInv, Children
<1>6. QED BY <1>1, <1>2, <1>3, <1>5 DEF PipelineInv, L!Stages

LEMMA PipelineStutters == ASSUME PipelineInv, UNCHANGED L!vars PROVE PipelineInv'
<1>1. L!TypeOK' /\ L!Sep' = L!Sep
  BY DEF PipelineInv, L!TypeOK, L!vars, L!Stages, L!Sep, L!Stage
<1>2. ShellHolds' /\ ProgramsHold' /\ Children'
  BY <1>1 DEF PipelineInv, ShellHolds, ProgramsHold, Taken, Children, L!vars
<1>3. QED BY <1>1, <1>2 DEF PipelineInv, L!vars, L!Stages

LEMMA PipelineNext ==
  ASSUME L!PipelineAssumption, PipelineInv, [L!Next]_L!vars
  PROVE  PipelineInv'
BY PipelineReads, PipelineLeaves, PipelineOpens, PipelineNoProcess, PipelineSpawns,
   PipelineWaits, PipelineCloses, PipelineReturns, PipelineEnds, PipelineStutters
   DEF L!Next, L!ShellStep

-----------------------------------------------------------------------------
(* Files                                                                    *)

\* What cp and mv have done so far: nothing, or the first bytes of the source are
\* at the destination, which is another inode.
CopyInv ==
    /\ pc \in {job.cmd, "open", "truncate", "send", "unlink", "done"}
    /\ pc # "done" => exit = "pending"
    /\ pc \in {job.cmd, "open", "truncate"} =>
          ino = job.ino /\ data = job.data /\ kind = job.kind /\ copied = 0
    /\ pc = "truncate" => /\ fd = ino[F!Src] /\ fd # 0 /\ fd # ino[F!Dst] /\ kind[fd] = "file"
                          /\ left = Len(data[fd])
    /\ pc \in {"send", "unlink"} =>
          /\ ino \in [DOMAIN job.ino -> {0} \cup DOMAIN job.kind] /\ DOMAIN data = DOMAIN job.kind
          /\ fd = ino[F!Src] /\ fd = job.ino[F!Src] /\ fd # 0
          /\ ino[F!Dst] # 0 /\ ino[F!Dst] # fd
          /\ data[fd] = job.data[fd]
          /\ copied \in Nat /\ left \in Nat /\ copied + left = Len(data[fd])
          /\ data[ino[F!Dst]] = SubSeq(data[fd], 1, copied)
    /\ pc = "unlink" => job.cmd = "mv" /\ left = 0
    /\ F!SourceKept

LEMMA CopyJob ==
  ASSUME F!FilesAssumption, job \in NameJobs, job.cmd \in {"cp", "mv"}
  PROVE  /\ F!Src \in DOMAIN job.ino /\ F!Dst \in DOMAIN job.ino
         /\ job.ino \in [DOMAIN job.ino -> {0} \cup DOMAIN job.kind]
         /\ job.data \in [DOMAIN job.kind -> Seq(FileBytes)] /\ DOMAIN job.data = DOMAIN job.kind
         /\ 0 \notin DOMAIN job.kind
         /\ \E n \in DOMAIN job.kind : job.kind[n] = "free"
<1>1. /\ job.args \in Seq(DOMAIN job.ino) /\ Len(job.args) = 2
      /\ job.ino \in [DOMAIN job.ino -> {0} \cup DOMAIN job.kind]
      /\ job.data \in [DOMAIN job.kind -> Seq(FileBytes)]
      /\ DOMAIN job.kind \subseteq Nat \ {0}
      /\ \E n \in DOMAIN job.kind : job.kind[n] = "free"
  BY DEF F!FilesAssumption
<1>2. F!Src \in DOMAIN job.ino /\ F!Dst \in DOMAIN job.ino
  BY <1>1, OfSequences DEF F!Src, F!Dst
<1>3. QED BY <1>1, <1>2

\* A new inode is one that was free, if any is.
LEMMA NewIsFree ==
  ASSUME \E n \in DOMAIN kind : kind[n] = "free"
  PROVE  F!New \in DOMAIN kind /\ kind[F!New] = "free"
  BY DEF F!New

LEMMA RenameKeeps ==
  ASSUME F!FilesAssumption, job \in NameJobs, job.cmd \in {"cp", "mv"}, CopyInv, F!Rename
  PROVE  CopyInv'
<1>1. pc = "mv" /\ ino[F!Src] # 0 /\ job' = job
  BY DEF F!Rename, F!Ends
<1>2. /\ F!Src' = F!Src /\ F!Dst' = F!Dst
      /\ job.cmd = "mv" /\ ino = job.ino /\ data = job.data /\ kind = job.kind /\ copied = 0
      /\ exit = "pending"
  BY <1>1 DEF CopyInv, F!Src, F!Dst
<1>3. CASE job.cross
  <2>1. pc' = "open" /\ UNCHANGED <<ino, kind, data, copied, exit>>
    BY <1>3 DEF F!Rename, F!Same
  <2>2. F!SourceKept'
    BY <1>1, <1>2, <2>1 DEF CopyInv, F!SourceKept, F!At, F!Was
  <2>3. QED BY <1>1, <1>2, <2>1, <2>2 DEF CopyInv
<1>4. CASE ~job.cross
  <2>1. /\ pc' = "done" /\ UNCHANGED data
        /\ ino' = IF ino[F!Src] = ino[F!Dst] THEN ino
                  ELSE [ino EXCEPT ![F!Dst] = ino[F!Src], ![F!Src] = 0]
    BY <1>4 DEF F!Rename, F!Ends
  <2>2. F!Src \in DOMAIN ino /\ F!Dst \in DOMAIN ino
    BY <1>2, CopyJob
  <2>3. ino'[F!Dst] = ino[F!Src]
    <3>1. CASE ino[F!Src] = ino[F!Dst]
      BY <2>1, <3>1
    <3>2. CASE ino[F!Src] # ino[F!Dst]
      BY <2>1, <2>2, <3>2
    <3>3. QED BY <3>1, <3>2
  <2>4. F!SourceKept'
    BY <1>1, <1>2, <2>1, <2>3 DEF F!SourceKept, F!At, F!Was
  <2>5. QED BY <1>1, <2>1, <2>4 DEF CopyInv
<1>5. QED BY <1>3, <1>4

\* Steps that change no file: only whether the program goes on.
LEMMA CopyLooks ==
  ASSUME CopyInv, job' = job, UNCHANGED <<ino, data>>, exit' # "ok"
  PROVE  F!SourceKept'
  BY DEF CopyInv, F!SourceKept, F!At, F!Was, F!Src, F!Dst

LEMMA OpenKeeps ==
  ASSUME job.cmd \in {"cp", "mv"}, CopyInv, F!Copy \/ F!OpenSource \/ F!Fails
  PROVE  CopyInv'
<1>1. job' = job /\ UNCHANGED <<ino, data, kind, copied>> /\ exit' # "ok"
  BY DEF CopyInv, F!Copy, F!OpenSource, F!Fails, F!Ends, F!Same
<1>2. F!SourceKept'
  BY <1>1, CopyLooks
<1>3. \/ pc' = "done"
      \/ pc = "cp" /\ pc' = "open" /\ exit' = exit
      \/ /\ pc = "open" /\ pc' = "truncate" /\ exit' = exit
         /\ fd' = ino[F!Src] /\ fd' # 0 /\ fd' # ino[F!Dst] /\ kind[fd'] = "file"
         /\ left' = Len(data[fd'])
  BY DEF F!Copy, F!OpenSource, F!Fails, F!Ends, F!NotToBeCopied
<1>4. QED BY <1>1, <1>2, <1>3 DEF CopyInv, F!Src, F!Dst

LEMMA TruncateKeeps ==
  ASSUME F!FilesAssumption, job \in NameJobs, job.cmd \in {"cp", "mv"}, CopyInv, F!Truncate
  PROVE  CopyInv'
<1>1. /\ pc = "truncate" /\ pc' = "send" /\ UNCHANGED <<job, fd, copied, left, exit>>
      /\ F!Src' = F!Src /\ F!Dst' = F!Dst
  BY DEF F!Truncate, F!Src, F!Dst
<1>2. /\ ino = job.ino /\ data = job.data /\ kind = job.kind /\ copied = 0 /\ exit = "pending"
      /\ fd = ino[F!Src] /\ fd # 0 /\ fd # ino[F!Dst] /\ kind[fd] = "file"
      /\ left = Len(data[fd])
  BY <1>1 DEF CopyInv
<1>3. /\ F!Src \in DOMAIN ino /\ F!Dst \in DOMAIN ino /\ F!Src # F!Dst
      /\ ino \in [DOMAIN ino -> {0} \cup DOMAIN kind] /\ 0 \notin DOMAIN kind
      /\ data \in [DOMAIN kind -> Seq(FileBytes)] /\ \E n \in DOMAIN kind : kind[n] = "free"
  BY <1>2, CopyJob
<1>4. /\ ino' \in [DOMAIN ino -> {0} \cup DOMAIN kind] /\ DOMAIN data' = DOMAIN kind
      /\ ino'[F!Src] = fd /\ ino'[F!Dst] # 0 /\ ino'[F!Dst] # fd
      /\ data'[ino'[F!Dst]] = <<>> /\ data'[fd] = data[fd]
  <2>1. CASE ino[F!Dst] = 0
    <3>1. /\ ino' = [ino EXCEPT ![F!Dst] = F!New]
          /\ data' = [data EXCEPT ![F!New] = <<>>]
      BY <2>1 DEF F!Truncate, F!Create
    <3>2. F!New \in DOMAIN kind /\ F!New # fd /\ F!New # 0
      BY <1>2, <1>3, NewIsFree
    <3>3. QED BY <1>2, <1>3, <3>1, <3>2
  <2>2. CASE ino[F!Dst] # 0
    <3>1. ino' = ino /\ data' = [data EXCEPT ![ino[F!Dst]] = <<>>]
      BY <2>2 DEF F!Truncate
    <3>2. ino[F!Dst] \in DOMAIN kind
      BY <1>3, <2>2
    <3>3. QED BY <1>2, <1>3, <2>2, <3>1, <3>2
  <2>3. QED BY <2>1, <2>2
<1>5. Len(data[fd]) \in Nat /\ SubSeq(data[fd], 1, 0) = <<>>
  <2>1. fd \in DOMAIN kind
    BY <1>2, <1>3
  <2>2. data[fd] \in Seq(FileBytes)
    BY <1>3, <2>1
  <2>3. QED BY <2>2, OfSequences, SubSeqEmpty
<1>6. F!SourceKept'
  BY <1>1, <1>2, <1>4 DEF F!SourceKept, F!At, F!Was
<1>7. QED BY <1>1, <1>2, <1>4, <1>5, <1>6 DEF CopyInv

LEMMA SendKeeps ==
  ASSUME F!FilesAssumption, job \in NameJobs, job.cmd \in {"cp", "mv"}, CopyInv, F!SendSome
  PROVE  CopyInv'
<1> DEFINE from == data[fd]
           to == ino[F!Dst]
<1>1. PICK n \in 1..left :
         /\ copied + n <= Len(from)
         /\ data' = [data EXCEPT ![to] = @ \o SubSeq(from, copied + 1, copied + n)]
         /\ copied' = copied + n /\ left' = left - n
  BY DEF F!SendSome
<1>2. /\ pc = "send" /\ UNCHANGED <<job, ino, kind, pc, fd, exit>>
      /\ F!Src' = F!Src /\ F!Dst' = F!Dst
  BY DEF F!SendSome, F!Src, F!Dst
<1>3. /\ ino \in [DOMAIN job.ino -> {0} \cup DOMAIN job.kind] /\ DOMAIN data = DOMAIN job.kind
      /\ fd = ino[F!Src] /\ fd = job.ino[F!Src] /\ fd # 0 /\ to # 0 /\ to # fd
      /\ from = job.data[fd]
      /\ copied \in Nat /\ left \in Nat /\ copied + left = Len(from)
      /\ data[to] = SubSeq(from, 1, copied) /\ exit = "pending"
  BY <1>2 DEF CopyInv
<1>4. fd \in DOMAIN data /\ to \in DOMAIN data /\ from \in Seq(FileBytes)
  <2>1. F!Src \in DOMAIN job.ino /\ F!Dst \in DOMAIN job.ino
    BY CopyJob
  <2>2. fd \in DOMAIN data /\ to \in DOMAIN data
    BY <1>3, <2>1
  <2>3. from \in Seq(FileBytes)
    BY <1>3, <2>2, CopyJob
  <2>4. QED BY <2>2, <2>3
<1>5. /\ DOMAIN data' = DOMAIN data /\ data'[fd] = from
      /\ data'[to] = SubSeq(from, 1, copied) \o SubSeq(from, copied + 1, copied + n)
  BY <1>1, <1>3, <1>4
<1> HIDE DEF from, to
<1> DEFINE all == Len(from)
<1>6. n \in 1..left /\ copied + n <= all /\ copied' = copied + n /\ left' = left - n
  BY <1>1
<1>7. copied \in Nat /\ left \in Nat /\ copied + left = all /\ all \in Nat
  <2>1. all \in Nat
    BY <1>4, OfSequences
  <2>2. QED BY <1>3, <2>1
<1>8. copied' \in Nat /\ left' \in Nat /\ copied' + left' = all
  <2> HIDE DEF all
  <2>1. QED BY <1>6, <1>7
<1>9. data'[to] = SubSeq(from, 1, copied')
  <2>1. 1 \in 1..(all + 1) /\ copied \in (1 - 1)..all /\ copied + n \in copied..all
    <3> HIDE DEF all
    <3>1. QED BY <1>6, <1>7
  <2>2. SubSeq(from, 1, copied) \o SubSeq(from, copied + 1, copied + n)
          = SubSeq(from, 1, copied + n)
    BY <1>4, <2>1, ConcatAdjacentSubSeq
  <2>3. QED BY <1>1, <1>5, <2>2
<1>10. F!SourceKept'
  BY <1>2, <1>3, <1>5 DEF F!SourceKept, F!At, F!Was
<1>11. QED BY <1>2, <1>3, <1>5, <1>9, <1>8, <1>10 DEF CopyInv, from, to

\* What is sent in full is all that the source has.
LEMMA AllIsSent ==
  ASSUME F!FilesAssumption, job \in NameJobs, job.cmd \in {"cp", "mv"}, CopyInv,
         pc \in {"send", "unlink"}, left = 0
  PROVE  /\ F!Src \in DOMAIN ino /\ F!Dst \in DOMAIN ino /\ ino[F!Src] # ino[F!Dst]
         /\ ino[F!Dst] # 0 /\ data[ino[F!Dst]] = F!Was(F!Src)
<1>1. /\ ino \in [DOMAIN job.ino -> {0} \cup DOMAIN job.kind] /\ DOMAIN data = DOMAIN job.kind
      /\ fd = ino[F!Src] /\ fd = job.ino[F!Src] /\ fd # 0
      /\ ino[F!Dst] # 0 /\ ino[F!Dst] # fd
      /\ data[fd] = job.data[fd] /\ copied \in Nat /\ copied + left = Len(data[fd])
      /\ data[ino[F!Dst]] = SubSeq(data[fd], 1, copied)
  BY DEF CopyInv
<1>2. F!Src \in DOMAIN ino /\ F!Dst \in DOMAIN ino
  BY <1>1, CopyJob
<1>3. copied = Len(data[fd])
  BY <1>1
<1>4. data[fd] \in Seq(FileBytes)
  BY <1>1, <1>2, CopyJob
<1>5. data[ino[F!Dst]] = job.data[fd]
  BY <1>1, <1>3, <1>4, SubSeqFull
<1>6. QED BY <1>1, <1>2, <1>5 DEF F!Was

LEMMA SentKeeps ==
  ASSUME F!FilesAssumption, job \in NameJobs, job.cmd \in {"cp", "mv"}, CopyInv, F!Sent
  PROVE  CopyInv'
<1>1. /\ pc = "send" /\ left = 0 /\ UNCHANGED <<job, ino, kind, data, fd, copied, left>>
      /\ \/ job.cmd = "cp" /\ pc' = "done" /\ exit' = "ok"
         \/ job.cmd = "mv" /\ pc' = "unlink" /\ exit' = exit
  BY DEF F!Sent, F!Ends, F!Same
<1>2. ino[F!Dst] # 0 /\ data[ino[F!Dst]] = F!Was(F!Src)
  BY <1>1, AllIsSent
<1>3. F!SourceKept'
  BY <1>1, <1>2 DEF CopyInv, F!SourceKept, F!At, F!Was, F!Src, F!Dst
<1>4. QED BY <1>1, <1>3 DEF CopyInv, F!Src, F!Dst

LEMMA UnlinkKeeps ==
  ASSUME F!FilesAssumption, job \in NameJobs, job.cmd \in {"cp", "mv"}, CopyInv, F!Unlink
  PROVE  CopyInv'
<1>1. /\ pc = "unlink" /\ pc' = "done" /\ exit' = "ok" /\ UNCHANGED <<job, data>>
      /\ ino' = [ino EXCEPT ![F!Src] = 0]
  BY DEF F!Unlink, F!Ends
<1>2. job.cmd = "mv" /\ left = 0
  BY <1>1 DEF CopyInv
<1>3. /\ F!Src \in DOMAIN ino /\ F!Dst \in DOMAIN ino /\ ino[F!Src] # ino[F!Dst]
      /\ ino[F!Dst] # 0 /\ data[ino[F!Dst]] = F!Was(F!Src)
  BY <1>1, <1>2, AllIsSent
<1>4. ino'[F!Dst] = ino[F!Dst]
  BY <1>1, <1>3
<1>5. F!SourceKept'
  BY <1>1, <1>2, <1>3, <1>4 DEF F!SourceKept, F!At, F!Was, F!Src, F!Dst
<1>6. QED BY <1>1, <1>5 DEF CopyInv

LEMMA CopyStays == ASSUME CopyInv, UNCHANGED F!vars PROVE CopyInv'
  BY DEF CopyInv, F!vars, F!SourceKept, F!At, F!Was, F!Src, F!Dst

LEMMA CopyNext ==
  ASSUME F!FilesAssumption, job \in NameJobs, job.cmd \in {"cp", "mv"}, CopyInv,
         [F!Next]_F!vars, ~meddled'
  PROVE  CopyInv'
<1>1. pc \in {"cp", "mv", "open", "truncate", "send", "unlink", "done"}
  BY DEF CopyInv
<1>2. \/ F!Rename \/ F!Copy \/ F!OpenSource \/ F!Truncate \/ F!SendSome \/ F!Sent \/ F!Unlink
      \/ F!Fails \/ UNCHANGED F!vars
  BY <1>1 DEF F!Next, F!TouchLooks, F!TouchCreates, F!Makes, F!Links, F!Removes, F!EachFile,
     F!CatOpen, F!CatSome, F!CatFails, F!Meddle
<1>3. QED
  BY <1>2, RenameKeeps, OpenKeeps, TruncateKeeps, SendKeeps, SentKeeps, UnlinkKeeps, CopyStays

\* touch: there was no file to empty, or nothing was done to it.
TouchInv ==
    /\ pc \in {"touch", "creat", "done"}
    /\ pc = "touch" => ino = job.ino
    /\ job.ino[F!Src] # 0 => pc # "creat" /\ ino = job.ino /\ data = job.data

LEMMA TouchNext ==
  ASSUME job.cmd = "touch", TouchInv, [F!Next]_F!vars, ~meddled'
  PROVE  TouchInv'
<1>1. pc \in {"touch", "creat", "done"}
  BY DEF TouchInv
<1>2. F!TouchLooks \/ F!TouchCreates \/ F!Fails \/ UNCHANGED F!vars
  BY <1>1 DEF F!Next, F!Rename, F!Copy, F!OpenSource, F!Truncate, F!SendSome, F!Sent, F!Unlink,
     F!Makes, F!Links, F!Removes, F!EachFile, F!CatOpen, F!CatSome, F!CatFails, F!Meddle
<1>3. job' = job /\ F!Src' = F!Src
  BY <1>2 DEF F!TouchLooks, F!TouchCreates, F!Fails, F!Ends, F!vars, F!Src
<1>4. \/ /\ pc = "touch" /\ UNCHANGED <<ino, data>>
         /\ pc' = "done" \/ (ino[F!Src] = 0 /\ pc' = "creat")
      \/ pc = "creat" /\ pc' = "done"
      \/ pc' = "done" /\ UNCHANGED <<ino, data>>
      \/ UNCHANGED <<pc, ino, data>>
  BY <1>2 DEF F!TouchLooks, F!TouchCreates, F!Fails, F!Ends, F!vars, F!Same
<1>5. QED BY <1>3, <1>4 DEF TouchInv

\* chmod and chown: all that have been gone past were changed, or it will be said.
EachInv ==
    /\ pc \in {job.cmd, "done"}
    /\ ino = job.ino /\ DOMAIN data = DOMAIN job.kind
    /\ nth \in Nat \ {0}
    /\ pc # "done" => exit \in {"pending", "failed"}
    /\ exit = "pending" =>
          \A j \in DOMAIN job.args : j < nth =>
             ino[job.args[j]] # 0 /\ data[ino[job.args[j]]] = <<job.cmd>>
    /\ F!EachChanged

LEMMA EachNext ==
  ASSUME F!FilesAssumption, job \in NameJobs, job.cmd \in {"chmod", "chown"}, EachInv,
         [F!Next]_F!vars, ~meddled'
  PROVE  EachInv'
<1>1. pc \in {"chmod", "chown", "done"}
  BY DEF EachInv
<1>2. F!EachFile \/ UNCHANGED F!vars
  BY <1>1 DEF F!Next, F!Rename, F!Copy, F!OpenSource, F!Truncate, F!SendSome, F!Sent, F!Unlink,
     F!Makes, F!Links, F!Removes, F!TouchLooks, F!TouchCreates, F!Fails, F!CatOpen, F!CatSome,
     F!CatFails, F!Meddle
<1>3. job.args \in Seq(DOMAIN job.ino) /\ job.ino \in [DOMAIN job.ino -> {0} \cup DOMAIN job.kind]
  BY DEF F!FilesAssumption
<1>4. Len(job.args) \in Nat /\ DOMAIN job.args = 1..Len(job.args)
      /\ \A j \in DOMAIN job.args : job.args[j] \in DOMAIN job.ino
  BY <1>3, OfSequences
<1>5. CASE F!EachFile /\ nth > Len(job.args)
  <2>1. UNCHANGED <<job, ino, data, nth>> /\ pc' = "done"
        /\ exit' = IF exit = "pending" THEN "ok" ELSE exit
    BY <1>5 DEF F!EachFile, F!Ends, F!Same, F!NoExit
  <2>2. \A j \in DOMAIN job.args : j < nth
    BY <1>4, <1>5 DEF EachInv
  <2>3. F!EachChanged'
    BY <2>1, <2>2 DEF EachInv, F!EachChanged, F!At
  <2>4. QED BY <2>1, <2>3 DEF EachInv
<1>6. CASE F!EachFile /\ ~(nth > Len(job.args))
  <2>1. /\ UNCHANGED <<job, ino, pc>> /\ nth' = nth + 1 /\ pc = job.cmd
        /\ \/ exit' = "failed" /\ data' = data
           \/ /\ exit' = exit /\ ino[job.args[nth]] # 0
              /\ data' = [data EXCEPT ![ino[job.args[nth]]] = <<pc>>]
    BY <1>6 DEF F!EachFile, F!Same, EachInv
  <2>2. nth \in DOMAIN job.args /\ nth \in Nat \ {0} /\ nth + 1 \in Nat \ {0}
    BY <1>4, <1>6 DEF EachInv
  <2>3. CASE exit' = "failed" /\ data' = data
    BY <2>1, <2>2, <2>3 DEF EachInv, F!EachChanged
  <2>4. CASE /\ exit' = exit /\ ino[job.args[nth]] # 0
             /\ data' = [data EXCEPT ![ino[job.args[nth]]] = <<pc>>]
    <3>1. ino[job.args[nth]] \in DOMAIN data
      BY <1>3, <1>4, <2>2, <2>4 DEF EachInv
    <3>2. /\ DOMAIN data' = DOMAIN data /\ data'[ino[job.args[nth]]] = <<job.cmd>>
          /\ \A n \in DOMAIN data : data'[n] = data[n] \/ data'[n] = <<job.cmd>>
      BY <2>1, <2>4, <3>1
    <3>3. ASSUME exit = "pending", NEW j \in DOMAIN job.args, j < nth + 1
          PROVE  ino[job.args[j]] # 0 /\ data'[ino[job.args[j]]] = <<job.cmd>>
      <4>1. CASE j = nth
        BY <2>4, <3>2, <4>1
      <4>2. CASE j # nth
        <5>1. j < nth
          BY <1>4, <2>2, <3>3, <4>2
        <5>2. ino[job.args[j]] # 0 /\ data[ino[job.args[j]]] = <<job.cmd>>
          BY <3>3, <5>1 DEF EachInv
        <5>3. ino[job.args[j]] \in DOMAIN data
          BY <1>3, <1>4, <5>2 DEF EachInv
        <5>4. QED BY <3>2, <5>2, <5>3
      <4>3. QED BY <4>1, <4>2
    <3>4. exit \in {"pending", "failed"} /\ pc # "done"
      <4>1. pc # "done"
        BY <1>6 DEF F!EachFile
      <4>2. QED BY <4>1 DEF EachInv
    <3>5. F!EachChanged'
      BY <2>4, <3>4 DEF F!EachChanged
    <3>6. UNCHANGED <<job, ino, pc, exit>> /\ nth' = nth + 1 /\ DOMAIN data' = DOMAIN data
      BY <2>1, <2>4, <3>2
    <3>7. nth' \in Nat \ {0}
      BY <2>2, <3>6
    <3>8. exit' = "pending" =>
            \A j \in DOMAIN job'.args : j < nth' =>
               ino'[job'.args[j]] # 0 /\ data'[ino'[job'.args[j]]] = <<job'.cmd>>
      BY <3>3, <3>6, Zenon
    <3>9. QED BY <3>4, <3>5, <3>6, <3>7, <3>8 DEF EachInv
  <2>5. QED BY <2>1, <2>3, <2>4
<1>7. CASE UNCHANGED F!vars
  BY <1>7 DEF EachInv, F!vars, F!EachChanged, F!At
<1>8. QED BY <1>2, <1>5, <1>6, <1>7

LEMMA Regrouped == \A s, t, u \in Seq(FileBytes) : (s \o t) \o u = s \o (t \o u)
  BY ConcatAssociative

\* The recursive function of Output().
Course ==
  CHOOSE f : f = [j \in 0..Len(job.args) |-> IF j = 0 THEN job.data[job.stdout]
                                             ELSE f[j - 1] \o F!Said(j)]

\* What cat has put out is the first files, and some of the one at hand.
CatInv ==
    /\ pc \in {"cat", "done"}
    /\ ino = job.ino /\ data \in [DOMAIN job.kind -> Seq(FileBytes)]
    /\ \A n \in DOMAIN job.kind : n # job.stdout => data[n] = job.data[n]
    /\ nth \in 1..(Len(job.args) + 1)
    /\ fd # 0 => /\ nth <= Len(job.args) /\ fd = ino[job.args[nth]] /\ fd # job.stdout
                 /\ copied \in 0..Len(data[fd])
    /\ IF pc = "done" THEN exit # "pending" ELSE exit \in {"pending", "failed"}
    /\ exit = "pending" =>
          data[job.stdout] = IF fd = 0 THEN Course[nth - 1]
                             ELSE Course[nth - 1] \o SubSeq(data[fd], 1, copied)
    /\ exit = "ok" => data[job.stdout] = Course[Len(job.args)]

LEMMA CatJob ==
  ASSUME F!FilesAssumption, job \in NameJobs
  PROVE  /\ Len(job.args) \in Nat /\ DOMAIN job.args = 1..Len(job.args)
         /\ \A j \in 1..Len(job.args) : job.args[j] \in DOMAIN job.ino
         /\ job.ino \in [DOMAIN job.ino -> {0} \cup DOMAIN job.kind]
         /\ job.data \in [DOMAIN job.kind -> Seq(FileBytes)]
         /\ 0 \notin DOMAIN job.kind /\ job.stdout \in DOMAIN job.kind
<1>1. /\ job.args \in Seq(DOMAIN job.ino) /\ DOMAIN job.kind \subseteq Nat \ {0}
      /\ job.ino \in [DOMAIN job.ino -> {0} \cup DOMAIN job.kind]
      /\ job.data \in [DOMAIN job.kind -> Seq(FileBytes)]
      /\ job.stdout \in DOMAIN job.kind
  BY DEF F!FilesAssumption
<1>2. QED BY <1>1, OfSequences

\* A file has bytes to say, unless it is missing or the output.
LEMMA SaidIs ==
  ASSUME F!FilesAssumption, job \in NameJobs, NEW j \in 1..Len(job.args)
  PROVE  F!Said(j) \in Seq(FileBytes)
<1>1. job.ino[job.args[j]] \in {0} \cup DOMAIN job.kind
  BY CatJob
<1>2. CASE job.ino[job.args[j]] \in {0, job.stdout}
  <2>1. F!Said(j) = <<>>
    BY <1>2 DEF F!Said
  <2>2. QED BY <2>1, EmptySeq
<1>3. CASE job.ino[job.args[j]] \notin {0, job.stdout}
  <2>1. F!Said(j) = job.data[job.ino[job.args[j]]]
    BY <1>3 DEF F!Said, F!Was
  <2>2. QED BY <1>1, <1>3, <2>1, CatJob
<1>4. QED BY <1>2, <1>3

\* The recursion is well-founded: each file comes after the ones before it.
LEMMA OutputIs ==
  ASSUME F!FilesAssumption, job \in NameJobs
  PROVE  /\ \A n \in 0..Len(job.args) : Course[n] \in Seq(FileBytes)
         /\ Course[0] = job.data[job.stdout]
         /\ \A n \in 1..Len(job.args) : Course[n] = Course[n - 1] \o F!Said(n)
         /\ F!Output(Len(job.args)) = Course[Len(job.args)]
<1> DEFINE N == Len(job.args)
           V == Seq(FileBytes)
           base == job.data[job.stdout]
           step == [x \in V \X (1..N) |-> x[1] \o F!Said(x[2])]
           f == Course
<1>1. N \in Nat /\ base \in V
  BY CatJob
<1>2. step \in [V \X (1..N) -> V]
  <2>1. ASSUME NEW x \in V \X (1..N) PROVE x[1] \o F!Said(x[2]) \in V
    <3>1. x[1] \in Seq(FileBytes) /\ x[2] \in 1..Len(job.args)
      OBVIOUS
    <3>2. F!Said(x[2]) \in Seq(FileBytes)
      BY <3>1, SaidIs
    <3>3. QED BY <3>1, <3>2, ConcatProperties
  <2>2. QED BY <2>1
<1>3. \A x \in V, n \in 1..N : step[<<x, n>>] = x \o F!Said(n)
  OBVIOUS
<1> HIDE DEF V, step, base
<1>4. PICK g \in [0..N -> V] : Solves(g, N, base, step)
  <2> HIDE DEF N, f
  <2>1. QED BY <1>1, <1>2, Recursion
<1>5. g = [n \in 0..N |-> IF n = 0 THEN base ELSE g[n - 1] \o F!Said(n)]
  <2>1. \A n \in 0..N : n # 0 => n - 1 \in 0..N /\ n \in 1..N
    BY <1>1
  <2>2. \A n \in 0..N : n # 0 => step[<<g[n - 1], n>>] = g[n - 1] \o F!Said(n)
    BY <1>3, <1>4, <2>1
  <2>3. QED BY <1>4, <2>2 DEF Solves
<1>6. f = [n \in 0..N |-> IF n = 0 THEN base ELSE f[n - 1] \o F!Said(n)]
  BY <1>5, Zenon DEF Course, base
<1>7. \A n : F!Output(n) = f[n]
  BY Zenon DEF F!Output, Course
<1> HIDE DEF f
<1>8. f[0] = base /\ \A n \in 1..N : f[n] = f[n - 1] \o F!Said(n)
  <2>1. 0 \in 0..N /\ \A n \in 1..N : n \in 0..N /\ n # 0
    BY <1>1
  <2> HIDE DEF N
  <2>2. QED BY <1>6, <2>1, Zenon
<1>9. \A n \in 0..N : f[n] \in V
  <2> DEFINE T == {n \in 0..N : f[n] \in V}
  <2>1. 0 \in T
    BY <1>1, <1>8
  <2>2. ASSUME NEW n \in 1..N, n - 1 \in T PROVE n \in T
    <3>1. f[n - 1] \in Seq(FileBytes) /\ F!Said(n) \in Seq(FileBytes)
      BY <2>2, SaidIs DEF V
    <3>2. f[n - 1] \o F!Said(n) \in V
      BY <3>1, ConcatProperties DEF V
    <3>3. f[n] = f[n - 1] \o F!Said(n)
      BY <1>8, Zenon
    <3>4. n \in 0..N
      BY <1>1
    <3>5. QED BY <3>2, <3>3, <3>4, Zenon
  <2> HIDE DEF T, N
  <2>3. \A n \in 0..N : n \in T
    BY <1>1, <2>1, <2>2, UpTo
  <2>4. QED BY <2>3 DEF T
<1>10. QED BY <1>7, <1>8, <1>9 DEF V, base, f

\* Whatever comes first is the beginning of it all.
LEMMA Beginning ==
  ASSUME NEW s \in Seq(FileBytes), NEW u \in Seq(FileBytes)
  PROVE  F!IsPrefix(s, s \o u)
<1> DEFINE t == s \o u
           n == Len(s)
<1>1. /\ t \in Seq(FileBytes) /\ n \in Nat /\ Len(t) \in Nat /\ n <= Len(t)
      /\ \A j \in 1..n : t[j] = s[j]
  BY ConcatProperties, LenProperties
<1>2. \A j \in 1..n : s[j] \in FileBytes /\ t[j] \in FileBytes
  BY <1>1, OfSequences
<1> HIDE DEF t, n
<1>3. SubSeq(t, 1, n) \in Seq(FileBytes) /\ Len(SubSeq(t, 1, n)) = n
      /\ \A j \in 1..n : SubSeq(t, 1, n)[j] = s[j]
  <2>1. 1 \in Nat /\ n \in Nat /\ \A j \in 1..n : t[j] \in FileBytes
    BY <1>1, <1>2
  <2>2. /\ SubSeq(t, 1, n) \in Seq(FileBytes)
        /\ Len(SubSeq(t, 1, n)) = IF 1 <= n THEN n - 1 + 1 ELSE 0
        /\ \A j \in 1..(n - 1 + 1) : SubSeq(t, 1, n)[j] = t[1 + j - 1]
    BY <2>1, SubSeqProperties
  <2>3. \A j \in 1..n : 1 + j - 1 = j /\ j \in 1..(n - 1 + 1)
    BY <1>1
  <2>4. QED BY <1>1, <2>2, <2>3
<1>4. SubSeq(t, 1, n) = s
  BY <1>3, SeqEqual DEF n
<1>5. SubSeq(s, 1, n) = s
  BY SubSeqFull DEF n
<1>6. QED BY <1>1, <1>4, <1>5 DEF F!IsPrefix, t, n

LEMMA OutputGoesOn ==
  ASSUME F!FilesAssumption, job \in NameJobs, NEW n \in 0..Len(job.args)
  PROVE  \E u \in Seq(FileBytes) : Course[Len(job.args)] = Course[n] \o u
<1> DEFINE N == Len(job.args)
           T == {m \in 0..(N - n) : \E u \in Seq(FileBytes) : Course[n + m] = Course[n] \o u}
<1>1. N \in Nat /\ N - n \in Nat /\ n + 0 = n /\ n + (N - n) = N
  BY CatJob
<1>2. Course[n] \in Seq(FileBytes)
  BY OutputIs
<1>3. 0 \in T
  <2>1. Course[n] = Course[n] \o <<>> /\ <<>> \in Seq(FileBytes)
    BY <1>2, ConcatEmptySeq, EmptySeq
  <2>2. \E u \in Seq(FileBytes) : Course[n] = Course[n] \o u
    BY <2>1, Zenon
  <2>3. \E u \in Seq(FileBytes) : Course[n + 0] = Course[n] \o u
    BY <1>1, <2>2, Zenon
  <2>4. 0 \in 0..(N - n)
    BY <1>1
  <2>5. QED BY <2>3, <2>4, Zenon
<1>4. ASSUME NEW m \in 1..(N - n), m - 1 \in T PROVE m \in T
  <2>1. PICK u \in Seq(FileBytes) : Course[n + (m - 1)] = Course[n] \o u
    BY <1>4
  <2>2. n + m \in 1..Len(job.args) /\ n + (m - 1) = (n + m) - 1
    BY <1>1
  <2>3. Course[n + m] = Course[n + (m - 1)] \o F!Said(n + m)
    BY <2>2, OutputIs
  <2>4. F!Said(n + m) \in Seq(FileBytes)
    BY <2>2, SaidIs
  <2>5. Course[n + m] = Course[n] \o (u \o F!Said(n + m))
    <3>1. (Course[n] \o u) \o F!Said(n + m) = Course[n] \o (u \o F!Said(n + m))
      BY <1>2, <2>1, <2>4, Regrouped, Zenon
    <3>2. QED BY <2>1, <2>3, <3>1, Zenon
  <2>6. u \o F!Said(n + m) \in Seq(FileBytes)
    BY <2>4, ConcatProperties
  <2>7. m \in 0..(N - n)
    OBVIOUS
  <2>8. QED BY <2>5, <2>6, <2>7, Zenon
<1> HIDE DEF T
<1>5. \A m \in 0..(N - n) : m \in T
  BY <1>1, <1>3, <1>4, UpTo
<1>6. N - n \in T
  BY <1>1, <1>5
<1>7. QED BY <1>1, <1>6 DEF T

\* The file at hand is one that cat has to say all of.
LEMMA AtHand ==
  ASSUME F!FilesAssumption, job \in NameJobs, CatInv, fd # 0
  PROVE  /\ nth \in 1..Len(job.args) /\ fd \in DOMAIN job.kind /\ fd # job.stdout
         /\ data[fd] \in Seq(FileBytes) /\ Len(data[fd]) \in Nat /\ copied \in 0..Len(data[fd])
         /\ Course[nth - 1] \in Seq(FileBytes)
         /\ Course[nth] = Course[nth - 1] \o data[fd]
<1>1. /\ nth \in 1..(Len(job.args) + 1) /\ nth <= Len(job.args)
      /\ ino = job.ino /\ data \in [DOMAIN job.kind -> Seq(FileBytes)]
      /\ fd = ino[job.args[nth]] /\ fd # job.stdout /\ copied \in 0..Len(data[fd])
      /\ \A n \in DOMAIN job.kind : n # job.stdout => data[n] = job.data[n]
  BY DEF CatInv
<1>2. nth \in 1..Len(job.args) /\ nth - 1 \in 0..Len(job.args)
  BY <1>1, CatJob
<1>3. fd \in DOMAIN job.kind
  BY <1>1, <1>2, CatJob
<1>4. F!Said(nth) = data[fd]
  BY <1>1, <1>3 DEF F!Said, F!Was
<1>5. data[fd] \in Seq(FileBytes)
  BY <1>1, <1>3
<1>6. Len(data[fd]) \in Nat
  BY <1>5, OfSequences
<1>7. Course[nth] = Course[nth - 1] \o F!Said(nth)
  BY <1>2, OutputIs
<1>8. Course[nth - 1] \in Seq(FileBytes)
  BY <1>2, OutputIs
<1>9. QED BY <1>1, <1>2, <1>3, <1>4, <1>5, <1>6, <1>7, <1>8

LEMMA CatOpens ==
  ASSUME F!FilesAssumption, job \in NameJobs, CatInv, F!CatOpen
  PROVE  CatInv'
<1>1. pc = "cat" /\ fd = 0 /\ UNCHANGED <<job, ino, data>>
  BY DEF F!CatOpen, F!Ends, F!Same
<1>2. Course' = Course
  BY <1>1 DEF Course, F!Said, F!Was
<1>3. nth \in 1..(Len(job.args) + 1) /\ Len(job.args) \in Nat
  BY CatJob DEF CatInv
<1>4. CASE nth > Len(job.args)
  <2>1. pc' = "done" /\ UNCHANGED <<nth, fd, copied>>
        /\ exit' = IF exit = "pending" THEN "ok" ELSE exit
    BY <1>1, <1>4 DEF F!CatOpen, F!Ends, F!NoExit
  <2>2. nth - 1 = Len(job.args)
    BY <1>3, <1>4
  <2>3. exit \in {"pending", "failed"}
    BY <1>1 DEF CatInv
  <2>4. exit = "pending" => data[job.stdout] = Course[Len(job.args)]
    <3>1. exit = "pending" => data[job.stdout] = Course[nth - 1]
      BY <1>1 DEF CatInv
    <3>2. QED BY <2>2, <3>1, Zenon
  <2>5. QED BY <1>1, <1>2, <2>1, <2>3, <2>4, Zenon DEF CatInv
<1>5. CASE ~(nth > Len(job.args))
  <2> DEFINE n == ino[job.args[nth]]
  <2>1. /\ UNCHANGED pc /\ copied' = 0
        /\ \/ nth' = nth + 1 /\ fd' = fd /\ exit' = "failed"
           \/ n # 0 /\ n # job.stdout /\ nth' = nth /\ fd' = n /\ exit' = exit
    BY <1>5 DEF F!CatOpen
  <2>2. nth <= Len(job.args) /\ nth + 1 \in 1..(Len(job.args) + 1)
    BY <1>3, <1>5
  <2>3. CASE nth' = nth + 1 /\ fd' = fd /\ exit' = "failed"
    <3>1. nth' \in 1..(Len(job'.args) + 1)
      BY <1>1, <2>2, <2>3
    <3>2. pc' # "done" /\ fd' = 0 /\ exit' = "failed"
      BY <1>1, <2>1, <2>3
    <3>3. QED BY <1>1, <2>1, <3>1, <3>2 DEF CatInv
  <2>4. CASE n # 0 /\ n # job.stdout /\ nth' = nth /\ fd' = n /\ exit' = exit
    <3>1. n \in DOMAIN job.kind
      <4>1. nth \in 1..Len(job.args)
        BY <1>3, <2>2
      <4>2. QED BY <2>4, <4>1, CatJob DEF CatInv
    <3>2. data[n] \in Seq(FileBytes)
      BY <3>1 DEF CatInv
    <3>3. Len(data[n]) \in Nat /\ SubSeq(data[n], 1, 0) = <<>>
      BY <3>2, OfSequences, SubSeqEmpty
    <3>4. nth - 1 \in 0..Len(job.args)
      BY <1>3, <2>2
    <3>5. Course[nth - 1] \o <<>> = Course[nth - 1]
      BY <3>4, OutputIs, ConcatEmptySeq
    <3>6. exit' = "pending" =>
            data'[job'.stdout] = Course'[nth' - 1] \o SubSeq(data'[fd'], 1, copied')
      <4>1. exit = "pending" => data[job.stdout] = Course[nth - 1] \o SubSeq(data[n], 1, 0)
        BY <1>1, <3>3, <3>5 DEF CatInv
      <4>2. QED BY <1>1, <1>2, <2>1, <2>4, <4>1, Zenon
    <3>7. 0 \in 0..Len(data[n])
      BY <3>3
    <3>8. /\ fd' # 0 /\ nth' <= Len(job'.args) /\ fd' = ino'[job'.args[nth']] /\ fd' # job'.stdout
          /\ copied' \in 0..Len(data'[fd'])
      BY <1>1, <2>1, <2>2, <2>4, <3>7
    <3>9. exit' \in {"pending", "failed"} /\ pc' = "cat" /\ nth' = nth
      BY <1>1, <2>1, <2>4 DEF CatInv
    <3>10. QED BY <1>1, <3>6, <3>8, <3>9, Zenon DEF CatInv
  <2>5. QED BY <2>1, <2>3, <2>4
<1>6. QED BY <1>4, <1>5

LEMMA CatFileEnds ==
  ASSUME F!FilesAssumption, job \in NameJobs, CatInv, pc = "cat", fd # 0,
         UNCHANGED <<job, ino, data, pc>>, nth' = nth + 1, fd' = 0,
         \/ exit' = "failed"
         \/ exit' = exit /\ copied = Len(data[fd])
  PROVE  CatInv'
<1>1. Course' = Course
  BY DEF Course, F!Said, F!Was
<1>2. nth' \in 1..(Len(job'.args) + 1) /\ nth' - 1 = nth
  BY AtHand, CatJob
<1>3. exit' \in {"pending", "failed"} /\ pc' # "done"
  BY DEF CatInv
<1>4. exit' = "pending" => data'[job'.stdout] = Course'[nth' - 1]
  <2>1. SUFFICES ASSUME exit' = "pending" PROVE data[job.stdout] = Course[nth]
    BY <1>1, <1>2, Zenon
  <2>2. exit = "pending" /\ copied = Len(data[fd])
    BY <2>1
  <2>3. data[job.stdout] = Course[nth - 1] \o SubSeq(data[fd], 1, copied)
    BY <2>2 DEF CatInv
  <2>4. SubSeq(data[fd], 1, Len(data[fd])) = data[fd]
    BY AtHand, SubSeqFull
  <2>5. QED BY <2>2, <2>3, <2>4, AtHand, Zenon
<1>5. QED BY <1>2, <1>3, <1>4 DEF CatInv

LEMMA CatSays ==
  ASSUME F!FilesAssumption, job \in NameJobs, CatInv, F!CatSome, copied # Len(data[fd])
  PROVE  CatInv'
<1> DEFINE from == data[fd]
           to == job.stdout
           all == Len(from)
<1>1. pc = "cat" /\ fd # 0 /\ UNCHANGED <<job, ino, pc, nth, fd, exit>>
  BY DEF F!CatSome
<1>2. PICK n \in 1..(all - copied) :
         /\ data' = [data EXCEPT ![to] = @ \o SubSeq(from, copied + 1, copied + n)]
         /\ copied' = copied + n
  BY DEF F!CatSome
<1>3. /\ fd \in DOMAIN job.kind /\ fd # to /\ to \in DOMAIN job.kind
      /\ from \in Seq(FileBytes) /\ all \in Nat /\ copied \in 0..all
      /\ Course[nth - 1] \in Seq(FileBytes)
  BY <1>1, AtHand, CatJob
<1>4. data \in [DOMAIN job.kind -> Seq(FileBytes)]
  BY DEF CatInv
<1> DEFINE more == SubSeq(from, copied + 1, copied + n)
           some == SubSeq(from, 1, copied)
<1>5. \A m \in DOMAIN job.kind : data'[m] = IF m = to THEN data[to] \o more ELSE data[m]
  <2> HIDE DEF more, to
  <2>1. data' = [data EXCEPT ![to] = @ \o more]
    BY <1>2 DEF more
  <2>2. QED BY <1>4, <2>1
<1> DEFINE c == copied + n
<1>6. c \in 0..all /\ 1 \in 1..(all + 1) /\ copied \in (1 - 1)..all /\ c \in copied..all
  <2>1. n \in 1..(all - copied) /\ copied \in 0..all /\ all \in Nat
    BY <1>2, <1>3
  <2> HIDE DEF all
  <2>2. QED BY <2>1
<1>7. more \in Seq(FileBytes) /\ some \in Seq(FileBytes)
  <2>1. /\ copied + 1 \in Nat /\ copied + n \in Nat /\ copied \in Nat /\ 1 \in Nat
        /\ \A j \in (copied + 1)..(copied + n) : j \in 1..all
        /\ \A j \in 1..copied : j \in 1..all
    <3>1. n \in 1..(all - copied) /\ copied \in 0..all /\ all \in Nat
      BY <1>2, <1>3
    <3> HIDE DEF all
    <3>2. QED BY <3>1
  <2>2. \A j \in 1..all : from[j] \in FileBytes
    BY <1>3, OfSequences
  <2> HIDE DEF from, all
  <2>3. SubSeq(from, copied + 1, copied + n) \in Seq(FileBytes)
    BY <2>1, <2>2, SubSeqProperties
  <2>4. SubSeq(from, 1, copied) \in Seq(FileBytes)
    BY <2>1, <2>2, SubSeqProperties
  <2>5. QED BY <2>3, <2>4
<1>8. some \o more = SubSeq(from, 1, c)
  <2> HIDE DEF from
  <2>1. QED BY <1>3, <1>6, ConcatAdjacentSubSeq
<1>9. data[to] \in Seq(FileBytes) /\ data[to] \o more \in Seq(FileBytes)
  <2>1. data[to] \in Seq(FileBytes)
    BY <1>3, <1>4
  <2> HIDE DEF more, to
  <2>2. QED BY <1>7, <2>1, ConcatProperties
<1> HIDE DEF from, to, all, more, some, c
<1>10. data' \in [DOMAIN job.kind -> Seq(FileBytes)]
  <2>1. data' = [m \in DOMAIN job.kind |-> data'[m]]
    BY <1>2, <1>4
  <2>2. \A m \in DOMAIN job.kind : data'[m] \in Seq(FileBytes)
    BY <1>4, <1>5, <1>9, Zenon
  <2>3. QED BY <2>1, <2>2, Zenon
<1>11. data'[fd] = data[fd]
  BY <1>3, <1>5
<1>12. Course' = Course
  BY <1>1 DEF Course, F!Said, F!Was
<1>13. exit' = "pending" =>
         data'[job'.stdout] = Course'[nth' - 1] \o SubSeq(data'[fd'], 1, copied')
  <2>1. SUFFICES ASSUME exit = "pending" PROVE data'[to] = Course[nth - 1] \o SubSeq(from, 1, c)
    BY <1>1, <1>2, <1>11, <1>12, Zenon DEF to, from, c
  <2>2. data[to] = Course[nth - 1] \o some
    BY <1>1, <2>1 DEF CatInv, to, some, from
  <2>3. (Course[nth - 1] \o some) \o more = Course[nth - 1] \o (some \o more)
    BY <1>3, <1>7, Regrouped, Zenon
  <2>4. data'[to] = data[to] \o more
    BY <1>3, <1>5
  <2>5. QED BY <1>8, <2>2, <2>3, <2>4, Zenon
<1>14. copied' \in 0..Len(data'[fd'])
  BY <1>1, <1>2, <1>6, <1>11 DEF all, from, c
<1>15. \A m \in DOMAIN job.kind : m # job.stdout => data'[m] = data[m]
  BY <1>5 DEF to
<1>16. QED BY <1>1, <1>10, <1>13, <1>14, <1>15 DEF CatInv

LEMMA CatStays == ASSUME CatInv, UNCHANGED F!vars PROVE CatInv'
<1>1. UNCHANGED <<job, ino, kind, data, pc, nth, fd, copied, exit>>
  BY DEF F!vars
<1>2. Course' = Course
  BY <1>1 DEF Course, F!Said, F!Was
<1>3. QED BY <1>1, <1>2, Zenon DEF CatInv

LEMMA CatNext ==
  ASSUME F!FilesAssumption, job \in NameJobs, job.cmd = "cat", CatInv,
         [F!Next]_F!vars, ~meddled'
  PROVE  CatInv'
<1>1. pc \in {"cat", "done"}
  BY DEF CatInv
<1>2. F!CatOpen \/ F!CatSome \/ F!CatFails \/ UNCHANGED F!vars
  BY <1>1 DEF F!Next, F!Rename, F!Copy, F!OpenSource, F!Truncate, F!SendSome, F!Sent, F!Unlink,
     F!Makes, F!Links, F!Removes, F!TouchLooks, F!TouchCreates, F!Fails, F!EachFile, F!Meddle
<1>3. CASE F!CatSome /\ copied = Len(data[fd])
  <2>1. /\ pc = "cat" /\ fd # 0 /\ UNCHANGED <<job, ino, data, pc, exit>>
        /\ nth' = nth + 1 /\ fd' = 0
    BY <1>3 DEF F!CatSome, F!Same
  <2>2. QED BY <1>3, <2>1, CatFileEnds
<1>4. CASE F!CatFails
  <2>1. /\ pc = "cat" /\ fd # 0 /\ UNCHANGED <<job, ino, data, pc>> /\ exit' = "failed"
        /\ nth' = nth + 1 /\ fd' = 0
    BY <1>4 DEF F!CatFails, F!Same
  <2>2. QED BY <2>1, CatFileEnds
<1>5. QED BY <1>2, <1>3, <1>4, CatOpens, CatSays, CatStays

\* What cat has put out is the beginning of what it should.
LEMMA CatInvImplies ==
  ASSUME F!FilesAssumption, job \in NameJobs, CatInv
  PROVE  F!AllSaid
<1> DEFINE N == Len(job.args)
           put == data[job.stdout]
<1>1. exit = "pending" => F!IsPrefix(put, Course[N])
  <2>1. SUFFICES ASSUME exit = "pending" PROVE F!IsPrefix(put, Course[N])
    OBVIOUS
  <2>2. put \in Seq(FileBytes)
    BY CatJob DEF CatInv
  <2>3. \E u \in Seq(FileBytes) : Course[N] = put \o u
    <3>1. CASE fd = 0
      <4>1. put = Course[nth - 1]
        BY <2>1, <3>1 DEF CatInv
      <4>2. nth - 1 \in 0..Len(job.args)
        BY CatJob DEF CatInv
      <4>3. QED BY <4>1, <4>2, OutputGoesOn, Zenon
    <3>2. CASE fd # 0
      <4> DEFINE from == data[fd]
                 some == SubSeq(from, 1, copied)
                 more == SubSeq(from, copied + 1, Len(from))
      <4>1. put = Course[nth - 1] \o some
        BY <2>1, <3>2 DEF CatInv
      <4>2. /\ from \in Seq(FileBytes) /\ Len(from) \in Nat /\ copied \in 0..Len(from)
            /\ Course[nth - 1] \in Seq(FileBytes) /\ Course[nth] = Course[nth - 1] \o from
            /\ nth \in 0..Len(job.args)
        <5>1. nth \in 1..Len(job.args)
          BY <3>2, AtHand
        <5>2. nth \in 0..Len(job.args)
          BY <5>1
        <5>3. QED BY <3>2, <5>2, AtHand
      <4>3. \A j \in 1..Len(from) : from[j] \in FileBytes
        BY <4>2, OfSequences
      <4> HIDE DEF from
      <4>4. some \in Seq(FileBytes) /\ more \in Seq(FileBytes)
        <5>1. /\ 1 \in Nat /\ copied \in Nat /\ copied + 1 \in Nat /\ Len(from) \in Nat
              /\ \A j \in 1..copied : j \in 1..Len(from)
              /\ \A j \in (copied + 1)..Len(from) : j \in 1..Len(from)
          BY <4>2
        <5>2. QED BY <4>3, <5>1, SubSeqProperties
      <4>5. some \o more = from
        <5>1. 1 \in 1..(Len(from) + 1) /\ copied \in (1 - 1)..Len(from)
              /\ Len(from) \in copied..Len(from)
          BY <4>2
        <5>2. some \o more = SubSeq(from, 1, Len(from))
          BY <4>2, <5>1, ConcatAdjacentSubSeq
        <5>3. QED BY <4>2, <5>2, SubSeqFull
      <4> HIDE DEF some, more, N, put
      <4>6. Course[nth] = put \o more
        <5>1. (Course[nth - 1] \o some) \o more = Course[nth - 1] \o (some \o more)
          BY <4>2, <4>4, Regrouped, Zenon
        <5>2. QED BY <4>1, <4>2, <4>5, <5>1, Zenon
      <4>7. PICK v \in Seq(FileBytes) : Course[N] = Course[nth] \o v
        BY <4>2, OutputGoesOn DEF N
      <4>8. (put \o more) \o v = put \o (more \o v)
        BY <2>2, <4>4, <4>7, Regrouped, Zenon
      <4>9. more \o v \in Seq(FileBytes)
        BY <4>4, <4>7, ConcatProperties
      <4>10. QED BY <4>6, <4>7, <4>8, <4>9, Zenon
    <3>3. QED BY <3>1, <3>2
  <2>4. QED BY <2>2, <2>3, Beginning
<1>2. exit = "ok" => put = Course[N]
  BY DEF CatInv
<1>3. ASSUME NEW j \in DOMAIN job.args, job.ino[job.args[j]] # job.stdout
      PROVE  F!At(job.args[j]) = F!Was(job.args[j])
  <2>1. job.ino[job.args[j]] \in {0} \cup DOMAIN job.kind
    BY CatJob
  <2>2. QED BY <1>3, <2>1 DEF F!At, F!Was, CatInv
<1>4. F!Output(N) = Course[N]
  BY OutputIs
<1>5. QED BY <1>1, <1>2, <1>3, <1>4 DEF F!AllSaid, F!NoExit

-----------------------------------------------------------------------------

\* What each command keeps to while nobody else is at the files.
FilesInv ==
    /\ job \in NameJobs
    /\ ~meddled =>
          /\ job.cmd \in {"cp", "mv"} => CopyInv
          /\ job.cmd = "cat" => CatInv
          /\ job.cmd = "touch" => TouchInv
          /\ job.cmd \in {"chmod", "chown"} => EachInv

LEMMA FilesInit == ASSUME F!FilesAssumption, F!Init PROVE FilesInv
<1>1. /\ job \in NameJobs /\ ino = job.ino /\ kind = job.kind /\ data = job.data
      /\ pc = job.cmd /\ nth = 1 /\ fd = 0 /\ copied = 0 /\ left = 0 /\ exit = "pending"
  BY DEF F!Init, F!NoExit
<1>2. ASSUME job.cmd \in {"cp", "mv"} PROVE CopyInv
  BY <1>1, <1>2 DEF CopyInv, F!SourceKept, F!At, F!Was
<1>3. ASSUME job.cmd = "cat" PROVE CatInv
  <2>1. 1 \in 1..(Len(job.args) + 1) /\ 1 - 1 = 0
    BY <1>1, CatJob
  <2>2. data[job.stdout] = Course[1 - 1]
    BY <1>1, <2>1, OutputIs
  <2>3. data \in [DOMAIN job.kind -> Seq(FileBytes)]
    BY <1>1, CatJob
  <2>4. QED BY <1>1, <1>3, <2>1, <2>2, <2>3 DEF CatInv
<1>4. ASSUME job.cmd = "touch" PROVE TouchInv
  BY <1>1, <1>4 DEF TouchInv
<1>5. ASSUME job.cmd \in {"chmod", "chown"} PROVE EachInv
  <2>1. DOMAIN data = DOMAIN job.kind
    BY <1>1, CatJob
  <2>2. nth \in Nat \ {0} /\ \A j \in DOMAIN job.args : ~ (j < nth)
    BY <1>1, CatJob
  <2>3. QED BY <1>1, <1>5, <2>1, <2>2 DEF EachInv, F!EachChanged
<1>6. QED BY <1>1, <1>2, <1>3, <1>4, <1>5 DEF FilesInv

LEMMA FilesNext ==
  ASSUME F!FilesAssumption, FilesInv, [F!Next]_F!vars
  PROVE  FilesInv'
<1>1. job' = job /\ (meddled => meddled')
  BY DEF F!Next, F!Rename, F!Copy, F!OpenSource, F!Truncate, F!SendSome, F!Sent, F!Unlink,
     F!Makes, F!Links, F!Removes, F!TouchLooks, F!TouchCreates, F!Fails, F!EachFile, F!CatOpen,
     F!CatSome, F!CatFails, F!Meddle, F!Ends, F!vars
<1>2. QED BY <1>1, CopyNext, CatNext, TouchNext, EachNext DEF FilesInv

LEMMA FilesInvImplies == ASSUME F!FilesAssumption, FilesInv PROVE F!NothingLost
<1>1. CopyInv => F!SourceKept
  BY DEF CopyInv
<1>2. job \in NameJobs /\ CatInv => F!AllSaid
  BY CatInvImplies
<1>3. TouchInv => F!NothingEmptied
  BY DEF TouchInv, F!NothingEmptied, F!At, F!Was
<1>4. EachInv => F!EachChanged
  BY DEF EachInv
<1>5. QED BY <1>1, <1>2, <1>3, <1>4 DEF FilesInv, F!NothingLost

-----------------------------------------------------------------------------
(* Dungeon                                                                 *)

Pcs == {"idle", "spawn", "cmd", "pid", "keptby", "read cmd", "read keptby", "read pid",
        "alive", "stopping"}
Acts == [pc : Pcs, pid : Pids \cup {0}]

DungeonTypes == /\ file \in [cmd : {"", "cmd"}, pid : Pids \cup {0}, keptby : {"", "init", "nobody"}]
                /\ by \in [Pids -> {"", "init", "keeper"}]
                /\ act \in [K!Actors -> Acts]

Keepers == K!Actors \ {"init"}
Busy(a) == act[a].pc # "idle"

\* keeper -r has a process it asks about.
HasTarget == act["restart"].pc \in {"alive", "stopping"} => act["restart"].pid \in Pids

NotInits(p) == p \in Pids => by[p] # "init"

\* While init is at it, nobody else is.
Apart == Busy("init") => \A a \in Keepers : ~Busy(a)

\* What somebody with keeper has started, or is about to signal.
InHand == \A a \in Keepers : Busy(a) => NotInits(act[a].pid)

\* Who has to leave a pid in the file that is not init's: the files say that nobody
\* keeps it, or are about to, or keeper -r has read that they do. From its new
\* process on until it has written all three, init is the one exception.
SaysNobody == \/ file.keptby = "nobody" /\ act["init"].pc \in {"idle", "spawn"}
              \/ \E a \in Keepers : act[a].pc \in {"keptby", "read pid"}
Unclaimed == SaysNobody => NotInits(file.pid)

\* All of this holds while nothing has spoilt it.
Known == Apart /\ InHand /\ Unclaimed /\ "init" \notin stopped

DungeonInv == DungeonTypes /\ HasTarget /\ (spoilt = {} => Known)

-----------------------------------------------------------------------------
(* Where a step of one of the three takes them                              *)

\* K!To() moves one of them, and only that one. If init and a keeper do not begin in
\* the middle of each other's steps, they stay apart.
LEMMA ToMoves ==
  ASSUME DungeonTypes, NEW a \in K!Actors, NEW to \in Pcs, NEW p \in Pids \cup {0}, K!To(a, to, p)
  PROVE  /\ act' \in [K!Actors -> Acts]
         /\ act'[a].pc = to /\ act'[a].pid = p
         /\ \A b \in K!Actors \ {a} : act'[b] = act[b]
BY DEF DungeonTypes, K!To, Acts

LEMMA StayApart ==
  ASSUME NEW a \in K!Actors, Apart, \A b \in K!Actors \ {a} : act'[b] = act[b],
         Busy(a) \/ \A b \in K!Actors : Busy(b) => "init" \notin {a, b}
  PROVE  Apart'
<1>1. CASE a = "init"
  <2>1. \A b \in Keepers : act'[b] = act[b]
    BY <1>1 DEF Keepers
  <2>2. \A b \in Keepers : ~Busy(b)
    BY <1>1 DEF Apart, Keepers
  <2>3. QED BY <2>1, <2>2 DEF Apart, Busy
<1>2. CASE a # "init"
  <2>1. a \in Keepers /\ "init" \in K!Actors \ {a}
    BY <1>2 DEF Keepers, K!Actors
  <2>2. ~Busy("init")
    BY <2>1 DEF Apart
  <2>3. ~Busy("init")'
    BY <2>1, <2>2 DEF Busy
  <2>4. QED BY <2>3 DEF Apart
<1>3. QED BY <1>1, <1>2

\* A step that leaves alone the files and who started what: only the one that
\* moves has to be looked at.
LEMMA QuietStep ==
  ASSUME DungeonInv, NEW a \in K!Actors, NEW to \in Pcs \ {"keptby"}, NEW p \in Pids \cup {0},
         K!To(a, to, p), UNCHANGED <<file, by>>, spoilt \subseteq spoilt',
         a = "init" => act[a].pc \in {"idle", "spawn"},
         to \in {"alive", "stopping"} => p \in Pids,
         spoilt' = {} => /\ Busy(a) \/ \A b \in K!Actors : Busy(b) => "init" \notin {a, b}
                         /\ a # "init" => NotInits(p)
                         /\ to = "read pid" => NotInits(file.pid)
                         /\ "init" \notin stopped'
  PROVE  DungeonInv'
<1>0. DungeonTypes /\ HasTarget
  BY DEF DungeonInv
<1>1. /\ act' \in [K!Actors -> Acts]
      /\ act'[a].pc = to /\ act'[a].pid = p
      /\ \A b \in K!Actors \ {a} : act'[b] = act[b]
  BY <1>0, ToMoves
<1>2. DungeonTypes' /\ HasTarget'
  BY <1>0, <1>1 DEF DungeonTypes, HasTarget, K!Actors
<1>3. ASSUME spoilt' = {} PROVE Known'
  <2>0. Known
    BY <1>3 DEF DungeonInv
  <2>1. Apart'
    BY <1>1, <1>3, <2>0, StayApart DEF Known
  <2>2. InHand'
    BY <1>1, <1>3, <2>0 DEF Known, InHand, NotInits, Keepers, Busy
  <2>3. SaysNobody' => SaysNobody \/ to = "read pid"
    <3>1. act'["init"].pc \in {"idle", "spawn"} => act["init"].pc \in {"idle", "spawn"}
      BY <1>1 DEF K!Actors
    <3>2. QED BY <1>1, <3>1 DEF SaysNobody, Keepers
  <2>4. Unclaimed'
    BY <1>3, <2>0, <2>3 DEF Known, Unclaimed, NotInits
  <2>5. QED BY <1>3, <2>1, <2>2, <2>4 DEF Known
<1>4. QED BY <1>2, <1>3 DEF DungeonInv

-----------------------------------------------------------------------------

LEMMA DungeonInit == ASSUME K!DungeonAssumption, K!Init PROVE DungeonInv
<1>1. DungeonTypes
  BY DEF K!Init, DungeonTypes, Acts, Pcs, K!Idle
<1>2. \A a \in K!Actors : act[a].pc = "idle"
  BY DEF K!Init, K!Idle
<1>3. file.keptby # "nobody" /\ stopped = {}
  BY DEF K!Init
<1>4. "init" \in K!Actors /\ "restart" \in K!Actors /\ Keepers \subseteq K!Actors
  BY DEF Keepers, K!Actors
<1>5. QED
  BY <1>1, <1>2, <1>3, <1>4 DEF DungeonInv, HasTarget, Known, Apart, InHand, Unclaimed, SaysNobody, Busy

\* Whoever begins in the middle of another's steps, one of them being init, has
\* spoilt it.
LEMMA BeginStep ==
  ASSUME K!DungeonAssumption, DungeonInv, NEW a \in K!Actors, NEW to \in {"spawn", "read cmd"}, K!Begins(a, to)
  PROVE  DungeonInv'
<1>1. /\ K!To(a, to, 0) /\ UNCHANGED <<file, by, stopped>>
      /\ act[a].pc = "idle"
      /\ spoilt' = spoilt \cup (IF \E b \in K!Actors : Busy(b) /\ "init" \in {a, b} THEN {"crossed"} ELSE {})
  BY DEF K!Begins, K!At, Busy
<1>2. spoilt \subseteq spoilt'
  BY <1>1
<1>3. spoilt' = {} => \A b \in K!Actors : Busy(b) => "init" \notin {a, b}
  BY <1>1
<1>4. spoilt' = {} => "init" \notin stopped'
  BY <1>1, <1>2 DEF DungeonInv, Known
<1>5. NotInits(0)
  BY DEF K!DungeonAssumption, NotInits
<1>6. to \in Pcs \ {"keptby"} /\ to \notin {"alive", "stopping", "read pid"}
  BY DEF Pcs
<1>7. QED BY <1>1, <1>2, <1>3, <1>4, <1>5, <1>6, QuietStep

\* Giving up and being killed leave nothing in hand.
LEMMA OtherSteps ==
  ASSUME K!DungeonAssumption, DungeonInv, NEW a \in K!Actors,
         K!BeginStart(a) \/ K!StartFails(a) \/ K!Killed(a)
  PROVE  DungeonInv'
<1>1. CASE K!BeginStart(a)
  BY <1>1, BeginStep DEF K!BeginStart
<1>2. CASE K!StartFails(a) \/ K!Killed(a)
  <2>1. K!To(a, "idle", 0) /\ UNCHANGED <<file, by, spoilt, stopped>>
    BY <1>2 DEF K!StartFails, K!Killed, K!Files
  <2>2. Busy(a) /\ (a = "init" => act[a].pc = "spawn")
    BY <1>2 DEF K!StartFails, K!Killed, K!At, Busy
  <2>3. spoilt = {} => "init" \notin stopped
    BY DEF DungeonInv, Known
  <2>4. NotInits(0)
    BY DEF K!DungeonAssumption, NotInits
  <2>5. "idle" \in Pcs \ {"keptby"}
    BY DEF Pcs
  <2>6. QED BY <2>1, <2>2, <2>3, <2>4, <2>5, QuietStep
<1>3. QED BY <1>1, <1>2

-----------------------------------------------------------------------------
(* keeper -r                                                                *)

\* That nobody keeps it is read when init is not at it.
LEMMA RestartReads ==
  ASSUME K!DungeonAssumption, DungeonInv, K!BeginRestart \/ K!ReadCmd \/ K!ReadKeptby \/ K!TerminateFails
  PROVE  DungeonInv'
<1>1. spoilt = {} => Known
  BY DEF DungeonInv
<1>2. NotInits(0) /\ "restart" \in K!Actors /\ "restart" \in Keepers
  BY DEF K!DungeonAssumption, NotInits, K!Actors, Keepers
<1>3. CASE K!BeginRestart
  BY <1>2, <1>3, BeginStep DEF K!BeginRestart
<1>4. CASE K!ReadCmd \/ K!ReadKeptby \/ K!TerminateFails
  <2>1. UNCHANGED <<file, by, spoilt, stopped>> /\ Busy("restart")
    BY <1>4 DEF K!ReadCmd, K!ReadKeptby, K!TerminateFails, K!Files, K!At, Busy
  <2>2. PICK to \in {"idle", "read keptby", "read pid"} :
           K!To("restart", to, 0) /\ (to = "read pid" => file.keptby = "nobody")
    <3>1. CASE K!ReadCmd
      BY <3>1 DEF K!ReadCmd
    <3>2. CASE K!ReadKeptby
      BY <3>2 DEF K!ReadKeptby
    <3>3. CASE K!TerminateFails
      BY <3>3 DEF K!TerminateFails
    <3>4. QED BY <1>4, <3>1, <3>2, <3>3
  <2>3. spoilt = {} => ~Busy("init")
    BY <1>1, <1>2, <2>1 DEF Known, Apart
  <2>4. spoilt = {} /\ to = "read pid" => NotInits(file.pid)
    BY <1>1, <2>2, <2>3 DEF Known, Unclaimed, SaysNobody, Busy
  <2>5. to \in Pcs \ {"keptby"} /\ to \notin {"alive", "stopping"}
    BY DEF Pcs
  <2>6. spoilt = {} => "init" \notin stopped
    BY <1>1 DEF Known
  <2>7. QED BY <1>2, <2>1, <2>2, <2>4, <2>5, <2>6, QuietStep
<1>5. QED BY <1>3, <1>4

\* The pid it finds was written by a keeper, or has nobody of init's.
LEMMA RestartFinds == ASSUME K!DungeonAssumption, DungeonInv, K!ReadPid PROVE DungeonInv'
<1>0. DungeonTypes /\ (spoilt = {} => Known)
  BY DEF DungeonInv
<1>1. act["restart"].pc = "read pid" /\ "restart" \in K!Actors /\ "restart" \in Keepers /\ Busy("restart")
  BY DEF K!ReadPid, K!At, K!Actors, Keepers, Busy
<1>2. UNCHANGED <<file, by, spoilt, stopped>>
  BY DEF K!ReadPid, K!Files
<1>3. spoilt = {} => NotInits(file.pid) /\ "init" \notin stopped
  BY <1>0, <1>1 DEF Known, Unclaimed, SaysNobody
<1>4. NotInits(0)
  BY DEF K!DungeonAssumption, NotInits
<1>5. "spawn" \in Pcs \ {"keptby"} /\ "alive" \in Pcs \ {"keptby"}
  BY DEF Pcs
<1>6. file.pid \in Pids \cup {0}
  BY <1>0 DEF DungeonTypes
<1>7. CASE file.pid = 0
  <2>1. K!To("restart", "spawn", 0)
    BY <1>7 DEF K!ReadPid
  <2>2. QED BY <1>1, <1>2, <1>3, <1>4, <1>5, <2>1, QuietStep
<1>8. CASE file.pid # 0
  <2>1. K!To("restart", "alive", file.pid) /\ file.pid \in Pids
    BY <1>6, <1>8 DEF K!ReadPid
  <2>2. QED BY <1>1, <1>2, <1>3, <1>5, <1>6, <2>1, QuietStep
<1>9. QED BY <1>7, <1>8

\* Whom it signals is not init's, at once and after two seconds.
LEMMA RestartStops == ASSUME K!DungeonAssumption, DungeonInv, K!Terminate \/ K!Stopped PROVE DungeonInv'
<1> DEFINE p == act["restart"].pid
<1>0. HasTarget /\ (spoilt = {} => Known)
  BY DEF DungeonInv
<1>1. act["restart"].pc \in {"alive", "stopping"} /\ "restart" \in K!Actors /\ "restart" \in Keepers
      /\ Busy("restart")
  BY DEF K!Terminate, K!Stopped, K!At, K!Actors, Keepers, Busy
<1>2. UNCHANGED <<file, by, spoilt>>
  BY DEF K!Terminate, K!Stopped
<1>3. p \in Pids
  BY <1>0, <1>1 DEF HasTarget
<1>4. spoilt = {} => NotInits(p)
  BY <1>0, <1>1 DEF Known, InHand
<1>5. stopped' = stopped \/ stopped' = stopped \cup {by[p]}
  BY DEF K!Terminate, K!Stopped, K!Signalled
<1>6. spoilt = {} => "init" \notin stopped'
  BY <1>0, <1>3, <1>4, <1>5 DEF Known, NotInits
<1>7. NotInits(0)
  BY DEF K!DungeonAssumption, NotInits
<1>8. "spawn" \in Pcs \ {"keptby"} /\ "stopping" \in Pcs \ {"keptby"}
  BY DEF Pcs
<1>9. CASE K!To("restart", "spawn", 0)
  BY <1>1, <1>2, <1>6, <1>7, <1>8, <1>9, QuietStep
<1>10. CASE K!To("restart", "stopping", p)
  BY <1>1, <1>2, <1>3, <1>4, <1>6, <1>8, <1>10, QuietStep
<1>11. K!To("restart", "spawn", 0) \/ K!To("restart", "stopping", p)
  BY DEF K!Terminate, K!Stopped
<1>12. QED BY <1>9, <1>10, <1>11

-----------------------------------------------------------------------------
(* Processes and files                                                      *)

\* A pid that comes round again is a keeper's new process, or init's, and then
\* nobody else is at it, and the files are about to say whose it is.
LEMMA SpawnStep ==
  ASSUME DungeonInv, NEW a \in K!Actors, K!Spawn(a)
  PROVE  DungeonInv'
<1>0. DungeonTypes /\ HasTarget /\ (spoilt = {} => Known)
  BY DEF DungeonInv
<1>1. PICK p \in Pids :
         /\ by[p] = ""
         /\ by' = [by EXCEPT ![p] = IF a = "init" THEN "init" ELSE "keeper"]
         /\ K!To(a, "cmd", p)
  BY DEF K!Spawn
<1>2. act[a].pc = "spawn" /\ Busy(a) /\ UNCHANGED <<file, spoilt, stopped>>
  BY DEF K!Spawn, K!At, Busy
<1>3. /\ act' \in [K!Actors -> Acts]
      /\ act'[a].pc = "cmd" /\ act'[a].pid = p
      /\ \A b \in K!Actors \ {a} : act'[b] = act[b]
  <2>1. "cmd" \in Pcs
    BY DEF Pcs
  <2>2. QED BY <1>0, <1>1, <2>1, ToMoves
<1>4. DungeonTypes'
  BY <1>0, <1>1, <1>2, <1>3 DEF DungeonTypes
<1>5. HasTarget'
  BY <1>0, <1>3 DEF HasTarget, K!Actors
<1>6. ASSUME spoilt = {} PROVE Known'
  <2>0. Known
    BY <1>0, <1>6
  <2>1. Apart'
    BY <1>2, <1>3, <2>0, StayApart DEF Known
  <2>2. CASE a = "init"
    <3>1. \A b \in Keepers : act'[b] = act[b] /\ ~Busy(b)
      BY <1>2, <1>3, <2>0, <2>2 DEF Known, Apart, Keepers
    <3>2. InHand'
      BY <3>1 DEF InHand, Busy
    <3>3. ~SaysNobody'
      BY <1>3, <2>2, <3>1 DEF SaysNobody, Busy
    <3>4. QED BY <1>2, <2>0, <2>1, <3>2, <3>3 DEF Known, Unclaimed
  <2>3. CASE a # "init"
    <3>1. \A q : NotInits(q) => NotInits(q)'
      BY <1>0, <1>1, <2>3 DEF NotInits, DungeonTypes
    <3>2. NotInits(p)'
      BY <1>0, <1>1, <2>3 DEF NotInits, DungeonTypes
    <3>3. InHand'
      <4>1. ASSUME NEW b \in Keepers, Busy(b)', b # a PROVE NotInits(act[b].pid)'
        BY <1>3, <2>0, <3>1, <4>1 DEF Known, InHand, Busy, Keepers, NotInits
      <4>2. a \in Keepers => NotInits(act[a].pid)'
        BY <1>3, <3>2 DEF NotInits
      <4>3. QED BY <4>1, <4>2 DEF InHand
    <3>4. SaysNobody' => SaysNobody
      <4>1. act'["init"] = act["init"]
        BY <1>3, <2>3 DEF K!Actors
      <4>2. QED BY <1>2, <1>3, <4>1 DEF SaysNobody, Keepers
    <3>5. Unclaimed'
      BY <1>2, <2>0, <3>1, <3>4 DEF Known, Unclaimed, NotInits
    <3>6. QED BY <1>2, <2>0, <2>1, <3>3, <3>5 DEF Known
  <2>4. QED BY <2>2, <2>3
<1>7. QED BY <1>2, <1>4, <1>5, <1>6 DEF DungeonInv

\* The files in their order: the pid is written before the name of who keeps it.
LEMMA WriteStep ==
  ASSUME K!DungeonAssumption, DungeonInv, NEW a \in K!Actors, K!WriteNext(a)
  PROVE  DungeonInv'
<1> DEFINE f == act[a].pc
           p == IF K!NextFile[f] = "idle" THEN 0 ELSE act[a].pid
<1>0. DungeonTypes /\ HasTarget /\ (spoilt = {} => Known)
  BY DEF DungeonInv
<1>1. f \in {"cmd", "pid", "keptby"}
  BY DEF K!WriteNext, K!NextFile
<1>2. /\ \/ file' = [file EXCEPT ![f] = K!Says(a, f)] /\ spoilt' = spoilt
         \/ file' = [file EXCEPT ![f] = K!Unread(f)] /\ spoilt' = spoilt
         \/ file' = file /\ spoilt' = spoilt \cup (IF f = "cmd" THEN {} ELSE {"unsaid"})
      /\ K!To(a, K!NextFile[f], p)
      /\ UNCHANGED <<by, starts, stopped>>
  BY DEF K!WriteNext
<1>3. /\ f = "cmd" => K!NextFile[f] = "pid"
      /\ f = "pid" => K!NextFile[f] = "keptby"
      /\ f = "keptby" => K!NextFile[f] = "idle"
  BY DEF K!NextFile
<1>4. act[a].pid \in Pids \cup {0}
  BY <1>0 DEF DungeonTypes, Acts
<1>5. /\ act' \in [K!Actors -> Acts]
      /\ act'[a].pc = K!NextFile[f] /\ act'[a].pid = p
      /\ \A b \in K!Actors \ {a} : act'[b] = act[b]
  <2>1. K!NextFile[f] \in Pcs /\ p \in Pids \cup {0}
    BY <1>1, <1>3, <1>4 DEF Pcs
  <2>2. QED BY <1>0, <1>2, <2>1, ToMoves
<1>6. file' \in [cmd : {"", "cmd"}, pid : Pids \cup {0}, keptby : {"", "init", "nobody"}]
  BY <1>0, <1>1, <1>2, <1>4 DEF DungeonTypes, K!Says, K!Unread
<1>7. DungeonTypes' /\ HasTarget'
  BY <1>0, <1>1, <1>2, <1>3, <1>5, <1>6 DEF DungeonTypes, HasTarget, K!Actors
<1>8. ASSUME spoilt' = {} PROVE Known'
  <2>0. Known /\ Busy(a)
    <3>1. spoilt = {}
      BY <1>2, <1>8
    <3>2. QED BY <1>0, <1>1, <3>1 DEF Busy
  <2>1. NotInits(0)'
    BY DEF K!DungeonAssumption, NotInits
  <2>2. Apart'
    BY <1>5, <2>0, StayApart DEF Known
  <2>3. InHand'
    <3>1. ASSUME NEW b \in Keepers, Busy(b)' PROVE NotInits(act[b].pid)'
      <4>1. CASE b = a
        BY <1>2, <1>5, <2>0, <2>1, <3>1, <4>1 DEF Known, InHand, NotInits
      <4>2. CASE b # a
        BY <1>2, <1>5, <2>0, <3>1, <4>2 DEF Known, InHand, NotInits, Busy, Keepers
      <4>3. QED BY <4>1, <4>2
    <3>2. QED BY <3>1 DEF InHand
  <2>4. CASE a = "init"
    <3>1. \A b \in Keepers : act'[b] = act[b] /\ ~Busy(b)
      BY <1>5, <2>0, <2>4 DEF Known, Apart, Keepers
    <3>2. \A b \in Keepers : act'[b].pc = "idle"
      BY <3>1 DEF Busy
    <3>3. f = "keptby" => file'.keptby # "nobody"
      BY <1>0, <1>2, <1>8, <2>4 DEF DungeonTypes, K!Says, K!Unread
    <3>4. ~SaysNobody'
      BY <1>1, <1>3, <1>5, <2>4, <3>2, <3>3 DEF SaysNobody
    <3>5. QED BY <1>2, <2>0, <2>2, <2>3, <3>4 DEF Known, Unclaimed
  <2>5. CASE a # "init"
    <3>0. a \in Keepers /\ act'["init"] = act["init"] /\ "init" \in K!Actors
      BY <1>5, <2>5 DEF Keepers, K!Actors
    <3>1. ASSUME f = "cmd" PROVE Unclaimed'
      <4>1. file'.pid = file.pid /\ file'.keptby = file.keptby
        BY <1>0, <1>2, <3>1 DEF DungeonTypes
      <4>2. SaysNobody' => SaysNobody
        BY <1>3, <1>5, <3>0, <3>1, <4>1 DEF SaysNobody, Keepers
      <4>3. QED BY <1>2, <2>0, <4>1, <4>2 DEF Known, Unclaimed, NotInits
    <3>2. ASSUME f = "pid" PROVE Unclaimed'
      <4>1. file'.pid \in {act[a].pid, 0}
        BY <1>0, <1>2, <1>8, <3>2 DEF DungeonTypes, K!Says, K!Unread
      <4>2. NotInits(act[a].pid)
        BY <2>0, <3>0 DEF Known, InHand
      <4>3. QED BY <1>2, <2>1, <4>1, <4>2 DEF Unclaimed, NotInits
    <3>3. ASSUME f = "keptby" PROVE Unclaimed'
      <4>1. file'.pid = file.pid
        BY <1>0, <1>2, <3>3 DEF DungeonTypes
      <4>2. NotInits(file.pid)
        BY <2>0, <3>0, <3>3 DEF Known, Unclaimed, SaysNobody
      <4>3. QED BY <1>2, <4>1, <4>2 DEF Unclaimed, NotInits
    <3>4. QED BY <1>1, <1>2, <2>0, <2>2, <2>3, <3>1, <3>2, <3>3 DEF Known
  <2>6. QED BY <2>4, <2>5
<1>9. QED BY <1>7, <1>8 DEF DungeonInv

LEMMA DiesStep == ASSUME DungeonInv, NEW p \in Pids, K!Dies(p) PROVE DungeonInv'
<1>1. by' = [by EXCEPT ![p] = ""] /\ UNCHANGED <<file, act, spoilt, stopped>>
  BY DEF K!Dies
<1>2. DungeonTypes'
  BY <1>1 DEF DungeonInv, DungeonTypes
<1>3. ASSUME NEW q, NotInits(q) PROVE NotInits(q)'
  BY <1>1, <1>3 DEF DungeonInv, DungeonTypes, NotInits
<1>4. InHand => InHand'
  BY <1>1, <1>3 DEF InHand, NotInits, Busy
<1>5. Unclaimed => Unclaimed'
  BY <1>1, <1>3 DEF Unclaimed, SaysNobody, NotInits
<1>6. QED
  BY <1>1, <1>2, <1>4, <1>5 DEF DungeonInv, Apart, HasTarget, Known, Busy

LEMMA DungeonStutters == ASSUME DungeonInv, UNCHANGED K!vars PROVE DungeonInv'
  BY DEF K!vars, DungeonInv, DungeonTypes, HasTarget, Known, Apart, InHand, NotInits, Unclaimed,
     SaysNobody, Busy

-----------------------------------------------------------------------------

LEMMA DungeonNext ==
  ASSUME K!DungeonAssumption, DungeonInv, [K!Next]_K!vars
  PROVE  DungeonInv'
<1>1. CASE K!Keeper
  BY <1>1, RestartReads, RestartFinds, RestartStops DEF K!Keeper
<1>2. ASSUME NEW a \in K!Actors,
             K!BeginStart(a) \/ K!StartFails(a) \/ K!Spawn(a) \/ K!WriteNext(a) \/ K!Killed(a)
      PROVE  DungeonInv'
  BY <1>2, OtherSteps, SpawnStep, WriteStep
<1>3. QED BY <1>1, <1>2, DiesStep, DungeonStutters DEF K!Next

LEMMA DungeonInvImplies == ASSUME DungeonInv PROVE K!KeptLeftAlone
BY DEF DungeonInv, Known, K!KeptLeftAlone

-----------------------------------------------------------------------------
(* Login                                                                   *)

\* The seat is a node or none for every name, and a device's number is one.
Nodes == /\ seat \in [Names -> Nat]
         /\ dev \in [Names -> Nat]
         /\ plugs \in Nat
         /\ path \in BOOLEAN /\ cut \in BOOLEAN
         /\ aside \subseteq Nat

\* Until a seat is made getty knows none, and it knows one while it adds to it
\* or takes it away.
PathKnown == /\ pc \in {"user", "auth", "ask", "seat"} => ~path
             /\ pc \in {"add", "take away"} => path

\* Nodes are somebody's that is there, or were left over, or put back by the user:
\* whoever has made no seat of their own otherwise finds it empty.
Emptied == ~cut /\ (pc = "off" \/ ~path) => \A n \in Names : seat[n] = 0

\* What is still to be taken away is in todo, but for what failed or came since.
AllInTodo == pc = "take away" /\ ~cut => \A n \in Names : seat[n] # 0 => n \in todo

LoginInv == Nodes /\ PathKnown /\ Emptied /\ AllInTodo

LEMMA LoginInit == ASSUME G!Init PROVE LoginInv
<1>1. seat \in [Names -> Nat] /\ \A n \in Names : seat[n] = 0
  BY DEF G!Init, G!NoSeat
<1>2. dev \in [Names -> Nat] /\ plugs \in Nat /\ aside \subseteq Nat
  BY DEF G!Init
<1>3. pc = "off" /\ path = FALSE /\ cut = FALSE
  BY DEF G!Init
<1>4. QED BY <1>1, <1>2, <1>3 DEF LoginInv, Nodes, PathKnown, Emptied, AllInTodo

-----------------------------------------------------------------------------

LEMMA NodesStep == ASSUME LoginInv, [G!Next]_G!vars PROVE Nodes'
<1> USE DEF G!Goes, G!Same, G!Ends
<1>0. Nodes
  BY DEF LoginInv
<1>1. CASE G!Login \/ G!Hangup
  <2>1. CASE G!SeatAdd
    <3>1. PICK n \in todo :
             \/ seat' = [seat EXCEPT ![n] = IF @ = 0 THEN dev[n] ELSE @]
             \/ seat' = seat
      BY <2>1 DEF G!SeatAdd
    <3>2. seat' \in [Names -> Nat]
      BY <1>0, <3>1 DEF Nodes
    <3>3. UNCHANGED <<dev, plugs, path, cut, aside>>
      BY <2>1 DEF G!SeatAdd
    <3>4. QED BY <1>0, <3>2, <3>3 DEF Nodes
  <2>2. CASE G!SeatDrop
    <3>1. PICK n \in todo : \/ seat' = [seat EXCEPT ![n] = 0] /\ cut' = cut
                            \/ seat' = seat /\ cut' = TRUE
      BY <2>2 DEF G!SeatDrop
    <3>2. seat' \in [Names -> Nat]
      <4>1. [seat EXCEPT ![n] = 0] \in [Names -> Nat]
        BY <1>0 DEF Nodes
      <4>2. QED BY <1>0, <3>1, <4>1 DEF Nodes
    <3>3. cut' \in BOOLEAN
      BY <1>0, <3>1 DEF Nodes
    <3>4. UNCHANGED <<dev, plugs, path, aside>>
      BY <2>2 DEF G!SeatDrop
    <3>5. QED BY <1>0, <3>2, <3>3, <3>4 DEF Nodes
  <2>3. CASE ~(G!SeatAdd \/ G!SeatDrop)
    <3>1. UNCHANGED <<seat, dev, plugs, aside>>
      BY <1>1, <2>3 DEF G!Login, G!Start, G!StartFails, G!BecomeRoot, G!AuthCheck, G!NoCode, G!RightCode,
         G!WrongCode, G!NoLine, G!NoSeatMade, G!SeatMake, G!SeatMade, G!ChangeUser, G!ChangeUserFails,
         G!ShellEnds, G!SeatNotRead, G!SeatTaken, G!Hangup
    <3>2. path' \in BOOLEAN /\ cut' \in BOOLEAN
      BY <1>0, <1>1, <2>3 DEF G!Login, G!Start, G!StartFails, G!BecomeRoot, G!AuthCheck, G!NoCode,
         G!RightCode, G!WrongCode, G!NoLine, G!NoSeatMade, G!SeatMake, G!SeatMade, G!ChangeUser,
         G!ChangeUserFails, G!ShellEnds, G!SeatNotRead,
         G!SeatTaken, G!Hangup, Nodes
    <3>3. QED BY <1>0, <3>1, <3>2 DEF Nodes
  <2>4. QED BY <2>1, <2>2, <2>3
<1>2. CASE G!UserRemoves
  <2>1. PICK n \in Names : /\ seat' = [seat EXCEPT ![n] = 0]
                           /\ aside' \in {aside, aside \cup ({seat[n]} \ {0})}
    BY <1>2 DEF G!UserRemoves
  <2>2. UNCHANGED <<dev, plugs, path, cut>>
    BY <1>2 DEF G!UserRemoves, G!Users
  <2>3. QED BY <1>0, <2>1, <2>2 DEF Nodes
<1>3. CASE G!UserBrings
  <2>1. PICK n \in Names, d \in aside : seat' = [seat EXCEPT ![n] = d] /\ aside' = aside \ {d}
    BY <1>3 DEF G!UserBrings
  <2>2. UNCHANGED <<dev, plugs, path>> /\ cut' = TRUE
    BY <1>3 DEF G!UserBrings, G!Users
  <2>3. QED BY <1>0, <2>1, <2>2 DEF Nodes
<1>4. CASE G!Plug
  BY <1>0, <1>4 DEF G!Plug, Nodes
<1>5. CASE UNCHANGED G!vars
  BY <1>0, <1>5 DEF G!vars, Nodes
<1>6. QED BY <1>1, <1>2, <1>3, <1>4, <1>5 DEF G!Next

LEMMA PathStep == ASSUME LoginInv, [G!Next]_G!vars PROVE PathKnown'
<1> USE DEF G!Goes, G!Same, G!Ends
<1>0. PathKnown
  BY DEF LoginInv
<1>1. CASE G!Start
  <2>1. path' = FALSE /\ pc' \in {"user", "auth"}
    BY <1>1 DEF G!Start
  <2>2. QED BY <2>1 DEF PathKnown
\* Nothing of these leads to a place where a seat has been made.
<1>2. CASE \/ G!StartFails \/ G!BecomeRoot \/ G!AuthCheck \/ G!NoCode \/ G!RightCode \/ G!WrongCode
           \/ G!NoLine
  <2>1. pc \in {"user", "auth", "ask"} /\ path' = path
    BY <1>2 DEF G!StartFails, G!BecomeRoot, G!AuthCheck, G!NoCode, G!RightCode, G!WrongCode, G!NoLine
  <2>2. pc' \in {"off", "auth", "ask", "shell", "seat"}
    BY <1>2 DEF G!StartFails, G!BecomeRoot, G!AuthCheck, G!Inside, G!NoCode, G!RightCode, G!WrongCode, G!NoLine
  <2>3. QED BY <1>0, <2>1, <2>2 DEF PathKnown
<1>3. CASE G!SeatMake
  <2>1. pc' = "add" /\ path' = TRUE
    BY <1>3 DEF G!SeatMake
  <2>2. QED BY <2>1 DEF PathKnown
<1>4. CASE G!ShellEnds
  <2>1. path' = path /\ ((pc' = "take away" /\ path) \/ pc' = "off")
    BY <1>4 DEF G!ShellEnds
  <2>2. QED BY <2>1 DEF PathKnown
<1>5. CASE \/ G!NoSeatMade \/ G!SeatMade \/ G!ChangeUser \/ G!ChangeUserFails
           \/ G!SeatNotRead \/ G!SeatTaken \/ G!Hangup
  <2>1. pc' \in {"drop user", "shell", "off"}
    BY <1>5 DEF G!NoSeatMade, G!SeatMade, G!ChangeUser, G!ChangeUserFails, G!SeatNotRead, G!SeatTaken,
       G!Hangup
  <2>2. QED BY <2>1 DEF PathKnown
<1>6. CASE G!SeatAdd \/ G!SeatDrop \/ G!UserRemoves \/ G!UserBrings \/ G!Plug \/ UNCHANGED G!vars
  <2>1. pc' = pc /\ path' = path
    BY <1>6 DEF G!SeatAdd, G!SeatDrop, G!UserRemoves, G!UserBrings, G!Users, G!Plug, G!vars
  <2>2. QED BY <1>0, <2>1 DEF PathKnown
<1>7. QED BY <1>1, <1>2, <1>3, <1>4, <1>5, <1>6 DEF G!Next, G!Login

LEMMA EmptiedStep == ASSUME LoginInv, [G!Next]_G!vars PROVE Emptied'
<1> USE DEF G!Goes, G!Same, G!Ends
<1>0. Nodes /\ PathKnown /\ Emptied /\ AllInTodo
  BY DEF LoginInv
\* Nobody was there: whoever comes has made no seat either.
<1>1. CASE G!Start
  <2>1. pc = "off" /\ UNCHANGED <<cut, seat>>
    BY <1>1 DEF G!Start
  <2>2. QED BY <1>0, <2>1 DEF Emptied
\* Up to here getty has made no seat, and adds nothing to one.
<1>2. CASE \/ G!StartFails \/ G!BecomeRoot \/ G!AuthCheck \/ G!NoCode \/ G!RightCode \/ G!WrongCode
           \/ G!NoLine \/ G!NoSeatMade
  <2>1. pc \in {"user", "auth", "ask", "seat"}
    BY <1>2 DEF G!StartFails, G!BecomeRoot, G!AuthCheck, G!NoCode, G!RightCode, G!WrongCode, G!NoLine,
       G!NoSeatMade
  <2>2. UNCHANGED <<path, cut, seat>>
    BY <1>2 DEF G!StartFails, G!BecomeRoot, G!AuthCheck, G!NoCode, G!RightCode, G!WrongCode, G!NoLine,
       G!NoSeatMade
  <2>3. QED BY <1>0, <2>1, <2>2 DEF PathKnown, Emptied
\* Now it has one.
<1>3. CASE G!SeatMake \/ G!SeatAdd
  <2>1. path' /\ pc' # "off"
    BY <1>0, <1>3 DEF G!SeatMake, G!SeatAdd, PathKnown
  <2>2. QED BY <2>1 DEF Emptied
<1>4. CASE G!SeatMade \/ G!ChangeUser
  <2>1. pc' # "off" /\ UNCHANGED <<path, cut, seat>>
    BY <1>4 DEF G!SeatMade, G!ChangeUser
  <2>2. QED BY <1>0, <2>1 DEF Emptied
\* An end in between either has made none, or is one that took nothing away.
<1>5. CASE G!ChangeUserFails \/ G!Hangup
  <2>1. cut' = (cut \/ path) /\ UNCHANGED <<path, seat>>
    BY <1>5 DEF G!ChangeUserFails, G!Hangup
  <2>2. QED BY <1>0, <2>1 DEF Emptied, Nodes
<1>6. CASE G!UserRemoves
  <2>1. PICK m \in Names : seat' = [seat EXCEPT ![m] = 0]
    BY <1>6 DEF G!UserRemoves
  <2>2. UNCHANGED <<pc, path, cut>>
    BY <1>6 DEF G!UserRemoves, G!Users
  <2>3. QED BY <1>0, <2>1, <2>2 DEF Emptied, Nodes
<1>7. CASE G!ShellEnds
  <2>1. UNCHANGED <<path, seat>> /\ (IF path THEN pc' = "take away" ELSE cut' = cut)
    BY <1>7 DEF G!ShellEnds
  <2>2. QED BY <1>0, <2>1 DEF Emptied
<1>8. CASE G!SeatDrop
  <2>1. pc' = "take away" /\ path'
    BY <1>0, <1>8 DEF G!SeatDrop, PathKnown
  <2>2. QED BY <2>1 DEF Emptied
\* Whatever was on the seat was in todo, and nothing is in todo.
<1>9. CASE G!SeatTaken
  BY <1>0, <1>9 DEF G!SeatTaken, AllInTodo, Emptied
\* Not all of it was taken away.
<1>10. CASE G!SeatNotRead \/ G!UserBrings
  <2>1. cut' = TRUE
    BY <1>10 DEF G!SeatNotRead, G!UserBrings
  <2>2. QED BY <2>1 DEF Emptied
<1>11. CASE G!Plug \/ UNCHANGED G!vars
  <2>1. UNCHANGED <<pc, path, cut, seat>>
    BY <1>11 DEF G!Plug, G!vars
  <2>2. QED BY <1>0, <2>1 DEF Emptied
<1>12. QED
  BY <1>1, <1>2, <1>3, <1>4, <1>5, <1>6, <1>7, <1>8, <1>9, <1>10, <1>11 DEF G!Next, G!Login

LEMMA TodoStep == ASSUME LoginInv, [G!Next]_G!vars PROVE AllInTodo'
<1> USE DEF G!Goes, G!Same, G!Ends
<1>0. Nodes /\ AllInTodo
  BY DEF LoginInv
<1>1. CASE G!ShellEnds
  <2>1. CASE path
    BY <1>1, <2>1 DEF G!ShellEnds, G!OnTheSeat, AllInTodo
  <2>2. CASE ~path
    BY <1>1, <2>2 DEF G!ShellEnds, AllInTodo
  <2>3. QED BY <2>1, <2>2
<1>2. CASE G!SeatDrop
  <2>1. PICK m \in todo : /\ todo' = todo \ {m}
                          /\ \/ seat' = [seat EXCEPT ![m] = 0] /\ cut' = cut
                             \/ seat' = seat /\ cut' = TRUE
    BY <1>2 DEF G!SeatDrop
  <2>2. pc' = pc /\ pc = "take away"
    BY <1>2 DEF G!SeatDrop
  <2>3. QED BY <1>0, <2>1, <2>2 DEF AllInTodo, Nodes
<1>3. CASE G!Login /\ ~G!ShellEnds /\ ~G!SeatDrop
  <2>1. pc' # "take away"
    BY <1>3 DEF G!Login, G!Start, G!StartFails, G!BecomeRoot, G!AuthCheck, G!Inside, G!NoCode, G!RightCode,
       G!WrongCode, G!NoLine, G!NoSeatMade, G!SeatMake, G!SeatAdd, G!SeatMade, G!ChangeUser,
       G!ChangeUserFails, G!SeatNotRead, G!SeatTaken
  <2>2. QED BY <2>1 DEF AllInTodo
<1>4. CASE G!UserRemoves
  <2>1. PICK m \in Names : seat' = [seat EXCEPT ![m] = 0]
    BY <1>4 DEF G!UserRemoves
  <2>2. UNCHANGED <<pc, todo, cut>>
    BY <1>4 DEF G!UserRemoves, G!Users
  <2>3. QED BY <1>0, <2>1, <2>2 DEF AllInTodo, Nodes
<1>5. CASE G!UserBrings \/ G!Hangup
  BY <1>5 DEF G!UserBrings, G!Hangup, AllInTodo
<1>6. CASE G!Plug \/ UNCHANGED G!vars
  BY <1>0, <1>6 DEF G!Plug, G!vars, AllInTodo
<1>7. QED BY <1>1, <1>2, <1>3, <1>4, <1>5, <1>6 DEF G!Next

-----------------------------------------------------------------------------

LEMMA LoginNext == ASSUME LoginInv, [G!Next]_G!vars PROVE LoginInv'
BY NodesStep, PathStep, EmptiedStep, TodoStep DEF LoginInv

LEMMA LoginInvImplies == ASSUME LoginInv PROVE G!HardwareGoes
BY DEF LoginInv, Nodes, Emptied, G!HardwareGoes, G!NoSeat

-----------------------------------------------------------------------------
(* The clocks: the formulas of date.h are those of the calendar, for every  *)
(* date and second, and hwclock and rtcwake keep the two clocks as they are *)
(* to be kept.                                                              *)

\* now is the t of Clock.
sys == s4
rtc == s5
alarm == s6
now == s7
when == s8
lag == s9
ticks == s10

USE DEF pc, exit, job, sys, rtc, alarm, now, when, lag, ticks

-----------------------------------------------------------------------------
(* Numbers.                                                                 *)

\* What is known of division, by any block size.
LEMMA DivisionParts ==
  ASSUME NEW n \in Nat, NEW m \in Nat \ {0}
  PROVE  /\ n \div m \in Nat /\ n % m \in Nat /\ n % m < m
         /\ n = m * (n \div m) + (n % m)
<1>1. n % m \in Nat /\ n % m < m
  OBVIOUS
<1>2. n \div m \in Nat
  OBVIOUS
<1>3. n = m * (n \div m) + (n % m)
  OBVIOUS
<1>4. QED BY <1>1, <1>2, <1>3, Zenon

\* And no other numbers are these.
LEMMA DivisionUnique ==
  ASSUME NEW q \in Nat, NEW r \in Nat, NEW m \in Nat \ {0}, r < m
  PROVE  (m * q + r) \div m = q /\ (m * q + r) % m = r
  OBVIOUS

-----------------------------------------------------------------------------
(* The calendar: the formulas of date.h against it.                         *)

\* The leap years up to y, since the year 0.
LeapsTo(y) == (y \div 4) - (y \div 100) + (y \div 400)

LEMMA LeapStep ==
  ASSUME NEW y \in Int
  PROVE  LeapsTo(y) = LeapsTo(y - 1) + IF C!Leap(y) THEN 1 ELSE 0
<1>1. (y \div 4) - ((y - 1) \div 4) = IF y % 4 = 0 THEN 1 ELSE 0
  OBVIOUS
<1>2. (y \div 100) - ((y - 1) \div 100) = IF y % 100 = 0 THEN 1 ELSE 0
  OBVIOUS
<1>3. (y \div 400) - ((y - 1) \div 400) = IF y % 400 = 0 THEN 1 ELSE 0
  OBVIOUS
<1>4. (y % 400 = 0 => y % 100 = 0) /\ (y % 100 = 0 => y % 4 = 0)
  OBVIOUS
<1>5. QED BY <1>1, <1>2, <1>3, <1>4 DEF LeapsTo, C!Leap

LEMMA LeapYears ==
  ASSUME NEW y \in Nat, y >= 1970
  PROVE  /\ IsFiniteSet({x \in 1970..(y - 1) : C!Leap(x)})
         /\ Cardinality({x \in 1970..(y - 1) : C!Leap(x)}) = LeapsTo(y - 1) - 477
<1> DEFINE In(n) == {x \in 1970..(1969 + n) : C!Leap(x)}
           T == {n \in 0..(y - 1970) : IsFiniteSet(In(n)) /\ Cardinality(In(n)) = LeapsTo(1969 + n) - 477}
<1>1. 0 \in T
  <2>1. In(0) = {}
    OBVIOUS
  <2>2. LeapsTo(1969) = 477
    BY DEF LeapsTo
  <2>3. QED BY <2>1, <2>2, FS_EmptySet
<1>2. ASSUME NEW n \in 1..(y - 1970), n - 1 \in T PROVE n \in T
  <2> DEFINE z == 1969 + n
  <2>1. z \in Int /\ 1969 + (n - 1) = z - 1
    OBVIOUS
  <2>2. IsFiniteSet(In(n - 1)) /\ Cardinality(In(n - 1)) = LeapsTo(z - 1) - 477
    BY <1>2, <2>1
  <2>3. LeapsTo(z) = LeapsTo(z - 1) + IF C!Leap(z) THEN 1 ELSE 0
    BY <2>1, LeapStep
  <2>4. LeapsTo(z) \in Int /\ LeapsTo(z - 1) \in Int
    BY <2>1 DEF LeapsTo
  <2>5. In(n) = In(n - 1) \cup (IF C!Leap(z) THEN {z} ELSE {}) /\ z \notin In(n - 1)
    OBVIOUS
  <2> HIDE DEF In, z
  <2>6. CASE C!Leap(z)
    <3>1. In(n) = In(n - 1) \cup {z}
      BY <2>5, <2>6
    <3>2. IsFiniteSet(In(n)) /\ Cardinality(In(n)) = Cardinality(In(n - 1)) + 1
      BY <2>2, <2>5, <3>1, FS_AddElement
    <3>3. Cardinality(In(n)) = LeapsTo(z) - 477
      BY <2>2, <2>3, <2>4, <2>6, <3>2
    <3>4. QED BY <3>2, <3>3 DEF z
  <2>7. CASE ~C!Leap(z)
    <3>1. In(n) = In(n - 1)
      BY <2>5, <2>7
    <3>2. IsFiniteSet(In(n)) /\ Cardinality(In(n)) = LeapsTo(z) - 477
      BY <2>2, <2>3, <2>4, <2>7, <3>1
    <3>4. QED BY <3>2 DEF z
  <2>8. QED BY <2>6, <2>7
<1> HIDE DEF T
<1>3. \A n \in 0..(y - 1970) : n \in T
  BY <1>1, <1>2, UpTo
<1>4. y - 1970 \in T /\ 1969 + (y - 1970) = y - 1
  BY <1>3
<1>5. QED BY <1>4 DEF T

\* The days since 1970, as C!Elapsed counts them, in closed form.
Days(y, m, d) == (y - 1970) * 365 + LeapsTo(y - 1) - 477 + C!DaysBefore(y, m) + d - 1

LEMMA DaysTable ==
  ASSUME NEW m \in 1..12
  PROVE  <<0, 31, 59, 90, 120, 151, 181, 212, 243, 273, 304, 334>>[m] =
           IF m > 2 THEN ((153 * (m - 3) + 2) \div 5) + 59 ELSE ((153 * (m + 9) + 2) \div 5) - 306
<1>1. m \in {1, 2, 3, 4, 5, 6, 7, 8, 9, 10, 11, 12}
  OBVIOUS
<1>2. QED BY <1>1

Era(y) == y \div 400
InEra(y) == y - Era(y) * 400

LEMMA YearDays ==
  ASSUME NEW y \in Int
  PROVE  Era(y) * 146097 + (InEra(y) * 365 + InEra(y) \div 4 - InEra(y) \div 100) = 365 * y + LeapsTo(y)
BY DEF LeapsTo, Era, InEra

LEMMA FromCivil ==
  ASSUME NEW y \in Int, NEW m \in 1..12, NEW d \in Int
  PROVE  C!DaysFromCivil(y, m, d) = Days(y, m, d)
<1> DEFINE z == IF m <= 2 THEN y - 1 ELSE y
           e == z \div 400
           x == z - e * 400
           k == (153 * (IF m > 2 THEN m - 3 ELSE m + 9) + 2) \div 5
<1>1. z \in Int /\ k \in Int
  OBVIOUS
<1>2. C!DaysFromCivil(y, m, d) = e * 146097 + (x * 365 + x \div 4 - x \div 100 + (k + d - 1)) - 719468
  BY DEF C!DaysFromCivil
<1>3. e * 146097 + (x * 365 + x \div 4 - x \div 100) = 365 * z + LeapsTo(z)
  <2>1. e = Era(z) /\ x = InEra(z)
    BY DEF Era, InEra
  <2> HIDE DEF e, x, z
  <2>2. QED BY <1>1, <2>1, YearDays
<1>4. C!DaysBefore(y, m) = (IF m > 2 THEN k + 59 ELSE k - 306) + IF m > 2 /\ C!Leap(y) THEN 1 ELSE 0
  BY DaysTable DEF C!DaysBefore
<1>5. LeapsTo(y) = LeapsTo(y - 1) + IF C!Leap(y) THEN 1 ELSE 0
  BY LeapStep
<1>6. LeapsTo(y) \in Int /\ LeapsTo(y - 1) \in Int /\ e \in Int /\ x \in Int /\ x \div 4 \in Int /\ x \div 100 \in Int
  BY <1>1 DEF LeapsTo
<1>7. C!DaysFromCivil(y, m, d) = 365 * z + LeapsTo(z) + (k + d - 1) - 719468
  <2> HIDE DEF e, x, k, z
  <2>1. LeapsTo(z) \in Int
    BY <1>1 DEF LeapsTo
  <2>2. QED BY <1>1, <1>2, <1>3, <1>6, <2>1
<1>8. CASE m > 2
  BY <1>1, <1>4, <1>5, <1>6, <1>7, <1>8 DEF Days
<1>9. CASE m <= 2
  BY <1>1, <1>4, <1>5, <1>6, <1>7, <1>9 DEF Days
<1>10. QED BY <1>8, <1>9

\* The months of a year that begins in March.
LEMMA MonthOfDay ==
  ASSUME NEW doy \in 0..365
  PROVE  LET mp == (5 * doy + 2) \div 153
             d == doy - (153 * mp + 2) \div 5 + 1
         IN  /\ mp \in 0..11 /\ d \in 1..31
             /\ mp \in {1, 3, 6, 8} => d <= 30
             /\ mp = 11 => d <= 29 /\ (d = 29 => doy = 365)
OBVIOUS

\* The day of a year of the era: the last one is that of a leap year's February.
DayOfYear(doe, yoe) == doe - (365 * yoe + yoe \div 4 - yoe \div 100)

\* The century of the era that a day is in, the leap cycle of that, and its day.
Century(doe) == IF doe \div 36524 = 4 THEN 3 ELSE doe \div 36524
Cycle(doe) == (doe - 36524 * Century(doe)) \div 1461
CycleDay(doe) == doe - 36524 * Century(doe) - 1461 * Cycle(doe)

OnDay(doe, b, q, s) == /\ b \in 0..3 /\ q \in 0..24 /\ s \in 0..1460
                       /\ doe = 36524 * b + 1461 * q + s
                       /\ q = 24 /\ b # 3 => s < 1460

\* What a day of the era is of its year: the last one is a leap year's.
Fits(doe, yoe) == /\ yoe \in 0..399 /\ DayOfYear(doe, yoe) \in 0..365
                  /\ DayOfYear(doe, yoe) = 365 => \A e \in Nat : C!Leap(yoe + e * 400 + 1)

LEMMA CenturyOfDay ==
  ASSUME NEW doe \in Int, 0 <= doe, doe <= 146096, NEW c \in Int, c = doe \div 36524
  PROVE  c >= 0 /\ c <= 4 /\ (c = 4 => doe = 146096) /\ 36524 * c <= doe /\ doe < 36524 * c + 36524
BY SMT

LEMMA CycleOfDay ==
  ASSUME NEW r \in Int, 0 <= r, r <= 36524
  PROVE  /\ r \div 1461 \in 0..24 /\ r - 1461 * (r \div 1461) \in 0..1460
         /\ r \div 1461 = 24 /\ r < 36524 => r - 1461 * (r \div 1461) < 1460
BY SMT

LEMMA CyclesOfEra ==
  ASSUME NEW doe \in Int, 0 <= doe, doe <= 146096
  PROVE  /\ OnDay(doe, Century(doe), Cycle(doe), CycleDay(doe))
         /\ Century(doe) \in Int /\ Cycle(doe) \in Int /\ CycleDay(doe) \in Int
<1> DEFINE c == doe \div 36524
           b == Century(doe)
           r == doe - 36524 * b
<1>1. c \in Int
  BY SMT
<1>2. b = IF c = 4 THEN 3 ELSE c
  BY SMT DEF Century
<1>3. Cycle(doe) = r \div 1461 /\ CycleDay(doe) = r - 1461 * (r \div 1461)
  BY SMT DEF Cycle, CycleDay
<1>4. c >= 0 /\ c <= 4 /\ (c = 4 => doe = 146096) /\ 36524 * c <= doe /\ doe < 36524 * c + 36524
  <2>1. c = doe \div 36524
    OBVIOUS
  <2> HIDE DEF c
  <2>2. QED BY <1>1, <2>1, CenturyOfDay, SMT
<1>5. b \in 0..3 /\ r \in Int /\ 0 <= r /\ r <= 36524 /\ (b # 3 => r < 36524)
  <2> HIDE DEF c, b
  <2>1. QED BY <1>1, <1>2, <1>4, SMT
<1>6. doe = 36524 * b + r
  <2> HIDE DEF b
  <2>1. QED BY <1>5, SMT
<1> HIDE DEF c, b, r
<1>7. /\ Cycle(doe) \in 0..24 /\ CycleDay(doe) \in 0..1460
      /\ r = 1461 * Cycle(doe) + CycleDay(doe)
      /\ Cycle(doe) = 24 /\ r < 36524 => CycleDay(doe) < 1460
  BY <1>3, <1>5, CycleOfDay, SMT
<1>a. Cycle(doe) \in Int /\ CycleDay(doe) \in Int /\ r = 1461 * Cycle(doe) + CycleDay(doe)
  BY <1>7, SMT
<1>b. b \in Int /\ r \in Int
  BY <1>5, SMT
<1>8. doe = 36524 * b + 1461 * Cycle(doe) + CycleDay(doe)
  BY <1>6, <1>a, <1>b, SMT
<1>9. Cycle(doe) = 24 /\ b # 3 => CycleDay(doe) < 1460
  BY <1>5, <1>7, SMT
<1>10. b = Century(doe)
  BY DEF b
<1>11. OnDay(doe, b, Cycle(doe), CycleDay(doe))
  BY <1>5, <1>7, <1>8, <1>9, SMT DEF OnDay
<1>12. OnDay(doe, Century(doe), Cycle(doe), CycleDay(doe))
  BY <1>10, <1>11, SMT
<1>13. QED BY <1>a, <1>b, <1>10, <1>12, SMT

LEMMA YearOfCycles ==
  ASSUME NEW doe \in Int, NEW b \in Int, NEW q \in Int, NEW s \in Int,
         OnDay(doe, b, q, s)
  PROVE  Fits(doe, C!YearOfEra(doe))
<1> DEFINE yoe == C!YearOfEra(doe)
<1>a. /\ b \in 0..3 /\ q \in 0..24 /\ s \in 0..1460
      /\ doe = 36524 * b + 1461 * q + s /\ (q = 24 /\ b # 3 => s < 1460)
  BY DEF OnDay
<1> DEFINE w == IF s = 1460 THEN 3 ELSE s \div 365
<1>1. yoe = 100 * b + 4 * q + w
  <2> DEFINE e == IF s >= 1460 - 24 * b - q THEN 1 ELSE 0
             c == IF doe = 146096 THEN 1 ELSE 0
  <2>1. doe \div 146096 = c
    BY <1>a, SMT
  <2>2. doe \div 36524 = b + c
    BY <1>a, SMT
  <2>3. doe \div 1460 = 25 * b + q + e
    BY <1>a, SMT
  <2>4. doe - (25 * b + q + e) + (b + c) - c = 365 * (100 * b + 4 * q) + s - e
    BY <1>a, SMT
  <2>5. C!YearOfEra(doe) = (365 * (100 * b + 4 * q) + s - e) \div 365
    BY <2>1, <2>2, <2>3, <2>4, SMT DEF C!YearOfEra
  <2>6. (365 * (100 * b + 4 * q) + (s - e)) \div 365 = 100 * b + 4 * q + (s - e) \div 365
    BY SMT
  <2>7. (s - e) \div 365 = w
    BY <1>a, SMT
  <2>8. QED BY <2>5, <2>6, <2>7, SMT
<1>2. w \in 0..3 /\ s - 365 * w \in 0..365 /\ (s - 365 * w = 365 => s = 1460 /\ w = 3)
  BY <1>a, SMT
<1> HIDE DEF w, yoe
<1>3. yoe \in 0..399 /\ yoe \div 4 = 25 * b + q /\ yoe \div 100 = b
  BY <1>1, <1>2, <1>a, SMT
<1>4. DayOfYear(doe, yoe) = s - 365 * w
  BY <1>1, <1>2, <1>3, <1>a, SMT DEF DayOfYear
<1>5. ASSUME s = 1460, w = 3, NEW e \in Nat PROVE C!Leap(yoe + e * 400 + 1)
  <2> DEFINE y == yoe + e * 400 + 1
  <2>1. y \in Int /\ y = 100 * b + 4 * q + 4 + 400 * e
    BY <1>1, <1>5, SMT
  <2> HIDE DEF y
  <2>2. y % 4 = 0
    BY <2>1, SMT
  <2>3. q # 24 => y % 100 # 0
    BY <1>a, <2>1, SMT
  <2>4. q = 24 => y % 400 = 0
    BY <1>5, <1>a, <2>1, SMT
  <2>5. C!Leap(y)
    BY <2>2, <2>3, <2>4, SMT DEF C!Leap
  <2>6. QED BY <2>5 DEF y
<1>6. Fits(doe, yoe)
  BY <1>2, <1>3, <1>4, <1>5, SMT DEF Fits
<1>7. QED BY <1>6, SMT DEF yoe

LEMMA DayOfEra ==
  ASSUME NEW doe \in Int, 0 <= doe, doe <= 146096
  PROVE  Fits(doe, C!YearOfEra(doe))
<1>1. /\ OnDay(doe, Century(doe), Cycle(doe), CycleDay(doe))
      /\ Century(doe) \in Int /\ Cycle(doe) \in Int /\ CycleDay(doe) \in Int
  BY CyclesOfEra, SMT
<1>2. doe \in Int
  OBVIOUS
<1>3. QED BY ONLY <1>1, <1>2, YearOfCycles, Zenon

LEMMA CivilRight ==
  ASSUME NEW days \in Nat
  PROVE  LET c == C!CivilFromDays(days)
         IN  /\ c \in [year : Nat, mon : 1..12, mday : 1..31]
             /\ c.year >= 1970 /\ c.mday <= C!DaysIn(c.year, c.mon)
             /\ Days(c.year, c.mon, c.mday) = days
<1> DEFINE era == (days + 719468) \div 146097
           doe == (days + 719468) - era * 146097
<1>1. era \in Nat /\ doe \in Int /\ 0 <= doe /\ doe <= 146096 /\ days + 719468 = 146097 * era + doe
  BY SMT
<1> DEFINE yoe == C!YearOfEra(doe)
           doy == DayOfYear(doe, yoe)
           mp == (5 * doy + 2) \div 153
           m == IF mp < 10 THEN mp + 3 ELSE mp - 9
           d == doy - (153 * mp + 2) \div 5 + 1
           y == yoe + era * 400
           year == y + (IF m <= 2 THEN 1 ELSE 0)
<1>2. C!CivilFromDays(days) = [year |-> year, mon |-> m, mday |-> d]
  BY SMT DEF C!CivilFromDays, DayOfYear
<1> HIDE DEF era, doe
<1>3. yoe \in 0..399 /\ doy \in 0..365 /\ (doy = 365 => \A e \in Nat : C!Leap(yoe + e * 400 + 1))
  BY <1>1, DayOfEra, SMT DEF Fits
<1>4. doy = doe - (365 * yoe + yoe \div 4 - yoe \div 100)
  BY SMT DEF DayOfYear
<1> HIDE DEF yoe, doy
<1>5. /\ mp \in 0..11 /\ d \in 1..31 /\ (mp \in {1, 3, 6, 8} => d <= 30)
      /\ (mp = 11 => d <= 29 /\ (d = 29 => doy = 365))
  BY <1>3, MonthOfDay, SMT
<1>6. (153 * mp + 2) \div 5 \in Int /\ (153 * mp + 2) \div 5 + d - 1 = doy
  BY <1>3, <1>5, SMT
<1>7. y \in Nat /\ y \div 400 = era /\ y - era * 400 = yoe
  BY <1>1, <1>3, SMT
<1>8. doy = 365 => C!Leap(y + 1)
  BY <1>1, <1>3, SMT
<1> HIDE DEF mp, d, y
<1>9. /\ m \in 1..12 /\ year \in Nat /\ year = IF m <= 2 THEN y + 1 ELSE y
      /\ mp = IF m > 2 THEN m - 3 ELSE m + 9
  BY <1>5, <1>7, SMT
<1> HIDE DEF m, year
<1>10. d <= C!DaysIn(year, m)
  <2>1. CASE m = 2
    <3>1. mp = 11 /\ year = y + 1
      BY <1>9, <2>1, SMT
    <3>2. d <= 29 /\ (d = 29 => C!Leap(year))
      BY <1>5, <1>8, <3>1, SMT
    <3>3. QED BY <1>5, <2>1, <3>2, SMT DEF C!DaysIn
  <2>2. CASE m \in {4, 6, 9, 11}
    <3>1. mp \in {1, 3, 6, 8}
      BY <1>9, <2>2, SMT
    <3>2. QED BY <1>5, <2>2, <3>1, SMT DEF C!DaysIn
  <2>3. CASE m # 2 /\ m \notin {4, 6, 9, 11}
    BY <1>5, <2>3, SMT DEF C!DaysIn
  <2>4. QED BY <2>1, <2>2, <2>3, SMT
<1>11. C!DaysFromCivil(year, m, d) = days
  <2>1. (153 * (IF m > 2 THEN m - 3 ELSE m + 9) + 2) \div 5 + d - 1 = doy
    BY <1>6, <1>9, SMT
  <2>2. (IF m <= 2 THEN year - 1 ELSE year) = y
    BY <1>7, <1>9, SMT
  <2>3. C!DaysFromCivil(year, m, d) = era * 146097 + (yoe * 365 + yoe \div 4 - yoe \div 100 + doy) - 719468
    <3>1. LET k == (153 * (IF m > 2 THEN m - 3 ELSE m + 9) + 2) \div 5 + d - 1
          IN  C!DaysFromCivil(year, m, d) = era * 146097 + (yoe * 365 + yoe \div 4 - yoe \div 100 + k) - 719468
      BY <1>7, <2>2, SMT DEF C!DaysFromCivil
    <3>2. QED BY <2>1, <3>1, SMT
  <2>4. yoe \div 4 \in Int /\ yoe \div 100 \in Int
    BY <1>3, SMT
  <2>5. QED BY <1>1, <1>3, <1>4, <2>3, <2>4, SMT
<1>12. Days(year, m, d) = days
  BY <1>5, <1>9, <1>11, FromCivil, SMT
<1>13. year >= 1970
  <2>1. SUFFICES ASSUME year <= 1969 PROVE FALSE
    BY <1>9, SMT
  <2>2. LeapsTo(year - 1) <= 477 /\ LeapsTo(year - 1) \in Int
    BY <1>9, <2>1, SMT DEF LeapsTo
  <2>3. C!DaysBefore(year, m) \in 0..335 /\ (m = 12 \/ C!DaysBefore(year, m) <= 305)
    BY <1>9, DaysTable, SMT DEF C!DaysBefore
  <2>4. year = 1969 => C!DaysBefore(year, m) <= 334
    <3>1. ~C!Leap(1969)
      BY SMT DEF C!Leap
    <3>2. QED BY <1>9, <3>1, DaysTable, SMT DEF C!DaysBefore
  <2>5. days = (year - 1970) * 365 + LeapsTo(year - 1) - 477 + C!DaysBefore(year, m) + d - 1
    BY <1>12, SMT DEF Days
  <2>6. QED BY <1>5, <1>9, <2>1, <2>2, <2>3, <2>4, <2>5, SMT
<1>14. QED BY <1>2, <1>5, <1>9, <1>10, <1>12, <1>13, SMT

Units == /\ Minute \in Nat \ {0} /\ Hour \in Nat \ {0} /\ Day \in Nat \ {0}
         /\ Hour % Minute = 0 /\ Day % Hour = 0

\* As many hours as go into a day, and as many minutes as go into an hour.
LEMMA WholeUnits ==
  ASSUME Units
  PROVE  /\ Hour \div Minute \in Nat \ {0} /\ Minute * (Hour \div Minute) = Hour
         /\ Day \div Hour \in Nat \ {0} /\ Hour * (Day \div Hour) = Day
<1>1. ASSUME NEW a \in Nat \ {0}, NEW n \in Nat \ {0}, n % a = 0
      PROVE  n \div a \in Nat \ {0} /\ a * (n \div a) = n
  <2>1. n \div a \in Nat /\ n = a * (n \div a) + 0
    BY <1>1, DivisionParts
  <2> DEFINE q == n \div a
  <2>2. q \in Nat /\ n = a * q + 0
    BY <2>1
  <2> HIDE DEF q
  <2>3. q # 0 /\ a * q = n
    BY <1>1, <2>2
  <2>4. QED BY <2>2, <2>3 DEF q
<1>2. QED BY <1>1 DEF Units

LEMMA QuotientBelow ==
  ASSUME NEW a \in Nat \ {0}, NEW q \in Nat \ {0}, NEW x \in Nat, x < a * q
  PROVE  x \div a \in 0..(q - 1)
<1> DEFINE k == x \div a
           r == x % a
<1>1. k \in Nat /\ r \in Nat /\ x = a * k + r
  BY DivisionParts
<1> HIDE DEF k, r
<1>2. a * k < a * q /\ a * k \in Nat /\ a * q \in Nat
  BY <1>1
<1>3. k < q
  <2>1. ASSUME k >= q PROVE FALSE
    <3>1. PICK j \in Nat : k = q + j
      BY <1>1, <2>1
    <3>2. a * k = a * q + a * j /\ a * j \in Nat
      BY <1>1, <3>1
    <3>3. QED BY <1>2, <3>2
  <2>2. QED BY <1>1, <2>1
<1>4. QED BY <1>1, <1>3 DEF k

\* The hour, the minute and the second of so many seconds of a day.
LEMMA TimeOfDay ==
  ASSUME Units, NEW x \in Nat, x < Day
  PROVE  LET h == C!CDiv(x, Hour)
             m == C!CDiv(C!CMod(x, Hour), Minute)
             s == C!CMod(x, Minute)
         IN  /\ h \in 0..(Day \div Hour - 1) /\ m \in 0..(Hour \div Minute - 1)
             /\ s \in 0..(Minute - 1)
             /\ h * Hour + m * Minute + s = x
<1>1. /\ Minute \in Nat \ {0} /\ Hour \in Nat \ {0} /\ Day \in Nat \ {0}
  BY DEF Units
<1> DEFINE per == Hour \div Minute
           h == x \div Hour
           y == x % Hour
           m == y \div Minute
           s == y % Minute
<1>2. per \in Nat \ {0} /\ Minute * per = Hour
  BY WholeUnits
<1>3. Day \div Hour \in Nat \ {0} /\ Hour * (Day \div Hour) = Day
  BY WholeUnits
<1>4. h \in Nat /\ y \in Nat /\ y < Hour /\ x = Hour * h + y
  BY <1>1, DivisionParts
<1>5. h \in 0..(Day \div Hour - 1)
  BY <1>1, <1>3, QuotientBelow
<1> HIDE DEF h, y, per
<1>6. m \in Nat /\ s \in Nat /\ s < Minute /\ y = Minute * m + s
  BY <1>1, <1>4, DivisionParts
<1>7. m \in 0..(per - 1)
  BY <1>1, <1>2, <1>4, QuotientBelow
<1> HIDE DEF m, s
<1>8. C!CDiv(x, Hour) = h /\ C!CMod(x, Hour) = y
  BY <1>1, <1>4 DEF C!CDiv, C!CMod, h
<1>9. C!CDiv(y, Minute) = m
  BY <1>1, <1>4 DEF C!CDiv, m
<1>10. x = Minute * (per * h + m) + s
  <2>1. Hour * h = Minute * (per * h)
    BY <1>1, <1>2, <1>4
  <2>2. QED BY <1>1, <1>2, <1>4, <1>6, <2>1
<1>11. C!CMod(x, Minute) = s
  <2>1. x \div Minute = per * h + m
    <3> DEFINE q == per * h + m
    <3>1. q \in Nat
      BY <1>2, <1>4, <1>6
    <3>2. x = Minute * q + s
      BY <1>10
    <3> HIDE DEF q
    <3>3. QED BY <1>1, <1>6, <3>1, <3>2, DivisionUnique DEF q
  <2>2. C!CMod(x, Minute) = x - Minute * (per * h + m)
    BY <1>1, <2>1 DEF C!CMod, C!CDiv
  <2>3. Minute * (per * h + m) \in Nat
    BY <1>1, <1>2, <1>4, <1>6
  <2>4. QED BY <1>6, <1>10, <2>2, <2>3
<1>12. h * Hour + m * Minute + s = x
  BY <1>1, <1>4, <1>6
<1>13. C!CDiv(C!CMod(x, Hour), Minute) = m
  BY <1>8, <1>9, Zenon
<1>14. s \in 0..(Minute - 1)
  BY <1>1, <1>6
<1>15. m \in 0..(Hour \div Minute - 1)
  BY <1>7 DEF per
<1>16. QED BY <1>5, <1>8, <1>11, <1>12, <1>13, <1>14, <1>15, Zenon

\* Clock counts with the same Cardinality.
LEMMA SameCardinality == ASSUME NEW S PROVE C!Cardinality(S) = Cardinality(S)
BY DEF C!Cardinality, Cardinality

LeapsBefore(y) == C!Cardinality({x \in 1970..(y - 1) : C!Leap(x)})

LEMMA ElapsedDays ==
  ASSUME NEW t \in C!Dates, t.year >= 1970
  PROVE  /\ C!Elapsed(t) = Days(t.year, t.mon, t.mday) * Day + t.hour * Hour + t.min * Minute + t.sec
         /\ Days(t.year, t.mon, t.mday) \in Int
<1>1. t.year \in Nat /\ t.mon \in 1..12 /\ t.mday \in Int
  BY DEF C!Dates
<1>3. LeapsBefore(t.year) = LeapsTo(t.year - 1) - 477
  <2>1. LeapsBefore(t.year) = Cardinality({x \in 1970..(t.year - 1) : C!Leap(x)})
    BY SameCardinality, SMT DEF LeapsBefore
  <2>2. QED BY <1>1, <2>1, LeapYears
<1>4. LeapsTo(t.year - 1) \in Int /\ C!DaysBefore(t.year, t.mon) \in Int
  BY <1>1, DaysTable, SMT DEF LeapsTo, C!DaysBefore
<1>5. /\ (t.year - 1970) * 365 + (LeapsTo(t.year - 1) - 477) + C!DaysBefore(t.year, t.mon) + t.mday - 1
             = Days(t.year, t.mon, t.mday)
      /\ Days(t.year, t.mon, t.mday) \in Int
  BY <1>1, <1>4, SMT DEF Days
<1>6. C!Elapsed(t) = ((t.year - 1970) * 365 + LeapsBefore(t.year) + C!DaysBefore(t.year, t.mon) + t.mday - 1) * Day
                        + t.hour * Hour + t.min * Minute + t.sec
  BY SMT DEF C!Elapsed, LeapsBefore
<1>7. QED BY <1>3, <1>5, <1>6, SMT

\* date_to_epoch() is what the calendar says.
THEOREM ToEpoch ==
  ASSUME NEW t \in C!Dates, t.year >= 1970
  PROVE  C!DateToEpoch(t) = C!Elapsed(t)
<1>1. t.year \in Nat /\ t.mon \in 1..12 /\ t.mday \in Int
  BY DEF C!Dates
<1>2. C!DaysFromCivil(t.year, t.mon, t.mday) = Days(t.year, t.mon, t.mday)
  BY <1>1, FromCivil
<1>3. QED BY <1>2, ElapsedDays, SMT DEF C!DateToEpoch

\* And date_from_epoch() is the other way round, from 1970 on.
THEOREM FromEpoch ==
  ASSUME Units, NEW n \in Nat
  PROVE  /\ C!DateFromEpoch(n) \in C!Dates /\ C!Valid(C!DateFromEpoch(n))
         /\ C!Elapsed(C!DateFromEpoch(n)) = n
<1>1. Minute \in Nat \ {0} /\ Hour \in Nat \ {0} /\ Day \in Nat \ {0}
  BY DEF Units
<1> DEFINE c == C!CivilFromDays(C!CDiv(n, Day))
           x == C!CMod(n, Day)
           h == C!CDiv(x, Hour)
           m == C!CDiv(C!CMod(x, Hour), Minute)
           s == C!CMod(x, Minute)
           t == C!DateFromEpoch(n)
           days == C!CDiv(n, Day)
<1>2. t = [year |-> c.year, mon |-> c.mon, mday |-> c.mday, hour |-> h, min |-> m, sec |-> s]
  BY Zenon DEF C!DateFromEpoch
<1>3. days \in Nat /\ x \in Nat /\ x < Day /\ n = Day * days + x
  <2>1. days = n \div Day
    BY <1>1 DEF C!CDiv
  <2>2. x = n - Day * days
    BY DEF C!CMod
  <2>3. n \div Day \in Nat /\ n % Day \in Nat /\ n % Day < Day /\ n = Day * (n \div Day) + (n % Day)
    BY <1>1, DivisionParts
  <2> DEFINE p == Day * (n \div Day)
  <2>4. p \in Int
    BY <1>1, <2>3
  <2> HIDE DEF x, days, p
  <2>5. n = p + (n % Day) /\ x = n - p
    BY <2>1, <2>2, <2>3 DEF p
  <2>6. x = n % Day
    BY <2>3, <2>4, <2>5
  <2>7. QED BY <2>1, <2>3, <2>6
<1> HIDE DEF x, days
<1>4. /\ h \in 0..(Day \div Hour - 1) /\ m \in 0..(Hour \div Minute - 1) /\ s \in 0..(Minute - 1)
      /\ h * Hour + m * Minute + s = x
  BY <1>3, TimeOfDay
<1>5. /\ c \in [year : Nat, mon : 1..12, mday : 1..31]
      /\ c.year >= 1970 /\ c.mday <= C!DaysIn(c.year, c.mon)
      /\ Days(c.year, c.mon, c.mday) = days
  BY <1>3, CivilRight DEF days
<1> HIDE DEF c, h, m, s, t
<1>6. h \in Nat /\ m \in Nat /\ s \in Nat
  BY <1>4
<1>7. c.year \in Nat /\ c.mon \in 1..12 /\ c.mday \in 1..31
  BY <1>5
<1>8. /\ t.year = c.year /\ t.mon = c.mon /\ t.mday = c.mday
      /\ t.hour = h /\ t.min = m /\ t.sec = s /\ t \in C!Dates
  BY <1>2, <1>6, <1>7 DEF C!Dates
<1>9. C!DaysIn(t.year, t.mon) \in Nat
  BY DEF C!DaysIn
<1>10. t.mday \in 1..C!DaysIn(t.year, t.mon)
  BY <1>5, <1>7, <1>8, <1>9
<1>11. C!Valid(t)
  <2>1. t.hour \in 0..(Day \div Hour - 1) /\ t.min \in 0..(Hour \div Minute - 1) /\ t.sec \in 0..(Minute - 1)
    BY <1>4, <1>8
  <2>2. t.year >= 1970 /\ t.mon \in 1..12
    BY <1>5, <1>7, <1>8
  <2>3. QED BY <1>10, <2>1, <2>2, SMT DEF C!Valid
<1>12. C!DateToEpoch(t) = days * Day + h * Hour + m * Minute + s
  BY <1>5, <1>7, <1>8, FromCivil DEF C!DateToEpoch
<1>13. C!Elapsed(t) = n
  <2>1. days * Day + h * Hour + m * Minute + s = days * Day + x
    <3>1. days * Day \in Int /\ h * Hour \in Int /\ m * Minute \in Int
      BY <1>1, <1>3, <1>6
    <3>2. QED BY <1>3, <1>4, <1>6, <3>1
  <2>2. C!Elapsed(t) = C!DateToEpoch(t)
    BY <1>5, <1>8, ToEpoch
  <2>3. days * Day = Day * days
    BY <1>1, <1>3
  <2>4. QED BY <1>3, <1>12, <2>1, <2>2, <2>3
<1>14. QED BY <1>8, <1>11, <1>13 DEF t

\* A date with some of its fields changed is a date.
LEMMA ChangedDates ==
  ASSUME NEW t \in C!Dates
  PROVE  /\ t.mday + 1 \in 1..31 => [t EXCEPT !.mday = @ + 1] \in C!Dates
         /\ t.mon + 1 \in 1..12 => [t EXCEPT !.mday = 1, !.mon = @ + 1] \in C!Dates
         /\ [t EXCEPT !.mday = 1, !.mon = 1, !.year = @ + 1] \in C!Dates
         /\ [t EXCEPT !.sec = @ + 1] \in C!Dates
         /\ [t EXCEPT !.sec = 0, !.min = @ + 1] \in C!Dates
         /\ [t EXCEPT !.sec = 0, !.min = 0, !.hour = @ + 1] \in C!Dates
         /\ [t EXCEPT !.sec = 0, !.min = 0, !.hour = 0] \in C!Dates
<1>1. ASSUME NEW d \in 1..31, d = t.mday + 1 PROVE [t EXCEPT !.mday = @ + 1] \in C!Dates
  BY <1>1 DEF C!Dates
<1>2. ASSUME NEW d \in 1..31, NEW m \in 1..12, m = t.mon + 1
      PROVE  [t EXCEPT !.mday = d, !.mon = @ + 1] \in C!Dates
  BY <1>2 DEF C!Dates
<1>3. ASSUME NEW d \in 1..31, NEW m \in 1..12, NEW y \in Nat, y = t.year + 1
      PROVE  [t EXCEPT !.mday = d, !.mon = m, !.year = @ + 1] \in C!Dates
  BY <1>3 DEF C!Dates
<1>4. [t EXCEPT !.sec = @ + 1] \in C!Dates
  BY DEF C!Dates
<1>5. ASSUME NEW s \in Nat, NEW m \in Nat, m = t.min + 1
      PROVE  [t EXCEPT !.sec = s, !.min = @ + 1] \in C!Dates
  BY <1>5 DEF C!Dates
<1>6. ASSUME NEW s \in Nat, NEW m \in Nat, NEW h \in Nat, h = t.hour + 1
      PROVE  [t EXCEPT !.sec = s, !.min = m, !.hour = @ + 1] \in C!Dates
  BY <1>6 DEF C!Dates
<1>7. [t EXCEPT !.sec = 0, !.min = 0, !.hour = 0] \in C!Dates
  BY DEF C!Dates
<1>8. /\ 1 \in 1..31 /\ 1 \in 1..12 /\ 0 \in Nat
      /\ t.year + 1 \in Nat /\ t.min + 1 \in Nat /\ t.hour + 1 \in Nat
  BY DEF C!Dates
<1>9. QED BY <1>1, <1>2, <1>3, <1>4, <1>5, <1>6, <1>7, <1>8, Zenon

\* The day after: the next of the month, or the first of the next, or New Year.
LEMMA DayAfter ==
  ASSUME Hour \in Nat, Minute \in Nat, Day \in Nat, NEW t \in C!Dates, t.year >= 1970, t.mday <= C!DaysIn(t.year, t.mon), t.mday >= 1
  PROVE  LET u == C!NextDay(t)
         IN  /\ u \in C!Dates /\ u.year >= 1970 /\ u.mday \in 1..C!DaysIn(u.year, u.mon)
             /\ u.hour = t.hour /\ u.min = t.min /\ u.sec = t.sec
             /\ C!Elapsed(u) = C!Elapsed(t) + Day
<1> DEFINE y == t.year
           m == t.mon
           u == C!NextDay(t)
           dd == Days(y, m, t.mday)
<1>0. t \in C!Dates
  OBVIOUS
<1>1. y \in Nat /\ m \in 1..12 /\ t.mday \in 1..31 /\ t.hour \in Nat /\ t.min \in Nat /\ t.sec \in Nat
  BY DEF C!Dates
<1>2. C!DaysIn(y, m) \in 28..31
  BY DEF C!DaysIn
<1>3. C!DaysBefore(y, m) \in Int /\ LeapsTo(y - 1) \in Int /\ LeapsTo(y) \in Int
  BY <1>1, DaysTable, SMT DEF LeapsTo, C!DaysBefore
<1>4. dd = (y - 1970) * 365 + LeapsTo(y - 1) - 477 + C!DaysBefore(y, m) + t.mday - 1
  BY SMT DEF Days
<1>5. /\ u \in C!Dates /\ u.year >= 1970 /\ u.mday \in 1..C!DaysIn(u.year, u.mon)
      /\ u.hour = t.hour /\ u.min = t.min /\ u.sec = t.sec
      /\ Days(u.year, u.mon, u.mday) = dd + 1
  <2>1. CASE t.mday < C!DaysIn(y, m)
    <3>1. u = [t EXCEPT !.mday = @ + 1]
      BY <1>1, <1>2, <2>1 DEF C!NextDay
    <3>2. u.year = y /\ u.mon = m /\ u.mday = t.mday + 1 /\ u.hour = t.hour /\ u.min = t.min /\ u.sec = t.sec
      BY <3>1 DEF C!Dates
    <3>3. u.mday \in 1..31
      BY <1>1, <1>2, <2>1, <3>2
    <3>4. u \in C!Dates
      BY <3>1, <3>2, <3>3 DEF C!Dates
    <3>5. Days(u.year, u.mon, u.mday) = dd + 1
      BY <1>1, <1>3, <1>4, <3>2, SMT DEF Days
    <3>6. u.mday \in 1..C!DaysIn(u.year, u.mon)
      BY <1>1, <1>2, <2>1, <3>2
    <3>7. QED BY <3>2, <3>4, <3>5, <3>6
  <2>2. CASE t.mday = C!DaysIn(y, m) /\ m < 12
    <3>1. u = [t EXCEPT !.mday = 1, !.mon = @ + 1]
      BY <2>2, <1>2 DEF C!NextDay
    <3>2. u.year = y /\ u.mon = m + 1 /\ u.mday = 1 /\ u.hour = t.hour /\ u.min = t.min /\ u.sec = t.sec
      BY <3>1 DEF C!Dates
    <3>3. u.mon \in 1..12
      BY <1>1, <2>2, <3>2
    <3>4. u \in C!Dates
      <4>1. t.mon + 1 \in 1..12
        BY <3>2, <3>3
      <4>2. [t EXCEPT !.mday = 1, !.mon = @ + 1] \in C!Dates
        BY ONLY <1>0, <4>1, ChangedDates, Zenon
      <4> HIDE DEF u
      <4>3. QED BY <3>1, <4>2
    <3>a. C!DaysBefore(y, m + 1) = C!DaysBefore(y, m) + C!DaysIn(y, m)
      <4>1. m \in {1, 2, 3, 4, 5, 6, 7, 8, 9, 10, 11}
        BY <1>1, <2>2
      <4>2. QED BY <4>1, SMT DEF C!DaysBefore, C!DaysIn
    <3>5. Days(u.year, u.mon, u.mday) = dd + 1
      BY <1>1, <1>2, <1>3, <1>4, <2>2, <3>2, <3>a, SMT DEF Days
    <3>b. C!DaysIn(u.year, u.mon) \in 28..31
      BY DEF C!DaysIn
    <3>6. u.mday \in 1..C!DaysIn(u.year, u.mon)
      BY <3>2, <3>b
    <3>7. QED BY <3>2, <3>4, <3>5, <3>6
  <2>3. CASE t.mday = C!DaysIn(y, m) /\ m = 12
    <3>1. u = [t EXCEPT !.mday = 1, !.mon = 1, !.year = @ + 1]
      BY <2>3, <1>2 DEF C!NextDay
    <3>2. u.year = y + 1 /\ u.mon = 1 /\ u.mday = 1 /\ u.hour = t.hour /\ u.min = t.min /\ u.sec = t.sec
      BY <3>1 DEF C!Dates
    <3>4. u \in C!Dates
      <4>1. [t EXCEPT !.mday = 1, !.mon = 1, !.year = @ + 1] \in C!Dates
        BY ONLY <1>0, ChangedDates, Zenon
      <4> HIDE DEF u
      <4>2. QED BY <3>1, <4>1
    <3>a. C!DaysIn(y, m) = 31 /\ C!DaysBefore(y, m) = 334 + IF C!Leap(y) THEN 1 ELSE 0
      BY <2>3, SMT DEF C!DaysBefore, C!DaysIn
    <3>b. C!DaysBefore(y + 1, 1) = 0
      BY SMT DEF C!DaysBefore
    <3>c. LeapsTo(y) = LeapsTo(y - 1) + IF C!Leap(y) THEN 1 ELSE 0
      BY <1>1, LeapStep
    <3>d. Days(u.year, u.mon, u.mday) = ((y + 1) - 1970) * 365 + LeapsTo(y) - 477
      <4>1. (y + 1) - 1 = y
        BY <1>1
      <4>2. QED BY <1>1, <1>3, <3>2, <3>b, <4>1, SMT DEF Days
    <3>5. Days(u.year, u.mon, u.mday) = dd + 1
      BY <1>1, <1>3, <1>4, <2>3, <3>a, <3>c, <3>d, SMT
    <3>e. C!DaysIn(u.year, u.mon) \in 28..31
      BY DEF C!DaysIn
    <3>6. u.mday \in 1..C!DaysIn(u.year, u.mon) /\ u.year >= 1970
      BY <1>1, <3>2, <3>e
    <3>7. QED BY <3>2, <3>4, <3>5, <3>6
  <2>4. QED BY <1>1, <1>2, <2>1, <2>2, <2>3
<1> HIDE DEF u
<1>6. C!Elapsed(t) = dd * Day + t.hour * Hour + t.min * Minute + t.sec /\ dd \in Int
  BY ElapsedDays
<1> HIDE DEF dd
<1>7. C!Elapsed(u) = (dd + 1) * Day + t.hour * Hour + t.min * Minute + t.sec
  <2>1. C!Elapsed(u) = Days(u.year, u.mon, u.mday) * Day + u.hour * Hour + u.min * Minute + u.sec
    BY <1>5, ElapsedDays, SMT
  <2>2. QED BY <1>5, <2>1, SMT
<1>8. C!Elapsed(u) = C!Elapsed(t) + Day
  <2>1. (dd + 1) * Day = dd * Day + Day /\ dd * Day \in Int
    BY <1>6
  <2>2. t.hour * Hour \in Int /\ t.min * Minute \in Int
    BY <1>1
  <2>3. QED BY <1>1, <1>6, <1>7, <2>1, <2>2
<1>9. QED BY <1>5, <1>8 DEF u

\* The second after, and the same date a second on.
LEMMA SecondAfter ==
  ASSUME Units, NEW t \in C!Dates, C!Valid(t)
  PROVE  /\ C!NextSecond(t) \in C!Dates /\ C!Valid(C!NextSecond(t))
         /\ C!Elapsed(C!NextSecond(t)) = C!Elapsed(t) + 1
<1> DEFINE u == C!NextSecond(t)
           mm == Hour \div Minute
           hh == Day \div Hour
<1>1. /\ Minute \in Nat \ {0} /\ Hour \in Nat \ {0} /\ Day \in Nat \ {0}
      /\ mm \in Nat \ {0} /\ Minute * mm = Hour /\ hh \in Nat \ {0} /\ Hour * hh = Day
  BY WholeUnits DEF Units
<1>2. /\ t.year >= 1970 /\ t.year \in Nat /\ t.mon \in 1..12 /\ t.mday \in 1..C!DaysIn(t.year, t.mon)
      /\ t.hour \in 0..(hh - 1) /\ t.min \in 0..(mm - 1) /\ t.sec \in 0..(Minute - 1)
  BY DEF C!Valid, C!Dates
<1> DEFINE dd == Days(t.year, t.mon, t.mday)
<1>3. C!Elapsed(t) = dd * Day + t.hour * Hour + t.min * Minute + t.sec /\ dd \in Int
  BY <1>2, ElapsedDays, SMT
<1> HIDE DEF dd, mm, hh
<1>4. /\ dd * Day \in Int /\ t.hour * Hour \in Int /\ t.min * Minute \in Int
      /\ (t.hour + 1) * Hour = t.hour * Hour + Hour /\ (t.min + 1) * Minute = t.min * Minute + Minute
      /\ (mm - 1) * Minute = Hour - Minute /\ (hh - 1) * Hour = Day - Hour
  BY <1>1, <1>2, <1>3
\* The date stays.
<1>5. ASSUME NEW h \in 0..(hh - 1), NEW m \in 0..(mm - 1), NEW s \in 0..(Minute - 1),
             u \in C!Dates, u.year = t.year, u.mon = t.mon, u.mday = t.mday,
             u.hour = h, u.min = m, u.sec = s,
             h * Hour + m * Minute + s = t.hour * Hour + t.min * Minute + t.sec + 1
      PROVE  C!Valid(u) /\ C!Elapsed(u) = C!Elapsed(t) + 1
  <2>1. u.year >= 1970
    BY <1>2, <1>5
  <2>2. C!Elapsed(u) = dd * Day + h * Hour + m * Minute + s
    <3>1. C!Elapsed(u) = Days(u.year, u.mon, u.mday) * Day + u.hour * Hour + u.min * Minute + u.sec
      BY <1>5, <2>1, ElapsedDays, SMT
    <3>2. QED BY <1>5, <3>1 DEF dd
  <2>3. h * Hour \in Int /\ m * Minute \in Int
    BY <1>1
  <2>4. C!Elapsed(u) = C!Elapsed(t) + 1
    BY <1>2, <1>3, <1>4, <1>5, <2>2, <2>3
  <2>5. C!Valid(u)
    BY <1>2, <1>5, SMT DEF C!Valid, hh, mm
  <2>6. QED BY <2>4, <2>5
<1>6. CASE t.sec < Minute - 1
  <2>1. u = [t EXCEPT !.sec = @ + 1]
    BY <1>1, <1>2, <1>6 DEF C!NextSecond, mm
  <2>2. [t EXCEPT !.sec = @ + 1] \in C!Dates
    BY ChangedDates, Zenon
  <2>3. /\ u.year = t.year /\ u.mon = t.mon /\ u.mday = t.mday /\ u.hour = t.hour
        /\ u.min = t.min /\ u.sec = t.sec + 1
    BY <2>1 DEF C!Dates
  <2>4. t.sec + 1 \in 0..(Minute - 1)
    BY <1>1, <1>2, <1>6
  <2>5. t.hour * Hour + t.min * Minute + (t.sec + 1) = t.hour * Hour + t.min * Minute + t.sec + 1
    BY <1>2, <1>4
  <2> HIDE DEF u
  <2>6. u \in C!Dates
    BY <2>1, <2>2
  <2>7. QED BY <1>2, <1>5, <2>3, <2>4, <2>5, <2>6 DEF u
<1>7. CASE t.sec = Minute - 1 /\ t.min < mm - 1
  <2>1. u = [t EXCEPT !.sec = 0, !.min = @ + 1]
    BY <1>1, <1>2, <1>7 DEF C!NextSecond, mm
  <2>2. [t EXCEPT !.sec = 0, !.min = @ + 1] \in C!Dates
    BY ChangedDates, Zenon
  <2>3. /\ u.year = t.year /\ u.mon = t.mon /\ u.mday = t.mday /\ u.hour = t.hour
        /\ u.min = t.min + 1 /\ u.sec = 0
    BY <2>1 DEF C!Dates
  <2>4. t.min + 1 \in 0..(mm - 1) /\ 0 \in 0..(Minute - 1)
    BY <1>1, <1>2, <1>7
  <2>5. t.hour * Hour + (t.min + 1) * Minute + 0 = t.hour * Hour + t.min * Minute + t.sec + 1
    BY <1>1, <1>2, <1>4, <1>7
  <2> HIDE DEF u
  <2>6. u \in C!Dates
    BY <2>1, <2>2
  <2>7. QED BY <1>2, <1>5, <2>3, <2>4, <2>5, <2>6 DEF u
<1>8. CASE t.sec = Minute - 1 /\ t.min = mm - 1 /\ t.hour < hh - 1
  <2>1. u = [t EXCEPT !.sec = 0, !.min = 0, !.hour = @ + 1]
    BY <1>1, <1>2, <1>8 DEF C!NextSecond, mm, hh
  <2>2. [t EXCEPT !.sec = 0, !.min = 0, !.hour = @ + 1] \in C!Dates
    BY ChangedDates, Zenon
  <2>3. /\ u.year = t.year /\ u.mon = t.mon /\ u.mday = t.mday /\ u.hour = t.hour + 1
        /\ u.min = 0 /\ u.sec = 0
    BY <2>1 DEF C!Dates
  <2>4. t.hour + 1 \in 0..(hh - 1) /\ 0 \in 0..(mm - 1) /\ 0 \in 0..(Minute - 1)
    BY <1>1, <1>2, <1>8
  <2>5. (t.hour + 1) * Hour + 0 * Minute + 0 = t.hour * Hour + t.min * Minute + t.sec + 1
    <3>1. t.min * Minute = Hour - Minute
      BY <1>1, <1>4, <1>8
    <3>2. 0 * Minute = 0
      BY <1>1
    <3>3. QED BY <1>1, <1>2, <1>4, <1>8, <3>1, <3>2
  <2> HIDE DEF u
  <2>6. u \in C!Dates
    BY <2>1, <2>2
  <2>7. QED BY <1>2, <1>5, <2>3, <2>4, <2>5, <2>6 DEF u
<1>9. CASE t.sec = Minute - 1 /\ t.min = mm - 1 /\ t.hour = hh - 1
  <2> DEFINE v == [t EXCEPT !.sec = 0, !.min = 0, !.hour = 0]
  <2>1. u = C!NextDay(v)
    <3>1. ~(t.sec < Minute - 1) /\ ~(t.min < Hour \div Minute - 1) /\ ~(t.hour < Day \div Hour - 1)
      BY <1>1, <1>2, <1>9 DEF mm, hh
    <3>2. QED BY <3>1, Zenon DEF C!NextSecond
  <2>2. /\ v \in C!Dates /\ v.year = t.year /\ v.mon = t.mon /\ v.mday = t.mday
        /\ v.hour = 0 /\ v.min = 0 /\ v.sec = 0
    BY DEF C!Dates
  <2> HIDE DEF v, u
  <2>3. v.year >= 1970 /\ v.mday >= 1 /\ v.mday <= C!DaysIn(v.year, v.mon)
    <3>1. C!DaysIn(t.year, t.mon) \in Int
      BY DEF C!DaysIn
    <3>2. t.mday >= 1 /\ t.mday <= C!DaysIn(t.year, t.mon)
      BY <1>2, <3>1
    <3>3. QED BY <1>2, <2>2, <3>2
  <2>4. /\ u \in C!Dates /\ u.year >= 1970 /\ u.mday \in 1..C!DaysIn(u.year, u.mon)
        /\ u.hour = 0 /\ u.min = 0 /\ u.sec = 0 /\ C!Elapsed(u) = C!Elapsed(v) + Day
    BY <1>1, <2>1, <2>2, <2>3, DayAfter
  <2>5. C!Valid(u)
    <3>1. 0 \in 0..(hh - 1) /\ 0 \in 0..(mm - 1) /\ 0 \in 0..(Minute - 1) /\ u.mon \in 1..12
      BY <1>1, <2>4 DEF C!Dates
    <3>2. QED BY <2>4, <3>1, SMT DEF C!Valid, mm, hh
  <2>6. C!Elapsed(v) = dd * Day + 0 * Hour + 0 * Minute + 0
    <3>1. C!Elapsed(v) = Days(v.year, v.mon, v.mday) * Day + v.hour * Hour + v.min * Minute + v.sec
      BY <2>2, <2>3, ElapsedDays, SMT
    <3>2. QED BY <2>2, <3>1 DEF dd
  <2>7. t.hour * Hour + t.min * Minute + t.sec + 1 = Day
    <3>1. t.min * Minute = Hour - Minute /\ t.hour * Hour = Day - Hour
      BY <1>1, <1>4, <1>9
    <3>2. QED BY <1>1, <1>2, <1>4, <1>9, <3>1
  <2>8. C!Elapsed(v) = dd * Day
    BY <1>1, <1>4, <2>6
  <2>9. C!Elapsed(u) = C!Elapsed(t) + 1
    <3>1. dd * Day \in Int /\ t.hour * Hour \in Int /\ t.min * Minute \in Int /\ t.sec \in Int
      BY <1>2, <1>4
    <3>2. C!Elapsed(t) + 1 = dd * Day + (t.hour * Hour + t.min * Minute + t.sec + 1)
      BY <1>3, <3>1
    <3>3. C!Elapsed(u) = dd * Day + Day
      BY <2>4, <2>8
    <3>4. QED BY <2>7, <3>2, <3>3
  <2>10. QED BY <2>4, <2>5, <2>9 DEF u
<1>10. QED BY <1>1, <1>2, <1>6, <1>7, <1>8, <1>9

\* Seconds since 1970 are not negative.
LEMMA ElapsedNat ==
  ASSUME Units, NEW t \in C!Dates, t.year >= 1970, t.mday >= 1
  PROVE  C!Elapsed(t) \in Nat
<1>1. Minute \in Nat /\ Hour \in Nat /\ Day \in Nat
  BY DEF Units
<1>2. t.year \in Nat /\ t.mon \in 1..12 /\ t.mday \in Nat /\ t.hour \in Nat /\ t.min \in Nat /\ t.sec \in Nat
  BY DEF C!Dates
<1>3. LeapsTo(t.year - 1) >= 477 /\ LeapsTo(t.year - 1) \in Int
  BY <1>2, SMT DEF LeapsTo
<1>4. C!DaysBefore(t.year, t.mon) \in Nat
  BY <1>2, DaysTable, SMT DEF C!DaysBefore
<1>5. Days(t.year, t.mon, t.mday) \in Nat
  BY <1>2, <1>3, <1>4, SMT DEF Days
<1>6. C!Elapsed(t) = Days(t.year, t.mon, t.mday) * Day + t.hour * Hour + t.min * Minute + t.sec
  BY ElapsedDays, SMT
<1>7. \A a, b \in Nat : a * b \in Nat
  OBVIOUS
<1>8. /\ Days(t.year, t.mon, t.mday) * Day \in Nat /\ t.hour * Hour \in Nat /\ t.min * Minute \in Nat
  BY <1>1, <1>2, <1>5, <1>7
<1>9. QED BY <1>2, <1>6, <1>8, SMT

-----------------------------------------------------------------------------
(* Clock                                                                    *)

\* A time_t holds what is within its range, and counts from the other end on.
LEMMA TimeIs ==
  ASSUME Half \in Nat \ {0}, NEW x \in Int
  PROVE  /\ C!Time(x) \in -Half..(Half - 1)
         /\ x >= -Half /\ x < Half => C!Time(x) = x
         /\ x >= Half /\ x < 3 * Half => C!Time(x) = x - 2 * Half
<1> DEFINE w == 2 * Half
           z == x + Half
<1>1. w \in Nat \ {0} /\ z \in Int /\ w = 2 * Half /\ z = x + Half
  OBVIOUS
<1>2. C!Time(x) = (z % w) - Half
  BY DEF C!Time
<1> HIDE DEF w, z
<1>3. z % w \in Int /\ z % w >= 0 /\ z % w < w
  BY <1>1
<1>4. C!Time(x) \in -Half..(Half - 1)
  BY <1>1, <1>2, <1>3
<1>5. ASSUME x >= -Half, x < Half PROVE C!Time(x) = x
  <2>1. z \in Nat /\ z < w
    BY <1>1, <1>5
  <2>2. z % w = z
    BY <1>1, <2>1
  <2>3. QED BY <1>1, <1>2, <2>2
<1>6. ASSUME x >= Half, x < 3 * Half PROVE C!Time(x) = x - 2 * Half
  <2>1. z \in Nat /\ z >= w /\ z < 2 * w
    BY <1>1, <1>6
  <2>2. z % w = z - w
    <3>1. z % w = IF z < w THEN z ELSE z - w
      BY <1>1, <2>1, RemainderOnce, Zenon
    <3>2. QED BY <1>1, <2>1, <3>1
  <2>3. QED BY <1>1, <1>2, <2>2
<1>7. QED BY <1>4, <1>5, <1>6

\* What the RTC says, in seconds since 1970.
Says == C!Elapsed(rtc)

\* The clocks go on by the seconds that pass, unless this program sets them.
Going == /\ job.what # "w" => Says = C!Elapsed(job.rtc) + ticks
         /\ job.what # "s" => sys = job.sys + ticks
         /\ rtc \in C!Dates /\ C!Valid(rtc) /\ Says \in Nat
         /\ ticks \in 0..MaxTicks /\ lag \in 0..ticks /\ sys \in Int

\* What has been read lies lag seconds back.
HasRead == Says - lag \in Nat /\ now = C!Time(Says - lag)

\* Which step is whose.
Whose == /\ pc \in {"show", "disable"} => job.what \in {"alarm", "disable"}
         /\ pc = "read rtc" => job.what \in {"show", "s", "no", "mem"}
         /\ pc = "set sys" => job.what = "s"
         /\ pc \in {"read sys", "set rtc"} => job.what = "w"
         /\ pc \in {"choose", "arm", "suspend", "asleep"} => C!Wakes
         /\ exit \in {"ok", "past"} => pc = "done"
         /\ exit = "past" => C!Wakes

\* hwclock, between its reading and its setting, and after.
Agreed == /\ pc = "set sys" => HasRead
          /\ pc = "set rtc" => now >= 0 /\ sys - now = lag
          /\ C!ClocksAgree

\* rtcwake: the time that was chosen is the one asked for.
Chosen == IF job.seconds # 0 THEN when = now + job.seconds
          ELSE job.epoch - (sys + when - Says) \in 0..lag
Armed == /\ pc \in {"choose", "arm", "suspend"} => HasRead
         /\ pc \in {"arm", "suspend", "asleep"} => now >= 0 /\ when > now /\ Chosen
         /\ pc \in {"start", "read rtc", "choose", "arm"} => ~alarm.on
         /\ alarm.on => C!Elapsed(alarm.time) = when /\ Chosen
         /\ pc \in {"suspend", "asleep"} => alarm.on \/ now + lag >= when
         /\ exit = "past" => \/ job.seconds = 0 /\ job.epoch <= sys
                             \/ now + job.seconds >= Half
                             \/ now + (job.epoch - sys) >= Half - ticks

ClockInv == /\ job \in ClockJobs /\ C!TypeOK /\ alarm = [on |-> alarm.on, time |-> alarm.time]
            /\ Going /\ Whose /\ Agreed
            /\ C!Wakes /\ C!InRange => Armed

\* What is known of a job.
LEMMA ClockConstants ==
  ASSUME C!ClockAssumption
  PROVE  /\ Units /\ Half \in Nat \ {0} /\ MaxTicks \in Nat
         /\ \A j \in ClockJobs :
               /\ j.what \in {"show", "s", "w", "alarm", "disable", "no", "mem"}
               /\ j.seconds \in 0..(2 * Half - 1) /\ j.epoch \in 0..(2 * Half - 1)
               /\ j.rtc \in C!Dates /\ C!Valid(j.rtc) /\ C!Elapsed(j.rtc) + MaxTicks < 2 * Half
               /\ j.sys \in -Half..(Half - 1 - MaxTicks) /\ (j.what # "w" => j.sys >= 0)
<1>1. Units /\ Half \in Nat \ {0} /\ MaxTicks \in Nat
  BY DEF C!ClockAssumption, Units
<1>2. QED BY <1>1, Zenon DEF C!ClockAssumption

LEMMA ValidElapsed ==
  ASSUME Units, NEW t \in C!Dates, C!Valid(t)
  PROVE  C!Elapsed(t) \in Nat
<1>1. t.year >= 1970 /\ t.mday \in 1..C!DaysIn(t.year, t.mon)
  BY SMT DEF C!Valid
<1>2. C!DaysIn(t.year, t.mon) \in Int
  BY DEF C!DaysIn
<1>3. t.mday >= 1
  BY <1>1, <1>2, SMT
<1>4. QED BY <1>1, <1>3, ElapsedNat, SMT

\* What follows of the clocks, whatever the program does with them.
LEMMA ClockBounds ==
  ASSUME C!ClockAssumption, ClockInv
  PROVE  /\ Half \in Nat \ {0} /\ Says \in Nat /\ sys \in Int /\ lag \in Nat /\ now \in Int
         /\ job.what # "w" => Says < 2 * Half
         /\ job.what # "s" => sys >= -Half /\ sys < Half
         /\ C!Wakes => sys >= 0 /\ job.what # "w" /\ job.what # "s"
         /\ job.seconds \in 0..(2 * Half - 1) /\ job.epoch \in 0..(2 * Half - 1)
<1>1. /\ job \in ClockJobs /\ Says \in Nat /\ ticks \in 0..MaxTicks /\ lag \in 0..ticks /\ sys \in Int
      /\ job.what # "w" => Says = C!Elapsed(job.rtc) + ticks
      /\ job.what # "s" => sys = job.sys + ticks
  BY DEF ClockInv, Going
<1>2. /\ Units /\ Half \in Nat \ {0} /\ MaxTicks \in Nat
      /\ job.seconds \in 0..(2 * Half - 1) /\ job.epoch \in 0..(2 * Half - 1)
      /\ job.rtc \in C!Dates /\ C!Valid(job.rtc) /\ C!Elapsed(job.rtc) + MaxTicks < 2 * Half
      /\ job.sys \in -Half..(Half - 1 - MaxTicks) /\ (job.what # "w" => job.sys >= 0)
  BY <1>1, ClockConstants
<1>3. C!Elapsed(job.rtc) \in Nat
  BY <1>2, ValidElapsed
<1>4. C!Wakes => job.what # "w" /\ job.what # "s"
  BY DEF C!Wakes
<1>5. now \in Int
  <2>1. now \in -Half..(Half - 1)
    BY DEF ClockInv, C!TypeOK
  <2>2. QED BY <1>2, <2>1
<1>6. QED BY <1>1, <1>2, <1>3, <1>4, <1>5

LEMMA ClockInit == ASSUME C!ClockAssumption, C!Init PROVE ClockInv
<1>1. /\ job \in ClockJobs /\ sys = job.sys /\ rtc = job.rtc
      /\ alarm = [on |-> job.what \in {"alarm", "disable"}, time |-> C!NextSecond(job.rtc)]
      /\ pc = "start" /\ now = 0 /\ when = 0 /\ lag = 0 /\ ticks = 0
  BY DEF C!Init
<1>2. exit # "ok" /\ exit # "past"
  BY Zenon DEF C!Init
<1>3. /\ Units /\ Half \in Nat \ {0} /\ MaxTicks \in Nat
      /\ job.rtc \in C!Dates /\ C!Valid(job.rtc) /\ job.sys \in -Half..(Half - 1 - MaxTicks)
  BY <1>1, ClockConstants
<1>4. C!Elapsed(rtc) \in Nat
  BY <1>1, <1>3, ValidElapsed
<1>5. C!Valid(C!NextSecond(job.rtc))
  BY <1>3, SecondAfter
<1>6. sys \in Int
  BY <1>1, <1>3
<1>7. C!TypeOK
  <2>1. now \in -Half..(Half - 1) /\ when \in -Half..(Half - 1)
    BY <1>1, <1>3
  <2>2. C!Valid(rtc) /\ C!Valid(alarm.time) /\ alarm.on \in BOOLEAN
    BY <1>1, <1>3, <1>5
  <2>3. QED BY <1>1, <1>6, <2>1, <2>2 DEF C!TypeOK
<1>8. Going
  BY <1>1, <1>3, <1>4, <1>6 DEF Going, Says
<1>9. Whose /\ Agreed
  BY <1>1, <1>2 DEF Whose, Agreed, C!ClocksAgree
<1>10. C!Wakes => Armed
  BY <1>1, <1>2 DEF Armed, C!Wakes
<1>11. alarm = [on |-> alarm.on, time |-> alarm.time]
  BY <1>1
<1>12. QED BY <1>1, <1>7, <1>8, <1>9, <1>10, <1>11 DEF ClockInv

\* A second passes.
LEMMA ClockTicks ==
  ASSUME C!ClockAssumption, ClockInv, C!Tick
  PROVE  /\ ticks' = ticks + 1 /\ ticks < MaxTicks /\ sys' = sys + 1 /\ Says' = Says + 1
         /\ rtc' \in C!Dates /\ C!Valid(rtc')
         /\ lag' = IF pc \in {"asleep", "done"} THEN lag ELSE lag + 1
         /\ job' = job /\ now' = now /\ when' = when
         /\ alarm'.time = alarm.time /\ alarm'.on \in BOOLEAN
         /\ alarm' = [on |-> alarm'.on, time |-> alarm'.time]
         /\ \/ /\ alarm'.on = alarm.on /\ pc' = pc /\ exit' = exit
            \/ /\ alarm.on /\ ~alarm'.on /\ rtc' = alarm.time
               /\ IF pc = "asleep" THEN pc' = "done" /\ exit' = "ok" ELSE pc' = pc /\ exit' = exit
<1>1. /\ ticks' = ticks + 1 /\ ticks < MaxTicks /\ sys' = sys + 1 /\ rtc' = C!NextSecond(rtc)
      /\ lag' = IF pc \in {"asleep", "done"} THEN lag ELSE lag + 1
      /\ job' = job /\ now' = now /\ when' = when
  BY DEF C!Tick
<1>2. rtc \in C!Dates /\ C!Valid(rtc) /\ Units /\ alarm.on \in BOOLEAN
  BY ClockConstants DEF ClockInv, Going, C!TypeOK
<1>3. rtc' \in C!Dates /\ C!Valid(rtc') /\ Says' = Says + 1
  BY <1>1, <1>2, SecondAfter DEF Says
<1> DEFINE off == alarm.on /\ rtc' = alarm.time
<1>4. alarm = [on |-> alarm.on, time |-> alarm.time]
  BY DEF ClockInv
<1>5. alarm' = [alarm EXCEPT !.on = @ /\ ~off]
  BY DEF C!Tick
<1>6. alarm' = [on |-> alarm.on /\ ~off, time |-> alarm.time]
  <2> DEFINE stays == alarm.on /\ ~off
             goes == alarm.on
             at0 == alarm.time
  <2>1. alarm = [on |-> goes, time |-> at0] /\ alarm' = [alarm EXCEPT !.on = stays]
    BY <1>4, <1>5
  <2> HIDE DEF stays, goes, at0
  <2>2. alarm' = [on |-> stays, time |-> at0]
    BY <2>1
  <2>3. QED BY <2>2 DEF stays, at0
<1>7. IF off /\ pc = "asleep" THEN pc' = "done" /\ exit' = "ok" ELSE pc' = pc /\ exit' = exit
  BY DEF C!Tick, C!End
<1>8. QED
  <2>1. alarm'.time = alarm.time /\ alarm'.on = (alarm.on /\ ~off)
    BY <1>6
  <2>2. alarm' = [on |-> alarm'.on, time |-> alarm'.time]
    BY <1>6, <2>1
  <2>3. CASE off
    BY <1>1, <1>2, <1>3, <1>7, <2>1, <2>2, <2>3
  <2>4. CASE ~off
    <3>1. alarm'.on = alarm.on
      BY <1>2, <2>1, <2>4
    <3>2. pc' = pc /\ exit' = exit
      BY <1>7, <2>4
    <3>3. QED BY <1>1, <1>2, <1>3, <2>1, <2>2, <3>1, <3>2
  <2>5. QED BY <2>3, <2>4

LEMMA ClockGoing == ASSUME C!ClockAssumption, ClockInv, C!Next PROVE Going'
<1>1. Going /\ Whose /\ now \in Int /\ MaxTicks \in Nat /\ Units
  <2>1. Going /\ Whose /\ now \in -Half..(Half - 1)
    BY DEF ClockInv, C!TypeOK
  <2>2. MaxTicks \in Nat /\ Units /\ Half \in Nat
    BY ClockConstants
  <2>3. QED BY <2>1, <2>2
<1>2. CASE C!Tick
  <2>1. Going' <=> /\ job.what # "w" => Says' = C!Elapsed(job.rtc) + ticks'
                   /\ job.what # "s" => sys' = job.sys + ticks'
                   /\ rtc' \in C!Dates /\ C!Valid(rtc') /\ Says' \in Nat
                   /\ ticks' \in 0..MaxTicks /\ lag' \in 0..(ticks') /\ sys' \in Int
    BY <1>2, ClockTicks DEF Going
  <2>2. rtc' \in C!Dates /\ C!Valid(rtc') /\ Says' \in Nat
    BY <1>1, <1>2, ClockTicks DEF Going
  <2>3. ticks' \in 0..MaxTicks /\ lag' \in 0..(ticks') /\ sys' \in Int
    BY <1>1, <1>2, ClockTicks DEF Going
  <2>4. job.what # "s" => sys' = job.sys + ticks'
    <3>1. CASE job.what # "s"
      <4>1. sys = job.sys + ticks /\ sys \in Int /\ ticks \in Int
        BY <1>1, <3>1 DEF Going
      <4>2. job.sys \in Int
        BY ClockConstants DEF ClockInv
      <4>3. QED BY <1>2, <4>1, <4>2, ClockTicks
    <3>2. QED BY <3>1
  <2>5. job.what # "w" => Says' = C!Elapsed(job.rtc) + ticks'
    <3>1. C!Elapsed(job.rtc) \in Nat
      BY ClockConstants, ValidElapsed DEF ClockInv
    <3>2. QED BY <1>1, <1>2, <3>1, ClockTicks DEF Going
  <2>6. QED BY <2>1, <2>2, <2>3, <2>4, <2>5
<1>3. CASE C!SetSystem
  <2>1. /\ sys' = now /\ job' = job /\ rtc' = rtc /\ ticks' = ticks /\ lag' = lag /\ pc = "set sys"
    BY <1>3 DEF C!SetSystem
  <2>2. QED BY <1>1, <2>1 DEF Going, Whose, Says
<1>4. CASE C!SetRtc
  <2>1. /\ pc = "set rtc" /\ rtc' = C!DateFromEpoch(now) /\ job' = job /\ sys' = sys /\ ticks' = ticks /\ lag' = lag
    BY <1>4 DEF C!SetRtc
  <2>2. now \in Nat
    <3>1. now >= 0
      BY <2>1 DEF ClockInv, Agreed
    <3>2. QED BY <1>1, <3>1
  <2>3. rtc' \in C!Dates /\ C!Valid(rtc') /\ C!Elapsed(rtc') \in Nat
    BY <1>1, <2>1, <2>2, FromEpoch
  <2>4. QED BY <1>1, <2>1, <2>3 DEF Going, Whose, Says
<1>5. CASE C!ReadRtc \/ C!ReadSystem
  <2>1. job' = job /\ sys' = sys /\ rtc' = rtc /\ ticks' = ticks /\ lag' = 0
    BY <1>5 DEF C!ReadRtc, C!ReadSystem
  <2>2. QED BY <1>1, <2>1 DEF Going, Says
<1>6. CASE UNCHANGED <<job, sys, rtc, lag, ticks>>
  BY <1>1, <1>6 DEF Going, Says
<1>7. QED BY <1>2, <1>3, <1>4, <1>5, <1>6 DEF C!Next, C!RtcStep, C!Refuse, C!Open, C!Fails, C!ShowAlarm,
        C!DisableAlarm, C!Choose, C!SetAlarm, C!Suspend

LEMMA ClockTypes ==
  ASSUME C!ClockAssumption, ClockInv, C!Next
  PROVE  C!TypeOK' /\ job' \in ClockJobs /\ alarm' = [on |-> alarm'.on, time |-> alarm'.time]
<1>1. C!TypeOK /\ job \in ClockJobs /\ alarm = [on |-> alarm.on, time |-> alarm.time]
  BY DEF ClockInv
<1>2. Half \in Nat \ {0} /\ Units
  BY ClockConstants
<1>3. job' = job
  BY DEF C!Next, C!RtcStep, C!Tick, C!Refuse, C!Open, C!Fails, C!ShowAlarm, C!DisableAlarm, C!ReadRtc,
         C!SetSystem, C!ReadSystem, C!SetRtc, C!Choose, C!SetAlarm, C!Suspend
<1>4. sys' \in Int /\ C!Valid(rtc')
  BY ClockGoing DEF Going
<1>5. pc' \in {"start", "show", "disable", "read rtc", "set sys", "read sys", "set rtc",
               "choose", "arm", "suspend", "asleep", "done"}
  BY <1>1 DEF C!TypeOK, ClockInv, Whose, C!Next, C!RtcStep, C!Tick, C!Refuse, C!Open, C!Fails, C!ShowAlarm,
         C!DisableAlarm, C!ReadRtc, C!SetSystem, C!ReadSystem, C!SetRtc, C!Choose, C!SetAlarm, C!Suspend,
         C!End, C!Goes, C!Wakes
<1>6. now' \in -Half..(Half - 1)
  <2>1. CASE C!ReadRtc
    <3>1. rtc \in C!Dates /\ rtc.year >= 1970
      BY SMT DEF ClockInv, Going, C!Valid
    <3>2. C!DateToEpoch(rtc) = Says /\ Says \in Int
      BY <3>1, ToEpoch, SMT DEF Says, ClockInv, Going
    <3>3. now' = C!Time(Says)
      BY <2>1, <3>2 DEF C!ReadRtc
    <3>4. QED BY <1>2, <3>2, <3>3, TimeIs
  <2>2. CASE C!ReadSystem
    <3>1. now' = sys /\ job.what = "w"
      BY <2>2 DEF C!ReadSystem, ClockInv, Whose
    <3>2. QED BY <1>2, <3>1, ClockBounds
  <2>3. CASE now' = now
    BY <1>1, <2>3 DEF C!TypeOK
  <2>4. QED BY <2>1, <2>2, <2>3 DEF C!Next, C!RtcStep, C!Tick, C!Refuse, C!Open, C!Fails, C!ShowAlarm,
          C!DisableAlarm, C!SetSystem, C!SetRtc, C!Choose, C!SetAlarm, C!Suspend
<1>7. when' \in -Half..(Half - 1)
  <2>1. CASE C!Choose
    <3>1. now \in Int /\ job.seconds \in Int /\ job.epoch \in Int /\ sys \in Int
      <4>1. now \in -Half..(Half - 1) /\ sys \in Int
        BY <1>1 DEF C!TypeOK
      <4>2. job.seconds \in 0..(2 * Half - 1) /\ job.epoch \in 0..(2 * Half - 1)
        BY ClockBounds
      <4>3. QED BY <1>2, <4>1, <4>2
    <3>2. now + job.seconds \in Int /\ job.epoch - sys + now \in Int
      BY <3>1
    <3>3. C!Time(now + job.seconds) \in -Half..(Half - 1) /\ C!Time(job.epoch - sys + now) \in -Half..(Half - 1)
      BY <1>2, <3>2, TimeIs
    <3>4. when' = C!AlarmTime
      BY <2>1 DEF C!Choose
    <3>5. QED BY <3>3, <3>4 DEF C!AlarmTime
  <2>2. CASE when' = when
    BY <1>1, <2>2 DEF C!TypeOK
  <2>3. QED BY <2>1, <2>2 DEF C!Next, C!RtcStep, C!Tick, C!Refuse, C!Open, C!Fails, C!ShowAlarm,
          C!DisableAlarm, C!ReadRtc, C!ReadSystem, C!SetSystem, C!SetRtc, C!SetAlarm, C!Suspend
<1>8. C!Valid(alarm'.time) /\ alarm'.on \in BOOLEAN /\ alarm' = [on |-> alarm'.on, time |-> alarm'.time]
  <2>1. CASE C!Tick
    BY <1>1, <2>1, ClockTicks DEF C!TypeOK
  <2>2. CASE C!SetAlarm
    <3> DEFINE a == C!DateFromEpoch(when)
               on == C!Elapsed(a) > C!Elapsed(rtc)
    <3>1. C!Valid(a) /\ alarm' = [on |-> on, time |-> a]
      BY <2>2 DEF C!SetAlarm
    <3> HIDE DEF a
    <3>2. on \in BOOLEAN
      OBVIOUS
    <3> HIDE DEF on
    <3>3. QED BY <3>1, <3>2
  <2>3. CASE C!DisableAlarm
    <3>1. alarm' = [on |-> FALSE, time |-> alarm.time]
      BY <1>1, <2>3 DEF C!DisableAlarm
    <3>2. C!Valid(alarm.time)
      BY <1>1 DEF C!TypeOK
    <3>3. QED BY <3>1, <3>2
  <2>4. CASE alarm' = alarm
    BY <1>1, <2>4 DEF C!TypeOK
  <2>5. QED BY <2>1, <2>2, <2>3, <2>4 DEF C!Next, C!RtcStep, C!Refuse, C!Open, C!Fails, C!ShowAlarm,
          C!ReadRtc, C!ReadSystem, C!SetSystem, C!SetRtc, C!Choose, C!Suspend
<1>9. QED BY <1>1, <1>3, <1>4, <1>5, <1>6, <1>7, <1>8 DEF C!TypeOK

LEMMA ClockWhose == ASSUME C!ClockAssumption, ClockInv, C!Next PROVE Whose'
<1>1. Whose /\ job.what \in {"show", "s", "w", "alarm", "disable", "no", "mem"}
  BY ClockConstants DEF ClockInv
<1>2. CASE C!Tick
  BY <1>1, <1>2, ClockTicks DEF Whose, C!Wakes
<1>3. CASE C!RtcStep
  BY <1>1, <1>3 DEF Whose, C!RtcStep, C!Refuse, C!Open, C!Fails, C!ShowAlarm, C!DisableAlarm, C!ReadRtc,
         C!SetSystem, C!ReadSystem, C!SetRtc, C!Choose, C!SetAlarm, C!Suspend, C!End, C!Goes, C!Wakes
<1>4. QED BY <1>2, <1>3 DEF C!Next

\* What is read stays as far back as lag says.
LEMMA KeepsRead ==
  ASSUME C!ClockAssumption, ClockInv, C!Tick, HasRead, pc \notin {"asleep", "done"}
  PROVE  HasRead' /\ Says' - lag' = Says - lag
<1>1. Says' = Says + 1 /\ lag' = lag + 1 /\ now' = now
  BY ClockTicks
<1>2. Says \in Int /\ lag \in Int
  BY ClockBounds
<1>3. Says' - lag' = Says - lag
  BY <1>1, <1>2
<1> DEFINE read == Says - lag
<1>4. HasRead' <=> Says' - lag' \in Nat /\ now' = C!Time(Says' - lag')
  BY DEF HasRead, C!Time
<1>5. read \in Nat /\ now = C!Time(read)
  BY DEF HasRead
<1>6. QED BY <1>1, <1>3, <1>4, <1>5

\* Of a time that is not negative nothing has been lost.
LEMMA ReadExactly ==
  ASSUME C!ClockAssumption, ClockInv, HasRead, now >= 0 \/ Says < Half, job.what # "w"
  PROVE  now = Says - lag /\ now \in Nat
<1> DEFINE read == Says - lag
<1>1. read \in Nat /\ now = C!Time(read)
  BY DEF HasRead
<1>2. Half \in Nat \ {0} /\ Says \in Nat /\ lag \in Nat /\ Says < 2 * Half
  BY ClockBounds
<1>3. read < 2 * Half /\ (Says < Half => read < Half)
  BY <1>2
<1> HIDE DEF read
<1>4. /\ read < Half => C!Time(read) = read
      /\ read >= Half => C!Time(read) = read - 2 * Half
  <2>1. read \in Int /\ read >= -Half /\ read < 3 * Half
    BY <1>1, <1>2, <1>3
  <2>2. QED BY <1>2, <2>1, TimeIs
<1>5. now = read
  BY <1>1, <1>2, <1>3, <1>4
<1>6. QED BY <1>1, <1>5 DEF read

LEMMA ClockAgreed == ASSUME C!ClockAssumption, ClockInv, C!Next PROVE Agreed'
<1>1. Whose /\ Agreed /\ job.what \in {"show", "s", "w", "alarm", "disable", "no", "mem"}
  BY ClockConstants DEF ClockInv
<1>2. Says \in Nat /\ lag \in Nat /\ sys \in Int /\ now \in Int
  BY ClockBounds
<1>3. CASE C!Tick
  <2>1. /\ sys' = sys + 1 /\ Says' = Says + 1 /\ now' = now /\ job' = job
        /\ lag' = IF pc \in {"asleep", "done"} THEN lag ELSE lag + 1
        /\ (pc' = pc /\ exit' = exit) \/ (pc = "asleep" /\ pc' = "done")
    BY <1>3, ClockTicks
  <2>2. CASE pc' = pc /\ exit' = exit
    <3>1. pc' = "set sys" => HasRead'
      BY <1>1, <1>3, <2>2, KeepsRead DEF Agreed
    <3>2. pc' = "set rtc" => now' >= 0 /\ sys' - now' = lag'
      <4>1. CASE pc = "set rtc"
        <5>1. now >= 0 /\ sys - now = lag
          BY <1>1, <4>1 DEF Agreed
        <5>2. sys' = sys + 1 /\ now' = now /\ lag' = lag + 1
          BY <2>1, <4>1
        <5>3. (sys + 1) - now = lag + 1
          BY <1>2, <5>1
        <5>4. QED BY <5>1, <5>2, <5>3
      <4>2. QED BY <2>2, <4>1
    <3>3. exit' = "ok" => Says' - sys' = Says - sys /\ sys' - Says' = sys - Says /\ lag' = lag
      BY <1>1, <1>2, <2>1, <2>2 DEF Whose
    <3>4. C!ClocksAgree'
      BY <1>1, <2>1, <2>2, <3>3 DEF Agreed, C!ClocksAgree, Says
    <3>5. QED BY <3>1, <3>2, <3>4 DEF Agreed
  <2>3. CASE pc = "asleep" /\ pc' = "done"
    BY <1>1, <2>1, <2>3 DEF Agreed, Whose, C!Wakes, C!ClocksAgree
  <2>4. QED BY <2>1, <2>2, <2>3
<1>4. CASE C!SetSystem
  <2>1. /\ pc = "set sys" /\ now >= 0 /\ sys' = now /\ pc' = "done"
        /\ job' = job /\ rtc' = rtc /\ lag' = lag
    BY <1>4 DEF C!SetSystem, C!End
  <2>2. job.what = "s" /\ HasRead
    BY <1>1, <2>1 DEF Whose, Agreed
  <2>3. now = Says - lag
    BY <2>1, <2>2, ReadExactly
  <2>4. Says - sys' = lag
    <3>1. sys' = Says - lag
      BY <2>1, <2>3
    <3>2. QED BY <1>2, <3>1
  <2>5. QED BY <2>1, <2>2, <2>4 DEF Agreed, C!ClocksAgree, Says
<1>5. CASE C!SetRtc
  <2>1. /\ pc = "set rtc" /\ rtc' = C!DateFromEpoch(now) /\ pc' = "done"
        /\ job' = job /\ sys' = sys /\ lag' = lag
    BY <1>5 DEF C!SetRtc, C!End
  <2>2. job.what = "w" /\ now >= 0 /\ sys - now = lag
    BY <1>1, <2>1 DEF Whose, Agreed
  <2>3. C!Elapsed(rtc') = now
    <3>1. now \in Nat /\ Units
      BY <1>2, <2>2, ClockConstants
    <3>2. QED BY <2>1, <3>1, FromEpoch
  <2>4. QED BY <2>1, <2>2, <2>3 DEF Agreed, C!ClocksAgree
<1>6. CASE C!ReadRtc
  <2>1. /\ pc = "read rtc" /\ now' = C!Time(C!DateToEpoch(rtc)) /\ lag' = 0 /\ job' = job
        /\ rtc' = rtc /\ sys' = sys /\ pc' \in {"done", "set sys", "choose"}
        /\ exit' = "ok" => job.what = "show" \/ exit = "ok"
    BY <1>1, <1>6 DEF C!ReadRtc, C!End, C!Goes, Whose, C!Wakes
  <2>2. HasRead'
    <3>1. rtc \in C!Dates /\ rtc.year >= 1970 /\ Says \in Nat
      BY SMT DEF ClockInv, Going, C!Valid
    <3>2. C!DateToEpoch(rtc) = Says
      BY <3>1, ToEpoch DEF Says
    <3>3. Says' - lag' = Says /\ now' = C!Time(Says)
      <4>1. Says' = Says
        BY <2>1 DEF Says
      <4>2. now' = C!Time(Says) /\ lag' = 0
        BY <2>1, <3>2
      <4>3. QED BY <3>1, <4>1, <4>2
    <3>4. HasRead' <=> Says' - lag' \in Nat /\ now' = C!Time(Says' - lag')
      BY DEF HasRead, C!Time
    <3>5. QED BY <3>1, <3>3, <3>4
  <2>3. exit # "ok"
    BY <1>1, <2>1 DEF Whose
  <2>4. QED BY <2>1, <2>2, <2>3 DEF Agreed, C!ClocksAgree
<1>7. CASE C!ReadSystem
  <2>1. /\ pc = "read sys" /\ now' = sys /\ lag' = 0 /\ job' = job /\ rtc' = rtc /\ sys' = sys
        /\ IF sys < 0 THEN pc' = "done" /\ exit' = "data" ELSE pc' = "set rtc" /\ exit' = exit
    BY <1>7 DEF C!ReadSystem, C!End, C!Goes
  <2>2. exit # "ok"
    BY <1>1, <2>1 DEF Whose
  <2>3. exit' # "ok" /\ pc' # "set sys"
    BY <2>1, <2>2
  <2>4. pc' = "set rtc" => now' >= 0 /\ sys' - now' = lag'
    <3>1. pc' = "set rtc" => ~(sys < 0)
      BY <2>1
    <3>2. now' = sys /\ sys' = sys /\ lag' = 0
      BY <2>1
    <3>3. ~(sys < 0) => sys >= 0 /\ sys - sys = 0
      BY <1>2
    <3>4. QED BY <3>1, <3>2, <3>3
  <2>5. QED BY <2>3, <2>4 DEF Agreed, C!ClocksAgree
<1>8. CASE C!Refuse \/ C!Open \/ C!Fails \/ C!ShowAlarm \/ C!DisableAlarm \/ C!Choose \/ C!SetAlarm \/ C!Suspend
  <2>1. /\ job' = job /\ sys' = sys /\ rtc' = rtc /\ lag' = lag
        /\ pc' \notin {"set sys", "set rtc"}
        /\ exit' = "ok" => exit = "ok" \/ job.what \in {"alarm", "disable", "no"}
    BY <1>1, <1>8 DEF C!Refuse, C!Open, C!Fails, C!ShowAlarm, C!DisableAlarm, C!Choose, C!SetAlarm, C!Suspend,
         C!End, C!Goes, Whose
  <2>2. C!ClocksAgree
    BY <1>1 DEF Agreed
  <2>3. QED BY <2>1, <2>2 DEF Agreed, C!ClocksAgree
<1>9. QED BY <1>3, <1>4, <1>5, <1>6, <1>7, <1>8 DEF C!Next, C!RtcStep

LEMMA ArmedTicks ==
  ASSUME C!ClockAssumption, ClockInv, Armed, C!Wakes, C!Tick, Says' < Half
  PROVE  Armed'
<1>1. /\ Half \in Nat /\ Says \in Nat /\ sys \in Int /\ lag \in Nat /\ now \in Int
      /\ ticks \in Nat /\ when \in Int /\ job.seconds \in Int /\ job.epoch \in Int
  <2>1. Half \in Nat /\ Says \in Nat /\ sys \in Int /\ lag \in Nat /\ now \in Int
    BY ClockBounds
  <2>2. ticks \in 0..MaxTicks /\ MaxTicks \in Nat /\ when \in -Half..(Half - 1)
    BY ClockConstants DEF ClockInv, C!TypeOK, Going
  <2>3. job.seconds \in 0..(2 * Half - 1) /\ job.epoch \in 0..(2 * Half - 1)
    BY ClockBounds
  <2>4. QED BY <2>1, <2>2, <2>3
<1>2. Says' = Says + 1 /\ sys' = sys + 1 /\ ticks' = ticks + 1
  BY ClockTicks
<1>3. job' = job /\ now' = now /\ when' = when /\ alarm'.time = alarm.time
  BY ClockTicks
<1>4. lag' \in Nat /\ lag' >= lag /\ (pc \notin {"asleep", "done"} => lag' = lag + 1)
  <2>1. lag' = IF pc \in {"asleep", "done"} THEN lag ELSE lag + 1
    BY ClockTicks
  <2>2. lag' = lag \/ lag' = lag + 1
    BY <2>1
  <2>3. QED BY <1>1, <2>1, <2>2
<1>5. now + lag >= when => now + lag' >= when
  <2>1. lag' \in Nat /\ lag' >= lag
    BY <1>4
  <2>2. ASSUME NEW a \in Int, NEW b \in Int, NEW c \in Nat, NEW d \in Nat, d >= c, a + c >= b PROVE a + d >= b
    BY <2>2
  <2>3. QED BY <1>1, <2>1, <2>2, Zenon
<1>6. \/ alarm'.on = alarm.on /\ pc' = pc /\ exit' = exit
      \/ /\ alarm.on /\ ~alarm'.on /\ rtc' = alarm.time
         /\ IF pc = "asleep" THEN pc' = "done" /\ exit' = "ok" ELSE pc' = pc /\ exit' = exit
  BY ClockTicks
<1>7. (pc' = pc /\ exit' = exit) \/ (pc = "asleep" /\ pc' = "done" /\ exit' = "ok")
  BY <1>6
<1>8. pc' \in {"choose", "arm", "suspend"} => HasRead'
  BY <1>7, KeepsRead DEF Armed
<1>9. Chosen => Chosen'
  <2>1. ASSUME job.seconds = 0, Chosen PROVE job.epoch - (sys' + when - Says') \in 0..(lag')
    <3>1. job.epoch - (sys + when - Says) \in 0..lag
      BY <2>1 DEF Chosen
    <3>2. sys' + when - Says' = sys + when - Says
      BY <1>1, <1>2
    <3>3. job.epoch - (sys' + when - Says') = job.epoch - (sys + when - Says)
      BY <3>2
    <3> DEFINE early == job.epoch - (sys + when - Says)
    <3> HIDE DEF early
    <3>4. early \in 0..lag
      BY <3>1 DEF early
    <3>5. early \in 0..(lag')
      BY <1>1, <1>4, <3>4
    <3>6. QED BY <3>3, <3>5 DEF early
  <2>2. Chosen' <=> IF job.seconds # 0 THEN when = now + job.seconds
                    ELSE job.epoch - (sys' + when - Says') \in 0..(lag')
    BY <1>3 DEF Chosen
  <2>3. QED BY <2>1, <2>2 DEF Chosen
<1>10. pc' \in {"arm", "suspend", "asleep"} => now' >= 0 /\ when' > now' /\ Chosen'
  <2>1. pc' \in {"arm", "suspend", "asleep"} => now >= 0 /\ when > now /\ Chosen
    BY <1>7 DEF Armed
  <2>2. QED BY <1>3, <1>9, <2>1
<1>11. pc' \in {"start", "read rtc", "choose", "arm"} => ~alarm'.on
  BY <1>6 DEF Armed
<1>12. alarm'.on => C!Elapsed(alarm'.time) = when' /\ Chosen'
  <2>1. alarm'.on => alarm.on
    BY <1>6
  <2>2. QED BY <1>3, <1>9, <2>1 DEF Armed
<1>13. pc' \in {"suspend", "asleep"} => alarm'.on \/ now' + lag' >= when'
  <2>1. CASE pc = "suspend" /\ pc' = "suspend"
    <3>1. CASE alarm'.on = alarm.on
      <4>1. alarm.on \/ now + lag >= when
        BY <2>1 DEF Armed
      <4>2. QED BY <1>3, <1>5, <3>1, <4>1
    <3>2. CASE alarm.on /\ rtc' = alarm.time
      <4>1. Says' = when
        BY <3>2 DEF Armed, Says
      <4>2. HasRead
        BY <2>1 DEF Armed
      <4>3. now = Says - lag
        <5>1. Says < Half
          BY <1>1, <1>2
        <5>2. job.what # "w"
          BY DEF C!Wakes
        <5>3. QED BY <4>2, <5>1, <5>2, ReadExactly
      <4>4. now + lag' = Says + 1
        BY <1>1, <1>4, <2>1, <4>3
      <4>5. now + lag' >= when
        <5>1. Says + 1 = when
          BY <1>2, <4>1
        <5>2. QED BY <1>1, <4>4, <5>1
      <4>6. QED BY <1>3, <4>5
    <3>3. QED BY <1>6, <3>1, <3>2
  <2>2. CASE pc = "asleep" /\ pc' = "asleep"
    <3>1. alarm'.on = alarm.on
      BY <1>6, <2>2
    <3>2. alarm.on \/ now + lag >= when
      BY <2>2 DEF Armed
    <3>3. QED BY <1>3, <1>5, <3>1, <3>2
  <2>3. QED BY <1>7, <2>1, <2>2
<1>14. exit' = "past" => \/ job'.seconds = 0 /\ job'.epoch <= sys'
                         \/ now' + job'.seconds >= Half
                         \/ now' + (job'.epoch - sys') >= Half - ticks'
  <2>1. CASE exit' = "past"
    <3>1. exit = "past"
      BY <1>7, <2>1
    <3>2. \/ job.seconds = 0 /\ job.epoch <= sys
          \/ now + job.seconds >= Half
          \/ now + (job.epoch - sys) >= Half - ticks
      BY <3>1 DEF Armed
    <3>3. job.epoch <= sys => job.epoch <= sys'
      BY <1>1, <1>2
    <3>4. now + (job.epoch - sys) >= Half - ticks => now + (job.epoch - sys') >= Half - ticks'
      <4>1. now + (job.epoch - sys) >= Half - ticks => now + (job.epoch - (sys + 1)) >= Half - (ticks + 1)
        BY <1>1
      <4>2. QED BY <1>2, <4>1
    <3>5. QED BY <1>3, <3>2, <3>3, <3>4
  <2>2. QED BY <2>1
<1>15. QED BY <1>8, <1>10, <1>11, <1>12, <1>13, <1>14 DEF Armed

\* RTC_RD_TIME.
LEMMA ArmedReads ==
  ASSUME C!ClockAssumption, ClockInv, Armed, C!Wakes, C!ReadRtc
  PROVE  Armed'
<1>1. /\ pc = "read rtc" /\ pc' = "choose" /\ now' = C!Time(C!DateToEpoch(rtc)) /\ lag' = 0
      /\ rtc' = rtc /\ alarm' = alarm /\ exit' = exit
  BY DEF C!ReadRtc, C!Wakes, C!Goes
<1>2. ~alarm'.on /\ exit' # "past"
  BY <1>1 DEF Armed, ClockInv, Whose
<1>3. HasRead'
  <2>1. rtc \in C!Dates /\ rtc.year >= 1970 /\ Says \in Nat
    BY SMT DEF ClockInv, Going, C!Valid
  <2>2. C!DateToEpoch(rtc) = Says
    BY <2>1, ToEpoch DEF Says
  <2>3. Says' = Says
    BY <1>1 DEF Says
  <2>4. now' = C!Time(Says) /\ lag' = 0
    BY <1>1, <2>2
  <2>5. Says' - lag' = Says
    BY <2>1, <2>3, <2>4
  <2>6. HasRead' <=> Says' - lag' \in Nat /\ now' = C!Time(Says' - lag')
    BY DEF HasRead, C!Time
  <2>7. QED BY <2>1, <2>4, <2>5, <2>6
<1>4. QED BY <1>1, <1>2, <1>3 DEF Armed

\* The time of the alarm, as it is counted.
LEMMA ArmedChooses ==
  ASSUME C!ClockAssumption, ClockInv, Armed, C!Wakes, C!Choose, Says < Half
  PROVE  Armed'
<1>1. /\ pc = "choose" /\ when' = C!AlarmTime
      /\ IF C!AlarmTime <= now THEN pc' = "done" /\ exit' = "past" ELSE pc' = "arm" /\ exit' = exit
      /\ job' = job /\ sys' = sys /\ rtc' = rtc /\ alarm' = alarm /\ now' = now /\ lag' = lag /\ ticks' = ticks
  BY DEF C!Choose, C!End, C!Goes
<1>2. ~alarm'.on /\ HasRead /\ exit # "past"
  BY <1>1 DEF Armed, ClockInv, Whose
<1>3. now = Says - lag /\ now \in Nat
  BY <1>2, ReadExactly DEF C!Wakes
<1>4. /\ Half \in Nat \ {0} /\ Says \in Nat /\ sys \in Int /\ sys >= 0 /\ sys < Half /\ lag \in Nat
      /\ job.seconds \in 0..(2 * Half - 1) /\ job.epoch \in 0..(2 * Half - 1)
  BY ClockBounds DEF C!Wakes
<1>5. ticks \in Nat
  BY DEF ClockInv, Going
<1>6. now < Half
  BY <1>3, <1>4
<1>7. job.seconds \in Nat /\ job.seconds < 2 * Half /\ job.epoch \in Nat /\ job.epoch < 2 * Half
  BY <1>4
<1>8. CASE job.seconds # 0
  <2> DEFINE x == now + job.seconds
  <2>1. when' = C!Time(x)
    BY <1>1, <1>8 DEF C!AlarmTime
  <2>2. x \in Int /\ x > now /\ x >= -Half /\ x < 3 * Half /\ x - 2 * Half < now
    BY <1>3, <1>4, <1>6, <1>7, <1>8
  <2> HIDE DEF x
  <2>3. /\ x < Half => when' = x
        /\ x >= Half => when' = x - 2 * Half
    BY <1>4, <2>1, <2>2, TimeIs
  <2>4. CASE x < Half
    <3>1. when' = x /\ x > now
      BY <2>2, <2>3, <2>4
    <3>2. ~(x <= now)
      BY <1>3, <2>2
    <3>3. pc' = "arm" /\ exit' = exit
      BY <1>1, <3>1, <3>2
    <3>4. Chosen'
      BY <1>1, <1>8, <3>1 DEF Chosen, x
    <3>5. HasRead'
      BY <1>1, <1>2 DEF HasRead, C!Time, Says
    <3>6. now' >= 0 /\ when' > now'
      <4>1. now >= 0
        BY <1>3
      <4>2. QED BY <1>1, <3>1, <4>1
    <3>7. QED BY <1>2, <3>3, <3>4, <3>5, <3>6 DEF Armed
  <2>5. CASE x >= Half
    <3>1. when' = x - 2 * Half
      BY <2>3, <2>5
    <3>2. x - 2 * Half <= now
      BY <1>3, <1>4, <2>2
    <3>3. pc' = "done" /\ exit' = "past"
      BY <1>1, <3>1, <3>2
    <3>4. now' + job'.seconds >= Half
      BY <1>1, <2>5 DEF x
    <3>5. QED BY <1>2, <3>3, <3>4 DEF Armed
  <2>6. QED BY <1>4, <2>2, <2>4, <2>5
<1>9. CASE job.seconds = 0
  <2> DEFINE x == job.epoch - sys + now
  <2>1. when' = C!Time(x)
    BY <1>1, <1>9 DEF C!AlarmTime
  <2>2. x \in Int /\ x >= -Half /\ x < 3 * Half /\ x - 2 * Half < now
    BY <1>3, <1>4, <1>6, <1>7
  <2>3. job.epoch - (sys + x - Says) = lag
    BY <1>3, <1>4, <1>7
  <2>4. x <= now => job.epoch <= sys
    BY <1>3, <1>4, <1>7
  <2>5. x >= Half => now + (job.epoch - sys) >= Half - ticks
    BY <1>3, <1>4, <1>5, <1>7
  <2> HIDE DEF x
  <2>6. /\ x < Half => when' = x
        /\ x >= Half => when' = x - 2 * Half
    BY <1>4, <2>1, <2>2, TimeIs
  <2>7. CASE x < Half /\ x > now
    <3>1. when' = x /\ x > now
      BY <2>6, <2>7
    <3>2. ~(x <= now)
      BY <1>3, <2>2, <2>7
    <3>3. pc' = "arm" /\ exit' = exit
      BY <1>1, <3>1, <3>2
    <3>4. Chosen'
      <4>1. Chosen' <=> job.epoch - (sys + when' - Says) \in 0..lag
        BY <1>1, <1>9 DEF Chosen, Says
      <4>2. job.epoch - (sys + when' - Says) = lag
        BY <2>3, <3>1
      <4>3. lag \in 0..lag
        BY <1>4
      <4>4. QED BY <4>1, <4>2, <4>3
    <3>5. HasRead'
      BY <1>1, <1>2 DEF HasRead, C!Time, Says
    <3>6. now' >= 0 /\ when' > now'
      <4>1. now >= 0
        BY <1>3
      <4>2. QED BY <1>1, <3>1, <4>1
    <3>7. QED BY <1>2, <3>3, <3>4, <3>5, <3>6 DEF Armed
  <2>8. CASE x < Half /\ x <= now
    <3>1. when' = x
      BY <2>6, <2>8
    <3>2. pc' = "done" /\ exit' = "past"
      BY <1>1, <2>8, <3>1
    <3>3. job'.seconds = 0 /\ job'.epoch <= sys'
      BY <1>1, <1>9, <2>4, <2>8
    <3>4. QED BY <1>2, <3>2, <3>3 DEF Armed
  <2>9. CASE x >= Half
    <3>1. when' = x - 2 * Half
      BY <2>6, <2>9
    <3>2. x - 2 * Half <= now
      BY <1>3, <1>4, <2>2
    <3>3. pc' = "done" /\ exit' = "past"
      BY <1>1, <3>1, <3>2
    <3>4. now' + (job'.epoch - sys') >= Half - ticks'
      BY <1>1, <2>5, <2>9
    <3>5. QED BY <1>2, <3>3, <3>4 DEF Armed
  <2>10. QED BY <1>3, <1>4, <2>2, <2>7, <2>8, <2>9
<1>10. QED BY <1>8, <1>9

\* RTC_WKALM_SET, of what the time chosen is as a date.
LEMMA ArmedSets ==
  ASSUME C!ClockAssumption, ClockInv, Armed, C!Wakes, C!SetAlarm, Says < Half
  PROVE  Armed'
<1> DEFINE a == C!DateFromEpoch(when)
<1>1. /\ pc = "arm" /\ alarm' = [on |-> C!Elapsed(a) > C!Elapsed(rtc), time |-> a]
      /\ (pc' = "done" /\ exit' = "ok") \/ (pc' = "suspend" /\ exit' = exit)
      /\ job' = job /\ sys' = sys /\ rtc' = rtc /\ now' = now /\ when' = when /\ lag' = lag /\ ticks' = ticks
  BY DEF C!SetAlarm, C!End, C!Goes
<1>2. HasRead /\ now >= 0 /\ when > now /\ Chosen /\ exit # "past"
  BY <1>1 DEF Armed, ClockInv, Whose
<1>3. now = Says - lag /\ now \in Nat
  BY <1>2, ReadExactly DEF C!Wakes
<1>4. when \in Nat /\ Units /\ Says \in Nat /\ lag \in Nat
  <2>1. when \in -Half..(Half - 1) /\ Half \in Nat
    BY ClockConstants DEF ClockInv, C!TypeOK
  <2>2. Units /\ Says \in Nat /\ lag \in Nat
    BY ClockConstants, ClockBounds
  <2>3. QED BY <1>2, <1>3, <2>1, <2>2
<1>5. C!Elapsed(a) = when
  BY <1>4, FromEpoch
<1> HIDE DEF a
<1>6. alarm'.time = a /\ alarm'.on = (C!Elapsed(a) > C!Elapsed(rtc))
  BY <1>1
<1>7. Chosen' /\ HasRead'
  BY <1>1, <1>2 DEF Chosen, HasRead, C!Time, Says
<1>8. C!Elapsed(alarm'.time) = when'
  BY <1>1, <1>5, <1>6
<1>9. alarm'.on \/ now' + lag' >= when'
  <2>1. when > Says \/ now + lag >= when
    BY <1>3, <1>4
  <2>2. alarm'.on = (when > Says)
    BY <1>5, <1>6 DEF Says
  <2>3. QED BY <1>1, <2>1, <2>2
<1>10. QED BY <1>1, <1>2, <1>7, <1>8, <1>9 DEF Armed

LEMMA ClockArmed ==
  ASSUME C!ClockAssumption, ClockInv, C!Next, (C!Wakes /\ C!InRange)'
  PROVE  Armed'
<1>1. job' = job
  BY DEF C!Next, C!RtcStep, C!Tick, C!Refuse, C!Open, C!Fails, C!ShowAlarm, C!DisableAlarm, C!ReadRtc,
         C!SetSystem, C!ReadSystem, C!SetRtc, C!Choose, C!SetAlarm, C!Suspend
<1>2. C!Wakes /\ Says' < Half
  BY <1>1 DEF C!Wakes, C!InRange, Says
<1>3. Whose /\ Says \in Nat /\ Half \in Nat
  BY ClockBounds DEF ClockInv
<1>4. CASE C!Tick
  <2>1. Says' = Says + 1
    BY <1>4, ClockTicks
  <2>2. Says < Half
    BY <1>2, <1>3, <2>1
  <2>3. Armed
    BY <1>2, <2>2 DEF ClockInv, C!InRange, Says
  <2>4. QED BY <1>2, <1>4, <2>3, ArmedTicks
<1>5. CASE C!RtcStep /\ ~C!SetRtc /\ ~C!SetSystem
  <2>1. rtc' = rtc
    BY <1>5 DEF C!RtcStep, C!Refuse, C!Open, C!Fails, C!ShowAlarm, C!DisableAlarm, C!ReadRtc,
         C!ReadSystem, C!Choose, C!SetAlarm, C!Suspend
  <2>2. Says < Half
    BY <1>2, <2>1 DEF Says
  <2>3. Armed
    BY <1>2, <2>2 DEF ClockInv, C!InRange, Says
  <2>4. CASE C!ReadRtc \/ C!Choose \/ C!SetAlarm
    BY <1>2, <2>2, <2>3, <2>4, ArmedReads, ArmedChooses, ArmedSets
  <2>5. CASE C!Refuse \/ C!Open \/ C!Fails \/ C!Suspend
    <3>1. /\ job' = job /\ sys' = sys /\ rtc' = rtc /\ alarm' = alarm /\ now' = now /\ when' = when
          /\ lag' = lag /\ ticks' = ticks
      BY <2>5 DEF C!Refuse, C!Open, C!Fails, C!Suspend
    <3>2. Chosen' = Chosen /\ HasRead' = HasRead
      BY <3>1 DEF Chosen, HasRead, Says, C!Time
    <3>3. /\ (pc' = "done" /\ exit' \in {"usage", "failed"}) \/ (pc = "suspend" /\ pc' = "asleep" /\ exit' = exit)
             \/ (pc = "start" /\ pc' = "read rtc" /\ exit' = exit)
      BY <1>2, <2>5 DEF C!Refuse, C!Open, C!Fails, C!Suspend, C!End, C!Goes, C!Wakes
    <3>4. QED BY <2>3, <3>1, <3>2, <3>3 DEF Armed
  <2>6. ~C!ShowAlarm /\ ~C!DisableAlarm /\ ~C!ReadSystem
    BY <1>2, <1>3 DEF C!ShowAlarm, C!DisableAlarm, C!ReadSystem, Whose, C!Wakes
  <2>7. QED BY <1>5, <2>4, <2>5, <2>6 DEF C!RtcStep
<1>6. CASE C!SetRtc \/ C!SetSystem
  BY <1>2, <1>3, <1>6 DEF C!SetRtc, C!SetSystem, Whose, C!Wakes
<1>7. QED BY <1>4, <1>5, <1>6 DEF C!Next

LEMMA ClockNext == ASSUME C!ClockAssumption, ClockInv, [C!Next]_C!vars PROVE ClockInv'
<1>1. CASE C!Next
  BY <1>1, ClockTypes, ClockGoing, ClockWhose, ClockAgreed, ClockArmed DEF ClockInv
<1>2. CASE UNCHANGED C!vars
  BY <1>2 DEF C!vars, ClockInv, C!TypeOK, Going, Whose, Agreed, C!ClocksAgree, Armed, Chosen, HasRead, Says,
         C!Wakes, C!InRange, C!Time
<1>3. QED BY <1>1, <1>2

\* What hwclock and rtcwake promise, of that.
LEMMA ClockInvImplies ==
  ASSUME C!ClockAssumption, ClockInv
  PROVE  C!TypeOK /\ C!ClocksAgree /\ C!AlarmAsAsked /\ C!SleepsWithAlarm
<1>1. C!TypeOK /\ C!ClocksAgree
  BY DEF ClockInv, Agreed
<1>2. C!AlarmAsAsked
  <2>1. ASSUME C!InRange, alarm.on, C!Wakes
        PROVE  IF job.seconds # 0 THEN C!Elapsed(alarm.time) = now + job.seconds
               ELSE job.epoch - (sys + C!Elapsed(alarm.time) - C!Elapsed(rtc)) \in 0..lag
    BY <2>1 DEF ClockInv, Armed, Chosen, Says
  <2>2. ASSUME C!InRange, exit = "past"
        PROVE  \/ job.seconds = 0 /\ job.epoch <= sys
               \/ now + job.seconds >= Half
               \/ now + (job.epoch - sys) >= Half - MaxTicks
    <3>1. \/ job.seconds = 0 /\ job.epoch <= sys
          \/ now + job.seconds >= Half
          \/ now + (job.epoch - sys) >= Half - ticks
      BY <2>2 DEF ClockInv, Whose, Armed
    <3>2. now + (job.epoch - sys) >= Half - ticks => now + (job.epoch - sys) >= Half - MaxTicks
      <4>1. /\ now \in Int /\ sys \in Int /\ Half \in Nat /\ ticks \in 0..MaxTicks /\ MaxTicks \in Nat
            /\ job.epoch \in 0..(2 * Half - 1)
        BY ClockBounds, ClockConstants DEF ClockInv, Going
      <4>2. QED BY <4>1
    <3>3. QED BY <3>1, <3>2
  <2>3. QED BY <2>1, <2>2 DEF C!AlarmAsAsked
<1>3. C!SleepsWithAlarm
  <2>1. ASSUME C!InRange, pc = "asleep" PROVE alarm.on \/ now + lag >= when
    BY <2>1 DEF ClockInv, Whose, Armed
  <2>2. QED BY <2>1 DEF C!SleepsWithAlarm
<1>4. QED BY <1>1, <1>2, <1>3

=============================================================================
