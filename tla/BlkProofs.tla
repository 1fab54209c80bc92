----------------------------- MODULE BlkProofs -----------------------------
(* blkwak: when it reports success, image and device say the same, whatever *)
(* the image, the device and the buffer size.                               *)
EXTENDS ToolsProofs

walk == s4
USE DEF pc, exit, job, walk, dev, file

-----------------------------------------------------------------------------
(* What an image says, chunk by chunk.                                      *)

LEMMA AsSequence ==
  ASSUME NEW n \in Nat, NEW S, NEW f \in [1..n -> S]
  PROVE  f \in Seq(S) /\ Len(f) = n /\ DOMAIN f = 1..n
  OBVIOUS

\* The bytes, and holes, of some chunks.
BytesOf(chunks, unit) ==
  UNION {{B!Covers(chunks[k], unit)[j] : j \in DOMAIN B!Covers(chunks[k], unit)} : k \in 1..Len(chunks)}

\* v is what a chunk c of len bytes says.
Spells(c, len, v) ==
  /\ c.type = "raw" => v = c.body
  /\ c.type = "fill" => Len(v) = len /\ \A j \in 1..len : v[j] = c.body[((j - 1) % Len(c.body)) + 1]
  /\ c.type = "hole" => Len(v) = len /\ \A j \in 1..len : v[j] = B!Hole
  /\ c.type \notin {"raw", "fill", "hole"} => v = <<>>

LEMMA CoversIs ==
  ASSUME NEW c \in B!Chunks, NEW unit \in Nat
  PROVE  LET v == B!Covers(c, unit)
             len == c.blks * unit
         IN  /\ Spells(c, len, v)
             /\ len \in Nat /\ Len(v) \in Nat /\ DOMAIN v = 1..Len(v)
             /\ v \in Seq({v[j] : j \in DOMAIN v})
             /\ c.type = "raw" => v = c.body
             /\ c.type = "fill" => Len(v) = len /\ \A j \in 1..len : v[j] = c.body[((j - 1) % Len(c.body)) + 1]
             /\ c.type = "hole" => Len(v) = len /\ \A j \in 1..len : v[j] = B!Hole
             /\ c.type \notin {"raw", "fill", "hole"} => v = <<>>
<1> DEFINE v == B!Covers(c, unit)
           len == c.blks * unit
           Q == {v[j] : j \in DOMAIN v}
<1>1. c.blks \in Nat /\ c.body \in Seq(ImageBytes)
  BY DEF B!Chunks
<1>2. len \in Nat
  BY <1>1
<1> HIDE DEF len
<1>3. CASE c.type = "raw"
  <2>1. v = c.body
    BY <1>3 DEF B!Covers
  <2>2. Len(v) \in Nat /\ v \in [1..Len(v) -> Q] /\ DOMAIN v = 1..Len(v)
    BY <1>1, <2>1
  <2> HIDE DEF v, Q
  <2>3. v \in Seq(Q)
    BY <2>2, AsSequence
  <2>4. QED BY <1>2, <1>3, <2>1, <2>2, <2>3 DEF v, Q, len, Spells
<1>4. CASE c.type = "fill"
  <2>1. v = [j \in 1..len |-> c.body[((j - 1) % Len(c.body)) + 1]]
    BY <1>4 DEF B!Covers, B!Repeat, len
  <2>2. v \in [1..len -> Q] /\ DOMAIN v = 1..len /\ \A j \in 1..len : v[j] = c.body[((j - 1) % Len(c.body)) + 1]
    BY <2>1
  <2> HIDE DEF v, Q
  <2>3. v \in Seq(Q) /\ Len(v) = len
    BY <1>2, <2>2, AsSequence
  <2>4. QED BY <1>2, <1>4, <2>2, <2>3 DEF v, Q, len, Spells
<1>5. CASE c.type = "hole"
  <2>1. v = [j \in 1..len |-> B!Hole]
    BY <1>5 DEF B!Covers, len
  <2>2. v \in [1..len -> Q] /\ DOMAIN v = 1..len /\ \A j \in 1..len : v[j] = B!Hole
    BY <2>1
  <2> HIDE DEF v, Q
  <2>3. v \in Seq(Q) /\ Len(v) = len
    BY <1>2, <2>2, AsSequence
  <2>4. QED BY <1>2, <1>5, <2>2, <2>3 DEF v, Q, len, Spells
<1>6. CASE c.type \notin {"raw", "fill", "hole"}
  <2>1. v = <<>>
    BY <1>6 DEF B!Covers
  <2>2. v \in Seq(Q) /\ Len(v) = 0 /\ DOMAIN v = 1..0
    BY <2>1
  <2> HIDE DEF v, Q
  <2>3. QED BY <1>2, <1>6, <2>1, <2>2 DEF v, Q, len, Spells
<1> HIDE DEF v, Q
<1>7. QED BY <1>3, <1>4, <1>5, <1>6 DEF v, Q, len

\* The recursion of Unpacked() is well-founded: each chunk comes after the ones
\* before it.
LEMMA UnpackedIs ==
  ASSUME NEW chunks \in Seq(B!Chunks), NEW unit \in Nat
  PROVE  LET U == B!Unpacked(chunks, unit)
         IN  /\ U[0] = <<>>
             /\ \A n \in 0..Len(chunks) : U[n] \in Seq(BytesOf(chunks, unit))
             /\ \A n \in 1..Len(chunks) : /\ B!Covers(chunks[n], unit) \in Seq(BytesOf(chunks, unit))
                                          /\ U[n] = U[n - 1] \o B!Covers(chunks[n], unit)
<1> DEFINE N == Len(chunks)
           V == Seq(BytesOf(chunks, unit))
           base == <<>>
           step == [x \in V \X (1..N) |-> x[1] \o B!Covers(chunks[x[2]], unit)]
           f == B!Unpacked(chunks, unit)
<1>1. N \in Nat /\ base \in V
  BY EmptySeq
<1>2. ASSUME NEW n \in 1..N PROVE B!Covers(chunks[n], unit) \in V
  <2> DEFINE v == B!Covers(chunks[n], unit)
             Q == {v[j] : j \in DOMAIN v}
  <2>1. chunks[n] \in B!Chunks
    BY OfSequences
  <2>2. v \in Seq(Q)
    BY <2>1, CoversIs
  <2>3. Q \subseteq BytesOf(chunks, unit)
    BY DEF BytesOf
  <2> HIDE DEF v, Q
  <2>4. QED BY <2>2, <2>3, SeqMonotonic DEF v
<1>3. step \in [V \X (1..N) -> V]
  <2>1. ASSUME NEW x \in V \X (1..N) PROVE x[1] \o B!Covers(chunks[x[2]], unit) \in V
    <3>1. x[1] \in V /\ x[2] \in 1..N
      OBVIOUS
    <3>2. B!Covers(chunks[x[2]], unit) \in V
      BY <3>1, <1>2
    <3>3. QED BY <3>1, <3>2, ConcatProperties
  <2>2. QED BY <2>1
<1>4. \A x \in V, n \in 1..N : step[<<x, n>>] = x \o B!Covers(chunks[n], unit)
  OBVIOUS
<1> HIDE DEF V, step, base
<1>5. PICK g \in [0..N -> V] : Solves(g, N, base, step)
  <2> HIDE DEF N, f
  <2>1. QED BY <1>1, <1>3, Recursion
<1>6. g = [n \in 0..N |-> IF n = 0 THEN base ELSE g[n - 1] \o B!Covers(chunks[n], unit)]
  <2>1. \A n \in 0..N : n # 0 => n - 1 \in 0..N /\ n \in 1..N
    BY <1>1
  <2>2. \A n \in 0..N : n # 0 => step[<<g[n - 1], n>>] = g[n - 1] \o B!Covers(chunks[n], unit)
    BY <1>4, <1>5, <2>1
  <2>3. QED BY <1>5, <2>2 DEF Solves
<1>7. f = [n \in 0..N |-> IF n = 0 THEN base ELSE f[n - 1] \o B!Covers(chunks[n], unit)]
  <2> DEFINE d == CHOOSE h : h = [n \in 0..N |-> IF n = 0 THEN base ELSE h[n - 1] \o B!Covers(chunks[n], unit)]
  <2>1. f = d
    BY Zenon DEF B!Unpacked, base
  <2>2. d = [n \in 0..N |-> IF n = 0 THEN base ELSE d[n - 1] \o B!Covers(chunks[n], unit)]
    BY <1>6, Zenon
  <2>3. QED BY <2>1, <2>2, Zenon
<1> HIDE DEF f
<1>8. f[0] = base /\ \A n \in 1..N : f[n] = f[n - 1] \o B!Covers(chunks[n], unit)
  <2>1. 0 \in 0..N /\ \A n \in 1..N : n \in 0..N /\ n # 0
    BY <1>1
  <2> HIDE DEF N
  <2>2. QED BY <1>7, <2>1, Zenon
<1>9. \A n \in 0..N : f[n] \in V
  <2> DEFINE T == {n \in 0..N : f[n] \in V}
  <2>1. 0 \in T
    BY <1>1, <1>8
  <2>2. ASSUME NEW n \in 1..N, n - 1 \in T PROVE n \in T
    <3>1. f[n - 1] \in V /\ B!Covers(chunks[n], unit) \in V
      BY <2>2, <1>2
    <3>2. f[n - 1] \o B!Covers(chunks[n], unit) \in V
      BY <3>1, ConcatProperties DEF V
    <3>3. f[n] = f[n - 1] \o B!Covers(chunks[n], unit)
      BY <1>8, Zenon
    <3>4. n \in 0..N
      BY <1>1
    <3>5. QED BY <3>2, <3>3, <3>4, Zenon
  <2> HIDE DEF T, N
  <2>3. \A n \in 0..N : n \in T
    BY <1>1, <2>1, <2>2, UpTo
  <2>4. QED BY <2>3 DEF T
<1>10. QED BY <1>2, <1>8, <1>9 DEF V, base, f

-----------------------------------------------------------------------------
(* Where a walk is in its image.                                            *)

Walks == [op : {"none", "write", "compare"}, at : Nat, i : Nat, left : Nat, pos : Nat,
          fill : Seq(ImageBytes), bad : Nat]

Upto(n) == B!Unpacked(file.chunks, file.unit)[n]
Covered(n) == B!Covers(file.chunks[n], file.unit)
Size(n) == file.chunks[n].blks * file.unit

\* In the middle of a chunk that says something.
InChunk(u) ==
  LET c == file.chunks[u.i]
      past == Size(u.i) - u.left
  IN  /\ u.i > 0 /\ past \in Nat /\ u.at = job.off + Len(Upto(u.i - 1)) + past
      /\ \/ c.type = "raw" /\ u.fill = <<>> /\ u.pos = past /\ past <= Len(c.body) /\ c.says = Size(u.i)
         \/ c.type = "fill" /\ u.fill = c.body /\ Len(c.body) = Word /\ (job.bs % Word = 0 => past % Word = 0)

Place(u) ==
  IF file.kind = "raw" THEN u.at = job.off + u.pos /\ u.pos <= Len(file.data)
  ELSE /\ u.i <= Len(file.chunks) /\ u.i <= file.count
       /\ u.left = 0 => u.at = job.off + Len(Upto(u.i))
       /\ u.left > 0 => InChunk(u)

\* The image as far as the walk has looked at its chunks, and how much of that
\* it is through with.
Seen(u) == IF file.kind = "raw" THEN file.data ELSE Upto(u.i)
Through(u) == u.at - job.off

LEMMA BlkConstants ==
  ASSUME B!BlkwakAssumption, job \in ImageJobs
  PROVE  /\ Word \in Nat \ {0} /\ BlockSize \in Nat \ {0} /\ MaxBody \in Nat \ {0} /\ MaxBlks \in Nat \ {0}
         /\ BlockSize % Word = 0 /\ B!Garbled \in ImageBytes /\ B!Hole \notin ImageBytes
         /\ job.bs \in Nat \ {0} /\ job.off \in Nat /\ job.len \in Nat /\ job.cmd \in {"read", "write", "cmp"}
         /\ job.sparse \in BOOLEAN /\ job.verify \in BOOLEAN /\ job.same \in BOOLEAN /\ job.flaky \in BOOLEAN
         /\ job.dev \in Seq(ImageBytes) /\ B!IsImage(job.file)
<1>1. /\ job.cmd \in {"read", "write", "cmp"} /\ job.bs \in Nat \ {0} /\ {job.off, job.len} \subseteq Nat
      /\ {job.sparse, job.verify, job.same, job.flaky} \subseteq BOOLEAN
      /\ job.dev \in Seq(ImageBytes) /\ B!IsImage(job.file)
  BY Zenon DEF B!BlkwakAssumption
<1>2. {Word, BlockSize, MaxBody, MaxBlks} \subseteq Nat \ {0}
      /\ BlockSize % Word = 0 /\ B!Garbled \in ImageBytes /\ B!Hole \notin ImageBytes
  BY Zenon DEF B!BlkwakAssumption
<1>3. QED BY <1>1, <1>2, Zenon

\* A sparse image.
LEMMA SparseIs ==
  ASSUME B!IsImage(file), file.kind # "raw"
  PROVE  /\ file.kind = "sparse" /\ file.unit \in Nat /\ file.blks \in Nat /\ file.count \in Nat
         /\ file.chunks \in Seq(B!Chunks) /\ Len(file.chunks) \in Nat
         /\ \A n \in 1..Len(file.chunks) :
               /\ file.chunks[n] \in B!Chunks /\ Len(file.chunks[n].body) <= file.chunks[n].says
               /\ file.chunks[n].blks \in Nat /\ file.chunks[n].says \in Nat
               /\ file.chunks[n].body \in Seq(ImageBytes) /\ Len(file.chunks[n].body) \in Nat
               /\ Size(n) \in Nat
<1>1. /\ file.kind = "sparse" /\ file.unit \in Nat /\ file.blks \in Nat /\ file.count \in Nat
      /\ file.chunks \in Seq(B!Chunks)
      /\ \A k \in DOMAIN file.chunks : Len(file.chunks[k].body) <= file.chunks[k].says
  BY DEF B!IsImage
<1>2. Len(file.chunks) \in Nat /\ DOMAIN file.chunks = 1..Len(file.chunks)
      /\ \A n \in 1..Len(file.chunks) : file.chunks[n] \in B!Chunks
  BY <1>1, OfSequences
<1>3. ASSUME NEW n \in 1..Len(file.chunks)
      PROVE /\ file.chunks[n].blks \in Nat /\ file.chunks[n].says \in Nat
            /\ file.chunks[n].body \in Seq(ImageBytes) /\ Len(file.chunks[n].body) \in Nat
            /\ Size(n) \in Nat
  <2>1. file.chunks[n].blks \in Nat /\ file.chunks[n].says \in Nat /\ file.chunks[n].body \in Seq(ImageBytes)
    BY <1>2 DEF B!Chunks
  <2>2. Size(n) \in Nat
    BY <1>1, <2>1 DEF Size
  <2>3. QED BY <2>1, <2>2, OfSequences
<1>4. QED BY <1>1, <1>2, <1>3

\* How one more chunk adds to the image.
LEMMA UptoGrows ==
  ASSUME B!IsImage(file), file.kind # "raw", NEW n \in 1..Len(file.chunks)
  PROVE  /\ Len(Upto(n - 1)) \in Nat /\ Len(Covered(n)) \in Nat
         /\ Len(Upto(n)) = Len(Upto(n - 1)) + Len(Covered(n))
         /\ \A j \in 1..Len(Upto(n - 1)) : Upto(n)[j] = Upto(n - 1)[j]
         /\ \A j \in 1..Len(Covered(n)) : Upto(n)[Len(Upto(n - 1)) + j] = Covered(n)[j]
<1> DEFINE S == BytesOf(file.chunks, file.unit)
           a == Upto(n - 1)
           b == Covered(n)
<1>1. file.chunks \in Seq(B!Chunks) /\ file.unit \in Nat /\ Len(file.chunks) \in Nat
  BY SparseIs
<1>2. n \in Nat /\ n - 1 \in 0..Len(file.chunks)
  BY <1>1
<1>3. a \in Seq(S) /\ b \in Seq(S) /\ Upto(n) = a \o b
  BY <1>1, <1>2, UnpackedIs DEF Upto, Covered
<1> HIDE DEF a, b, S
<1>4. Len(a) \in Nat /\ Len(b) \in Nat
  BY <1>3, OfSequences
<1>5. /\ Len(a \o b) = Len(a) + Len(b)
      /\ \A j \in 1..(Len(a) + Len(b)) : (a \o b)[j] = IF j <= Len(a) THEN a[j] ELSE b[j - Len(a)]
  BY <1>3, ConcatProperties
<1>6. ASSUME NEW j \in 1..Len(a) PROVE (a \o b)[j] = a[j]
  <2>1. j \in 1..(Len(a) + Len(b)) /\ j <= Len(a)
    BY <1>4
  <2>2. QED BY <1>5, <2>1
<1>7. ASSUME NEW j \in 1..Len(b) PROVE (a \o b)[Len(a) + j] = b[j]
  <2>1. Len(a) + j \in 1..(Len(a) + Len(b)) /\ ~(Len(a) + j <= Len(a)) /\ (Len(a) + j) - Len(a) = j
    BY <1>4
  <2>2. QED BY <1>5, <2>1
<1>8. QED BY <1>3, <1>4, <1>5, <1>6, <1>7 DEF a, b

LEMMA UptoStarts ==
  ASSUME B!IsImage(file), file.kind # "raw"
  PROVE  Upto(0) = <<>> /\ \A n \in 0..Len(file.chunks) : Len(Upto(n)) \in Nat
<1>1. file.chunks \in Seq(B!Chunks) /\ file.unit \in Nat /\ Len(file.chunks) \in Nat
  BY SparseIs
<1>2. \A n \in 0..Len(file.chunks) : Upto(n) \in Seq(BytesOf(file.chunks, file.unit))
  BY <1>1, UnpackedIs DEF Upto
<1>3. Upto(0) = <<>>
  BY <1>1, UnpackedIs DEF Upto
<1>4. QED BY <1>2, <1>3, OfSequences

\* A part of a sequence.
LEMMA PartIs ==
  ASSUME NEW S, NEW s \in Seq(S), NEW a \in Nat, NEW n \in Nat, a + n <= Len(s)
  PROVE  /\ SubSeq(s, a + 1, a + n) \in Seq(S) /\ Len(SubSeq(s, a + 1, a + n)) = n
         /\ \A j \in 1..n : SubSeq(s, a + 1, a + n)[j] = s[a + j]
<1> DEFINE b == a + 1
           c == a + n
<1>1. b \in Int /\ c \in Int /\ c - b + 1 = n /\ \A j \in b..c : j \in 1..Len(s)
  OBVIOUS
<1>2. \A j \in b..c : s[j] \in S
  BY <1>1, OfSequences
<1>3. (b <= c => n = c - b + 1) /\ (~(b <= c) => n = 0) /\ \A j \in 1..n : b + j - 1 = a + j
  OBVIOUS
<1> HIDE DEF b, c
<1>4. /\ SubSeq(s, b, c) \in Seq(S)
      /\ Len(SubSeq(s, b, c)) = IF b <= c THEN c - b + 1 ELSE 0
      /\ \A j \in 1..(c - b + 1) : SubSeq(s, b, c)[j] = s[b + j - 1]
  BY <1>1, <1>2, SubSeqProperties
<1>5. QED BY <1>1, <1>3, <1>4 DEF b, c

\* What is a whole number of words does not count in a remainder.
LEMMA WholeWords ==
  ASSUME NEW m \in Nat \ {0}, NEW a \in Nat, NEW b \in Nat, a % m = 0
  PROVE  (a + b) % m = b % m
<1> DEFINE q == a \div m
           p == b \div m
           r == b % m
<1>1. q \in Nat /\ a = m * q
  <2>1. q \in Nat /\ a = m * q + (a % m)
    BY DivisionParts
  <2>2. m * q \in Nat
    BY <2>1
  <2> HIDE DEF q
  <2>3. QED BY <2>1, <2>2
<1>2. p \in Nat /\ r \in Nat /\ r < m /\ b = m * p + r
  BY DivisionParts
<1> HIDE DEF q, p, r
<1>3. a + b = m * (q + p) + r /\ q + p \in Nat
  <2>1. m * (q + p) = m * q + m * p /\ m * q \in Nat /\ m * p \in Nat
    BY <1>1, <1>2
  <2>2. QED BY <1>1, <1>2, <2>1
<1>4. (m * (q + p) + r) % m = r
  BY <1>2, <1>3, DivisionUnique
<1>5. QED BY <1>3, <1>4 DEF r

\* A walk gets no further than what the image says.
LEMMA PlaceWithin ==
  ASSUME B!BlkwakAssumption, job \in ImageJobs, B!IsImage(file), NEW u \in Walks, Place(u)
  PROVE  Through(u) \in Nat /\ Through(u) <= Len(Seen(u)) /\ Len(Seen(u)) \in Nat
<1>1. u.at \in Nat /\ u.i \in Nat /\ u.left \in Nat /\ u.pos \in Nat /\ job.off \in Nat
  BY BlkConstants DEF Walks
<1>2. CASE file.kind = "raw"
  <2>1. Len(file.data) \in Nat
    BY <1>2, OfSequences DEF B!IsImage
  <2>2. u.at = job.off + u.pos /\ u.pos <= Len(file.data) /\ Seen(u) = file.data
    BY <1>2 DEF Place, Seen
  <2>3. QED BY <1>1, <2>1, <2>2 DEF Through
<1>3. CASE file.kind # "raw"
  <2>1. u.i <= Len(file.chunks) /\ Seen(u) = Upto(u.i) /\ u.i \in 0..Len(file.chunks)
    BY <1>1, <1>3, SparseIs DEF Place, Seen
  <2>2. Len(Upto(u.i)) \in Nat
    BY <1>3, <2>1, UptoStarts
  <2>3. CASE u.left = 0
    <3>1. u.at = job.off + Len(Upto(u.i))
      BY <1>3, <2>3 DEF Place
    <3>2. QED BY <1>1, <2>1, <2>2, <3>1 DEF Through
  <2>4. CASE u.left # 0
    <3>1. InChunk(u)
      BY <1>1, <1>3, <2>4 DEF Place
    <3> DEFINE past == Size(u.i) - u.left
               c == file.chunks[u.i]
    <3>2. u.i \in 1..Len(file.chunks)
      BY <2>1, <3>1 DEF InChunk
    <3>3. /\ c \in B!Chunks /\ file.unit \in Nat /\ Size(u.i) \in Nat
          /\ Covered(u.i) = B!Covers(c, file.unit) /\ Size(u.i) = c.blks * file.unit
      BY <1>3, <3>2, SparseIs DEF Covered, Size
    <3>4. past <= Len(Covered(u.i))
      <4>1. CASE c.type = "raw"
        <5>1. past <= Len(c.body)
          BY <3>1, <4>1 DEF InChunk
        <5>2. Covered(u.i) = c.body
          BY <3>3, <4>1, CoversIs
        <5>3. QED BY <5>1, <5>2
      <4>2. CASE c.type = "fill"
        <5>1. Len(Covered(u.i)) = Size(u.i)
          <6>1. Len(B!Covers(c, file.unit)) = c.blks * file.unit
            BY <3>3, <4>2, CoversIs
          <6>2. QED BY <3>3, <6>1
        <5>2. QED BY <1>1, <3>3, <5>1
      <4>3. QED BY <3>1, <4>1, <4>2 DEF InChunk
    <3>5. past \in Nat /\ u.at = job.off + Len(Upto(u.i - 1)) + past
      BY <3>1 DEF InChunk
    <3> HIDE DEF past
    <3>6. /\ Len(Upto(u.i - 1)) \in Nat /\ Len(Covered(u.i)) \in Nat
          /\ Len(Upto(u.i)) = Len(Upto(u.i - 1)) + Len(Covered(u.i))
      BY <1>3, <3>2, UptoGrows
    <3>7. QED BY <1>1, <2>1, <2>2, <3>4, <3>5, <3>6 DEF Through
  <2>5. QED BY <2>3, <2>4
<1>4. QED BY <1>2, <1>3

\* A fill is exact only if buffers hold whole words.
FillsExact == B!FillsExact

\* What the next span d is, and where the walk v is after it, both of the raw file.
LEMMA RawSpan ==
  ASSUME B!BlkwakAssumption, job \in ImageJobs, B!IsImage(file), walk \in Walks, Place(walk),
         B!HasPart, file.kind = "raw"
  PROVE  LET d == B!Part.d
             v == B!Part.next
         IN  /\ d \in Seq(ImageBytes) /\ Len(d) \in Nat /\ Len(d) > 0
             /\ v \in Walks /\ v.op = walk.op /\ v.bad = walk.bad /\ v.i = walk.i
             /\ v.at = walk.at + Len(d) /\ Place(v)
             /\ \A j \in 1..Len(d) : Seen(walk)[Through(walk) + j] = d[j]
<1> DEFINE d == B!Part.d
           v == B!Part.next
           n == B!Least(job.bs, Len(file.data) - walk.pos)
<1>1. /\ walk.at \in Nat /\ walk.pos \in Nat /\ job.off \in Nat /\ job.bs \in Nat \ {0}
  BY BlkConstants DEF Walks
<1>2. file.data \in Seq(ImageBytes) /\ Len(file.data) \in Nat
  BY OfSequences DEF B!IsImage
<1>3. walk.at = job.off + walk.pos /\ walk.pos < Len(file.data)
  BY DEF Place, B!HasPart
<1>4. n \in Nat /\ n > 0 /\ walk.pos + n <= Len(file.data)
  BY <1>1, <1>2, <1>3 DEF B!Least
<1>5. /\ B!Part.d = B!Bytes(file.data, walk.pos, n)
      /\ B!Part.next = [walk EXCEPT !.at = @ + Len(B!Part.d), !.pos = @ + Len(B!Part.d)]
  BY DEF B!Part, B!RawPart
<1> HIDE DEF n
<1>6. d \in Seq(ImageBytes) /\ Len(d) = n /\ \A j \in 1..n : d[j] = file.data[walk.pos + j]
  <2>1. d = SubSeq(file.data, walk.pos + 1, walk.pos + n)
    BY <1>5 DEF B!Bytes
  <2> DEFINE a == walk.pos
             f == file.data
  <2>2. f \in Seq(ImageBytes) /\ a \in Nat /\ n \in Nat /\ a + n <= Len(f)
    BY <1>1, <1>2, <1>4
  <2> HIDE DEF d, a, f
  <2>3. /\ SubSeq(f, a + 1, a + n) \in Seq(ImageBytes) /\ Len(SubSeq(f, a + 1, a + n)) = n
        /\ \A j \in 1..n : SubSeq(f, a + 1, a + n)[j] = f[a + j]
    BY <2>2, PartIs
  <2>4. QED BY <2>1, <2>3 DEF a, f
<1> HIDE DEF d
<1>7. v = [walk EXCEPT !.at = @ + n, !.pos = @ + n]
  BY <1>5, <1>6 DEF d
<1>8. /\ v \in Walks /\ v.op = walk.op /\ v.bad = walk.bad /\ v.i = walk.i
      /\ v.at = walk.at + n /\ v.pos = walk.pos + n
  <2>1. walk.at + n \in Nat /\ walk.pos + n \in Nat
    BY <1>1, <1>4
  <2> HIDE DEF v
  <2>2. QED BY <1>7, <2>1 DEF Walks
<1> HIDE DEF v
<1>9. Place(v)
  <2>1. v.at = job.off + v.pos /\ v.pos <= Len(file.data)
    BY <1>1, <1>3, <1>4, <1>8
  <2>2. QED BY <2>1 DEF Place
<1>10. ASSUME NEW j \in 1..n PROVE Seen(walk)[Through(walk) + j] = d[j]
  <2>1. Through(walk) + j = walk.pos + j
    BY <1>1, <1>3 DEF Through
  <2>2. QED BY <1>6, <2>1 DEF Seen
<1>11. QED BY <1>4, <1>6, <1>8, <1>9, <1>10 DEF d, v

\* Where a walk goes to within a chunk.
\* The walk n bytes further on in a chunk.
Onward(n) == [walk EXCEPT !.at = @ + n, !.left = @ - n,
                          !.pos = IF walk.fill # <<>> THEN @ ELSE @ + n]

LEMMA ChunkMoves ==
  ASSUME walk \in Walks, NEW n \in Nat, n <= walk.left
  PROVE  LET v == Onward(n) IN
         /\ v \in Walks /\ v.op = walk.op /\ v.bad = walk.bad /\ v.i = walk.i /\ v.fill = walk.fill
         /\ v.at = walk.at + n /\ v.left = walk.left - n
         /\ v.pos = IF walk.fill # <<>> THEN walk.pos ELSE walk.pos + n
<1>1. walk.at \in Nat /\ walk.left \in Nat /\ walk.pos \in Nat
  BY DEF Walks
<1> DEFINE v == Onward(n)
           a == walk.at + n
           b == walk.left - n
           c == IF walk.fill # <<>> THEN walk.pos ELSE walk.pos + n
<1>2. a \in Nat /\ b \in Nat /\ c \in Nat
  BY <1>1
<1>3. v = [walk EXCEPT !.at = a, !.left = b, !.pos = c]
  BY DEF Onward
<1> HIDE DEF a, b, c, v
<1>4. /\ v \in Walks /\ v.op = walk.op /\ v.bad = walk.bad /\ v.i = walk.i /\ v.fill = walk.fill
      /\ v.at = a /\ v.left = b /\ v.pos = c
  BY <1>2, <1>3 DEF Walks
<1>5. QED BY <1>4 DEF a, b, c, v

\* The next span of a raw chunk.
LEMMA BodySpan ==
  ASSUME B!BlkwakAssumption, job \in ImageJobs, B!IsImage(file), walk \in Walks, Place(walk),
         B!HasPart, ~B!Missing, file.kind # "raw", walk.fill = <<>>
  PROVE  LET d == B!Part.d
             v == B!Part.next
         IN  /\ d \in Seq(ImageBytes) /\ Len(d) \in Nat /\ Len(d) > 0
             /\ v \in Walks /\ v.op = walk.op /\ v.bad = walk.bad /\ v.i = walk.i
             /\ v.at = walk.at + Len(d) /\ Place(v)
             /\ \A j \in 1..Len(d) : Seen(walk)[Through(walk) + j] = d[j]
<1> DEFINE d == B!Part.d
           v == B!Part.next
           c == file.chunks[walk.i]
           len == Size(walk.i)
           n == B!Least(job.bs, walk.left)
           past == len - walk.left
           before == Len(Upto(walk.i - 1))
<1>1. /\ walk.at \in Nat /\ walk.pos \in Nat /\ walk.left \in Nat /\ walk.i \in Nat
      /\ job.off \in Nat /\ job.bs \in Nat \ {0} /\ Word \in Nat \ {0}
  BY BlkConstants DEF Walks
<1>2. walk.left > 0
  BY DEF B!HasPart
<1>3. walk.i <= Len(file.chunks) /\ walk.i <= file.count /\ InChunk(walk)
  BY <1>2 DEF Place
<1>4. walk.i > 0 /\ past \in Nat /\ walk.at = job.off + before + past
  BY <1>3 DEF InChunk
<1>5. walk.i \in 1..Len(file.chunks)
  BY <1>1, <1>3, <1>4, SparseIs
<1>6. /\ c \in B!Chunks /\ file.unit \in Nat /\ c.body \in Seq(ImageBytes) /\ Len(c.body) \in Nat
      /\ Len(c.body) <= c.says /\ file.kind = "sparse" /\ len \in Nat
  BY <1>5, SparseIs
<1>7. c.type = "raw" /\ walk.pos = past /\ past <= Len(c.body) /\ c.says = len
  <2>1. \/ c.type = "raw" /\ walk.pos = past /\ past <= Len(c.body) /\ c.says = len
        \/ walk.fill = c.body /\ Len(c.body) = Word
    BY <1>3 DEF InChunk
  <2>2. ~(walk.fill = c.body /\ Len(c.body) = Word)
    BY <1>1, <1>6, EmptySeq
  <2>3. QED BY <2>1, <2>2
<1>8. n \in Nat /\ n > 0 /\ n <= walk.left /\ walk.pos + n <= Len(c.body)
  <2>1. n \in Nat /\ n > 0 /\ n <= walk.left
    BY <1>1, <1>2 DEF B!Least
  <2>2. ~(walk.pos + n > Len(c.body))
    BY <1>6 DEF B!Missing
  <2> HIDE DEF n, c
  <2>3. QED BY <1>1, <1>6, <2>1, <2>2
<1>9. d = SubSeq(c.body, walk.pos + 1, walk.pos + n)
      /\ v = [walk EXCEPT !.at = @ + n, !.left = @ - n, !.pos = IF walk.fill # <<>> THEN @ ELSE @ + n]
  BY DEF B!Part, B!ChunkPart, B!Bytes
<1>10. d \in Seq(ImageBytes) /\ Len(d) = n /\ \A j \in 1..n : d[j] = c.body[walk.pos + j]
  <2> DEFINE a == walk.pos
             f == c.body
  <2>1. f \in Seq(ImageBytes) /\ a \in Nat /\ n \in Nat /\ a + n <= Len(f)
    BY <1>1, <1>6, <1>8
  <2> HIDE DEF d, a, f, n
  <2>2. /\ SubSeq(f, a + 1, a + n) \in Seq(ImageBytes) /\ Len(SubSeq(f, a + 1, a + n)) = n
        /\ \A j \in 1..n : SubSeq(f, a + 1, a + n)[j] = f[a + j]
    BY <2>1, PartIs
  <2>3. QED BY <1>9, <2>2 DEF a, f
<1> HIDE DEF d, n
<1>11. /\ v \in Walks /\ v.op = walk.op /\ v.bad = walk.bad /\ v.i = walk.i /\ v.fill = <<>>
       /\ v.at = walk.at + n /\ v.left = walk.left - n /\ v.pos = walk.pos + n
  <2> HIDE DEF v
  <2>1. v = Onward(n)
    BY <1>9 DEF Onward
  <2>2. n \in Nat /\ n <= walk.left
    BY <1>8
  <2>3. QED BY <2>1, <2>2, ChunkMoves
<1> HIDE DEF v
<1>12. /\ before \in Nat /\ Len(Upto(walk.i)) = before + Len(c.body)
       /\ \A j \in 1..Len(c.body) : Upto(walk.i)[before + j] = c.body[j]
  <2>1. Covered(walk.i) = c.body
    BY <1>6, <1>7, CoversIs DEF Covered
  <2>2. QED BY <1>5, <2>1, UptoGrows
<1> DEFINE body == c.body
<1>13. Place(v)
  <2>1. v.left = 0 => v.at = job.off + Len(Upto(v.i))
    <3>1. SUFFICES ASSUME v.left = 0 PROVE v.at = job.off + Len(Upto(v.i))
      OBVIOUS
    <3>2. Len(body) <= len /\ walk.left = n /\ past + n <= Len(body) /\ Len(body) \in Nat
      BY <1>1, <1>6, <1>7, <1>8, <1>11, <3>1
    <3>3. Len(body) = past + n
      <4> HIDE DEF body, len
      <4>1. QED BY <1>1, <1>4, <1>8, <3>2, <1>6
    <3>4. Len(Upto(v.i)) = before + Len(body)
      BY <1>11, <1>12
    <3>5. v.at = walk.at + n /\ walk.at = job.off + before + past /\ before \in Nat /\ past \in Nat
      BY <1>4, <1>11, <1>12
    <3> HIDE DEF body, before, past, len
    <3>6. QED BY <1>1, <1>8, <3>3, <3>4, <3>5
  <2>2. v.left > 0 => InChunk(v)
    <3>1. Size(v.i) = len /\ file.chunks[v.i] = c /\ Upto(v.i - 1) = Upto(walk.i - 1)
      BY <1>11
    <3>2. len - v.left = past + n /\ past + n \in Nat /\ past + n <= Len(body) /\ v.pos = past + n
      <4>1. /\ v.left = walk.left - n /\ v.pos = walk.pos + n /\ walk.pos = past
            /\ walk.pos + n <= Len(body) /\ past \in Nat /\ len \in Nat
        BY <1>4, <1>6, <1>7, <1>8, <1>11
      <4>2. past = len - walk.left
        OBVIOUS
      <4> HIDE DEF past, len, body
      <4>3. QED BY <1>1, <1>8, <4>1, <4>2
    <3>3. v.at = job.off + before + (past + n)
      <4> HIDE DEF before, past
      <4>1. QED BY <1>1, <1>4, <1>8, <1>11, <1>12
    <3> HIDE DEF past, len
    <3>4. QED BY <1>4, <1>7, <1>11, <3>1, <3>2, <3>3 DEF InChunk
  <2>3. QED BY <1>3, <1>11, <2>1, <2>2 DEF Place
<1>14. ASSUME NEW j \in 1..n PROVE Seen(walk)[Through(walk) + j] = d[j]
  <2>1. Through(walk) + j = before + (walk.pos + j) /\ walk.pos + j \in 1..Len(body)
    <3>1. Through(walk) = before + walk.pos
      <4> HIDE DEF before, past
      <4>1. QED BY <1>1, <1>4, <1>7, <1>12 DEF Through
    <3>2. walk.pos + n <= Len(body) /\ Len(body) \in Nat /\ before \in Nat
      BY <1>6, <1>8, <1>12
    <3> DEFINE p == walk.pos
    <3>3. p \in Nat /\ j \in Nat /\ j <= n /\ j > 0 /\ p + n <= Len(body)
      BY <1>1, <1>8, <3>2
    <3>4. Through(walk) = before + p
      BY <3>1
    <3> HIDE DEF before, body, p
    <3>5. Through(walk) + j = before + (p + j)
      BY <3>2, <3>3, <3>4
    <3>6. p + j \in 1..Len(body)
      BY <1>8, <3>2, <3>3
    <3>7. QED BY <3>5, <3>6 DEF p
  <2>2. Seen(walk) = Upto(walk.i)
    BY DEF Seen
  <2>3. QED BY <1>10, <1>12, <2>1, <2>2
<1>15. QED BY <1>8, <1>10, <1>11, <1>13, <1>14 DEF d, v

\* A pattern over and over.
LEMMA RepeatIs ==
  ASSUME NEW S, NEW f \in Seq(S), Len(f) > 0, NEW n \in Nat
  PROVE  /\ B!Repeat(f, n) \in Seq(S) /\ Len(B!Repeat(f, n)) = n
         /\ \A j \in 1..n : B!Repeat(f, n)[j] = f[((j - 1) % Len(f)) + 1]
<1> DEFINE m == Len(f)
           r == [j \in 1..n |-> f[((j - 1) % m) + 1]]
<1>1. m \in Nat \ {0}
  BY OfSequences
<1>2. ASSUME NEW j \in 1..n PROVE f[((j - 1) % m) + 1] \in S
  <2> DEFINE x == (j - 1) % m
  <2>1. j - 1 \in Nat
    OBVIOUS
  <2>2. x \in Nat /\ x < m
    <3> HIDE DEF m
    <3>1. QED BY <1>1, <2>1, DivisionParts
  <2> HIDE DEF x
  <2>3. x + 1 \in 1..m
    BY <1>1, <2>2
  <2>4. f[x + 1] \in S
    BY <2>3, OfSequences
  <2>5. QED BY <2>4 DEF x
<1>3. r \in [1..n -> S]
  BY <1>2
<1>4. B!Repeat(f, n) = r
  BY DEF B!Repeat
<1>5. \A j \in 1..n : r[j] = f[((j - 1) % m) + 1]
  OBVIOUS
<1> HIDE DEF r, m
<1>6. r \in Seq(S) /\ Len(r) = n
  BY <1>3, AsSequence
<1>7. QED BY <1>4, <1>5, <1>6 DEF m

\* The next span of a fill: the pattern from its start.
LEMMA FillSpan ==
  ASSUME B!BlkwakAssumption, job \in ImageJobs, B!IsImage(file), walk \in Walks, Place(walk),
         B!HasPart, file.kind # "raw", walk.fill # <<>>
  PROVE  LET d == B!Part.d
             v == B!Part.next
         IN  /\ d \in Seq(ImageBytes) /\ Len(d) \in Nat /\ Len(d) > 0
             /\ v \in Walks /\ v.op = walk.op /\ v.bad = walk.bad /\ v.i = walk.i
             /\ v.at = walk.at + Len(d) /\ Place(v)
             /\ \A j \in 1..Len(d) : /\ Seen(walk)[Through(walk) + j] \in ImageBytes
                                     /\ FillsExact => Seen(walk)[Through(walk) + j] = d[j]
<1> DEFINE d == B!Part.d
           v == B!Part.next
           c == file.chunks[walk.i]
           len == Size(walk.i)
           n == B!Least(job.bs, walk.left)
           past == len - walk.left
           before == Len(Upto(walk.i - 1))
<1>1. /\ walk.at \in Nat /\ walk.pos \in Nat /\ walk.left \in Nat /\ walk.i \in Nat
      /\ job.off \in Nat /\ job.bs \in Nat \ {0} /\ Word \in Nat \ {0}
  BY BlkConstants DEF Walks
<1>2. walk.left > 0
  BY DEF B!HasPart
<1>3. walk.i <= Len(file.chunks) /\ walk.i <= file.count /\ InChunk(walk)
  BY <1>2 DEF Place
<1>4. walk.i > 0 /\ past \in Nat /\ walk.at = job.off + before + past
  BY <1>3 DEF InChunk
<1>5. walk.i \in 1..Len(file.chunks)
  BY <1>1, <1>3, <1>4, SparseIs
<1>6. /\ c \in B!Chunks /\ file.unit \in Nat /\ c.body \in Seq(ImageBytes) /\ file.kind = "sparse" /\ len \in Nat
  BY <1>5, SparseIs
<1>7. c.type = "fill" /\ walk.fill = c.body /\ Len(c.body) = Word /\ (job.bs % Word = 0 => past % Word = 0)
  BY <1>3 DEF InChunk
<1>8. n \in Nat /\ n > 0 /\ n <= walk.left /\ n <= job.bs /\ (n # job.bs => n = walk.left)
  BY <1>1, <1>2 DEF B!Least
<1> DEFINE f == B!Repeat(c.body, job.bs)
<1>9. d = SubSeq(f, 0 + 1, 0 + n)
      /\ v = [walk EXCEPT !.at = @ + n, !.left = @ - n, !.pos = IF walk.fill # <<>> THEN @ ELSE @ + n]
  BY <1>7 DEF B!Part, B!ChunkPart, B!Bytes
<1>10. f \in Seq(ImageBytes) /\ Len(f) = job.bs /\ \A j \in 1..job.bs : f[j] = c.body[((j - 1) % Word) + 1]
  <2>1. Len(c.body) > 0
    BY <1>1, <1>7
  <2> DEFINE b == c.body
             m == job.bs
  <2>2. b \in Seq(ImageBytes) /\ Len(b) > 0 /\ m \in Nat /\ Len(b) = Word
    BY <1>1, <1>6, <1>7, <2>1
  <2> HIDE DEF b, m
  <2>3. /\ B!Repeat(b, m) \in Seq(ImageBytes) /\ Len(B!Repeat(b, m)) = m
        /\ \A j \in 1..m : B!Repeat(b, m)[j] = b[((j - 1) % Len(b)) + 1]
    BY <2>2, RepeatIs
  <2>4. QED BY <2>2, <2>3 DEF b, m
<1> HIDE DEF f
<1>11. d \in Seq(ImageBytes) /\ Len(d) = n /\ \A j \in 1..n : d[j] = c.body[((j - 1) % Word) + 1]
  <2> DEFINE a == 0
  <2>1. a \in Nat /\ n \in Nat /\ a + n <= Len(f) /\ d = SubSeq(f, a + 1, a + n)
    BY <1>1, <1>8, <1>9, <1>10
  <2>2. \A j : a + j = 0 + j
    OBVIOUS
  <2>3. \A j \in 1..n : 0 + j = j /\ j \in 1..job.bs
    BY <1>1, <1>8
  <2> HIDE DEF d, a, n
  <2>4. /\ SubSeq(f, a + 1, a + n) \in Seq(ImageBytes) /\ Len(SubSeq(f, a + 1, a + n)) = n
        /\ \A j \in 1..n : SubSeq(f, a + 1, a + n)[j] = f[a + j]
    BY <1>10, <2>1, PartIs
  <2>5. \A j \in 1..n : d[j] = f[j]
    BY <2>1, <2>2, <2>3, <2>4
  <2>6. QED BY <1>10, <2>1, <2>3, <2>4, <2>5
<1> HIDE DEF d, n
<1>12. /\ v \in Walks /\ v.op = walk.op /\ v.bad = walk.bad /\ v.i = walk.i /\ v.fill = walk.fill
       /\ v.at = walk.at + n /\ v.left = walk.left - n
  <2>1. n \in Nat /\ n <= walk.left
    BY <1>8
  <2>2. v = Onward(n)
    BY <1>9 DEF Onward
  <2> HIDE DEF v
  <2>3. QED BY <2>1, <2>2, ChunkMoves
<1> HIDE DEF v
<1>13. /\ before \in Nat /\ Len(Upto(walk.i)) = before + len
       /\ \A j \in 1..len : Upto(walk.i)[before + j] = c.body[((j - 1) % Word) + 1]
  <2>1. /\ Len(B!Covers(c, file.unit)) = c.blks * file.unit
        /\ \A j \in 1..(c.blks * file.unit) : B!Covers(c, file.unit)[j] = c.body[((j - 1) % Len(c.body)) + 1]
    BY <1>6, <1>7, CoversIs
  <2>2. Covered(walk.i) = B!Covers(c, file.unit) /\ len = c.blks * file.unit
    BY DEF Covered, Size
  <2>3. Len(Covered(walk.i)) = len /\ \A j \in 1..len : Covered(walk.i)[j] = c.body[((j - 1) % Word) + 1]
    BY <1>7, <2>1, <2>2
  <2> HIDE DEF len
  <2>4. QED BY <1>5, <2>3, UptoGrows
<1>14. past + n <= len /\ (walk.left = n => past + n = len) /\ len - (walk.left - n) = past + n
  <2>1. past = len - walk.left
    OBVIOUS
  <2>2. n <= walk.left /\ past \in Nat /\ len \in Nat
    BY <1>4, <1>6, <1>8
  <2> HIDE DEF past, len
  <2>3. past + n <= len /\ len - (walk.left - n) = past + n
    BY <1>1, <1>8, <2>1, <2>2
  <2>4. walk.left = n => past + n = len
    BY <1>1, <1>8, <2>1, <2>2
  <2>5. QED BY <2>3, <2>4
<1>15. Place(v)
  <2>1. v.left = 0 => v.at = job.off + Len(Upto(v.i))
    <3>1. SUFFICES ASSUME v.left = 0 PROVE v.at = job.off + Len(Upto(v.i))
      OBVIOUS
    <3>2. walk.left = n
      BY <1>1, <1>8, <1>12, <3>1
    <3>3. v.at = walk.at + n /\ walk.at = job.off + before + past /\ before \in Nat /\ past \in Nat
          /\ Len(Upto(v.i)) = before + len /\ past + n = len
      BY <1>4, <1>12, <1>13, <1>14, <3>2
    <3> HIDE DEF before, past, len
    <3>4. QED BY <1>1, <1>8, <3>3
  <2>2. v.left > 0 => InChunk(v)
    <3>1. SUFFICES ASSUME v.left > 0 PROVE InChunk(v)
      OBVIOUS
    <3>2. Size(v.i) = len /\ file.chunks[v.i] = c /\ Upto(v.i - 1) = Upto(walk.i - 1)
      BY <1>12
    <3>3. len - v.left = past + n
      BY <1>12, <1>14
    <3>4. past + n \in Nat
      <4> HIDE DEF past
      <4>1. QED BY <1>4, <1>8
    <3>5. v.at = job.off + before + (past + n)
      <4>1. v.at = walk.at + n /\ walk.at = job.off + before + past /\ before \in Nat /\ past \in Nat
        BY <1>4, <1>12, <1>13
      <4> HIDE DEF before, past
      <4>2. QED BY <1>1, <1>8, <4>1
    <3>6. job.bs % Word = 0 => (past + n) % Word = 0
      <4>1. SUFFICES ASSUME job.bs % Word = 0 PROVE (past + n) % Word = 0
        OBVIOUS
      <4>2. past % Word = 0
        BY <1>7, <4>1
      <4>3. n # walk.left
        BY <1>1, <1>8, <1>12, <3>1
      <4>4. n % Word = 0
        BY <1>8, <4>1, <4>3
      <4> HIDE DEF past
      <4>5. (past + n) % Word = n % Word
        BY <1>1, <1>4, <1>8, <4>2, WholeWords
      <4>6. QED BY <4>4, <4>5
    <3> HIDE DEF past, len
    <3>7. QED BY <1>4, <1>7, <1>12, <3>2, <3>3, <3>4, <3>5, <3>6 DEF InChunk
  <2>3. QED BY <1>3, <1>12, <2>1, <2>2 DEF Place
<1>16. ASSUME NEW j \in 1..n
       PROVE  /\ Seen(walk)[Through(walk) + j] \in ImageBytes
              /\ FillsExact => Seen(walk)[Through(walk) + j] = d[j]
  <2>1. Through(walk) + j = before + (past + j) /\ past + j \in 1..len
    <3>1. walk.at = job.off + before + past /\ before \in Nat /\ past \in Nat /\ past + n <= len
      BY <1>4, <1>13, <1>14
    <3> HIDE DEF before, past, len
    <3>2. Through(walk) = before + past
      BY <1>1, <3>1 DEF Through
    <3>3. j \in Nat /\ j <= n /\ j > 0
      BY <1>8
    <3>4. Through(walk) + j = before + (past + j)
      BY <3>1, <3>2, <3>3
    <3>5. past + j \in 1..len
      BY <1>6, <1>8, <3>1, <3>3
    <3>6. QED BY <3>4, <3>5
  <2>2. Seen(walk) = Upto(walk.i)
    BY DEF Seen
  <2>3. Seen(walk)[Through(walk) + j] = c.body[(((past + j) - 1) % Word) + 1]
    BY <1>13, <2>1, <2>2
  <2>4. c.body[(((past + j) - 1) % Word) + 1] \in ImageBytes
    <3> DEFINE x == ((past + j) - 1) % Word
    <3>1. (past + j) - 1 \in Nat
      <4> HIDE DEF past
      <4>1. QED BY <1>4, <1>8
    <3>2. x \in Nat /\ x < Word
      <4> HIDE DEF past
      <4>1. QED BY <1>1, <3>1, DivisionParts
    <3> HIDE DEF x
    <3>3. x + 1 \in 1..Len(c.body)
      BY <1>1, <1>7, <3>2
    <3>4. c.body[x + 1] \in ImageBytes
      BY <1>6, <3>3, OfSequences
    <3>5. QED BY <3>4 DEF x
  <2>5. ASSUME FillsExact PROVE past % Word = 0
    <3>1. walk.i \in DOMAIN file.chunks
      BY <1>5, SparseIs, OfSequences
    <3>2. job.bs % Word = 0
      BY <1>7, <2>5, <3>1 DEF FillsExact, B!FillsExact
    <3>3. QED BY <1>7, <3>2
  <2>6. ASSUME FillsExact PROVE ((past + j) - 1) % Word = (j - 1) % Word
    <3>1. past % Word = 0 /\ past \in Nat
      BY <1>4, <2>5, <2>6
    <3> HIDE DEF past
    <3>2. (past + j) - 1 = past + (j - 1) /\ j - 1 \in Nat
      BY <1>8, <3>1
    <3> DEFINE b == j - 1
    <3>3. (past + b) % Word = b % Word
      <4>1. b \in Nat
        BY <3>2
      <4> HIDE DEF b
      <4>2. QED BY <1>1, <3>1, <4>1, WholeWords
    <3>4. QED BY <3>2, <3>3
  <2>7. QED BY <1>11, <2>3, <2>4, <2>6
<1>17. QED BY <1>8, <1>11, <1>12, <1>15, <1>16 DEF d, v

\* The next span, wherever it comes from.
LEMMA SpanIs ==
  ASSUME B!BlkwakAssumption, job \in ImageJobs, B!IsImage(file), walk \in Walks, Place(walk),
         B!HasPart, ~B!Missing
  PROVE  LET d == B!Part.d
             v == B!Part.next
         IN  /\ d \in Seq(ImageBytes) /\ Len(d) \in Nat /\ Len(d) > 0
             /\ v \in Walks /\ v.op = walk.op /\ v.bad = walk.bad /\ v.i = walk.i
             /\ v.at = walk.at + Len(d) /\ Place(v)
             /\ \A j \in 1..Len(d) : /\ Seen(walk)[Through(walk) + j] \in ImageBytes
                                     /\ FillsExact => Seen(walk)[Through(walk) + j] = d[j]
<1> DEFINE d == B!Part.d
           v == B!Part.next
<1>1. /\ d \in Seq(ImageBytes) /\ Len(d) \in Nat /\ Len(d) > 0
      /\ v \in Walks /\ v.op = walk.op /\ v.bad = walk.bad /\ v.i = walk.i
      /\ v.at = walk.at + Len(d) /\ Place(v)
  BY RawSpan, BodySpan, FillSpan
<1>2. ASSUME NEW j \in 1..Len(d)
      PROVE  /\ Seen(walk)[Through(walk) + j] \in ImageBytes
             /\ FillsExact => Seen(walk)[Through(walk) + j] = d[j]
  <2>1. CASE file.kind = "raw"
    <3>1. Seen(walk)[Through(walk) + j] = d[j]
      BY <2>1, RawSpan
    <3>2. QED BY <1>1, <3>1, OfSequences
  <2>2. CASE file.kind # "raw" /\ walk.fill = <<>>
    <3>1. Seen(walk)[Through(walk) + j] = d[j]
      BY <2>2, BodySpan
    <3>2. QED BY <1>1, <3>1, OfSequences
  <2>3. CASE file.kind # "raw" /\ walk.fill # <<>>
    BY <2>3, FillSpan
  <2>4. QED BY <2>1, <2>2, <2>3
<1>3. QED BY <1>1, <1>2

\* What a device holds after a write.
LEMMA SpliceIs ==
  ASSUME NEW S, NEW s \in Seq(S), NEW d \in Seq(S), NEW off \in Nat, off + Len(d) <= Len(s)
  PROVE  /\ B!Splice(s, off, d) \in Seq(S) /\ Len(B!Splice(s, off, d)) = Len(s)
         /\ \A k \in 1..Len(s) :
               B!Splice(s, off, d)[k] = IF k \in (off + 1)..(off + Len(d)) THEN d[k - off] ELSE s[k]
<1> DEFINE n == Len(s)
           m == Len(d)
           Fn == [k \in 1..n |-> IF k \in (off + 1)..(off + m) THEN d[k - off] ELSE s[k]]
<1>1. n \in Nat /\ m \in Nat /\ DOMAIN s = 1..n
  BY OfSequences
<1>2. ASSUME NEW k \in 1..n PROVE (IF k \in (off + 1)..(off + m) THEN d[k - off] ELSE s[k]) \in S
  <2>1. CASE k \in (off + 1)..(off + m)
    <3>1. k - off \in 1..m
      <4> HIDE DEF n, m
      <4>1. QED BY <1>1, <2>1
    <3>2. QED BY <2>1, <3>1, OfSequences
  <2>2. CASE k \notin (off + 1)..(off + m)
    BY <2>2, OfSequences
  <2>3. QED BY <2>1, <2>2
<1>3. Fn \in [1..n -> S] /\ \A k \in 1..n : Fn[k] = IF k \in (off + 1)..(off + m) THEN d[k - off] ELSE s[k]
  BY <1>2
<1>4. B!Splice(s, off, d) = Fn
  BY <1>1 DEF B!Splice
<1> HIDE DEF Fn, n, m
<1>5. Fn \in Seq(S) /\ Len(Fn) = n
  BY <1>1, <1>3, AsSequence
<1>6. QED BY <1>3, <1>4, <1>5 DEF n, m

\* What a walk has changed on a device that holds x, and whether that agrees with
\* the image so far.
Changed(u, x) ==
  \A k \in 1..Len(dev) : \/ x[k] = job.dev[k]
                         \/ k - job.off \in 1..Through(u) /\ Seen(u)[k - job.off] # B!Hole
Agrees(u, x) == \A k \in 1..Through(u) : Seen(u)[k] \in {B!Hole, x[job.off + k]}

\* Writing e for the next span.
LEMMA SpanWritten ==
  ASSUME B!BlkwakAssumption, job \in ImageJobs, B!IsImage(file), walk \in Walks, Place(walk),
         B!HasPart, ~B!Missing, dev \in Seq(ImageBytes), walk.at + Len(B!Part.d) <= Len(dev),
         NEW e \in Seq(ImageBytes), Len(e) = Len(B!Part.d), Changed(walk, dev)
  PROVE  LET x == B!Splice(dev, walk.at, e)
         IN  /\ x \in Seq(ImageBytes) /\ Len(x) = Len(dev)
             /\ Changed(B!Part.next, x)
             /\ FillsExact /\ Agrees(walk, dev) /\ e = B!Part.d => Agrees(B!Part.next, x)
<1> DEFINE d == B!Part.d
           v == B!Part.next
           x == B!Splice(dev, walk.at, e)
           n == Len(e)
           s == Seen(walk)
           t == Through(walk)
           o == job.off
           N == Len(dev)
<1>1. /\ d \in Seq(ImageBytes) /\ n \in Nat /\ n > 0
      /\ v \in Walks /\ v.i = walk.i /\ v.at = walk.at + n /\ Place(v)
      /\ \A j \in 1..n : s[t + j] \in ImageBytes /\ (FillsExact => s[t + j] = d[j])
  BY SpanIs
<1>2. o \in Nat /\ t \in Nat /\ walk.at = o + t /\ B!Hole \notin ImageBytes
  <2>1. t \in Nat
    BY PlaceWithin
  <2>2. walk.at \in Nat /\ job.off \in Nat /\ B!Hole \notin ImageBytes
    BY BlkConstants DEF Walks
  <2>3. QED BY <2>1, <2>2 DEF Through
<1>3. Seen(v) = s /\ Through(v) = t + n
  <2>1. Seen(v) = s
    BY <1>1 DEF Seen
  <2>2. Through(v) = v.at - o
    BY DEF Through
  <2> HIDE DEF v, s, t, o, n
  <2>3. QED BY <1>1, <1>2, <2>1, <2>2
<1>4. N \in Nat
  BY OfSequences
<1>5. /\ x \in Seq(ImageBytes) /\ Len(x) = N
      /\ \A k \in 1..N : x[k] = IF k \in (o + t + 1)..(o + t + n) THEN e[k - (o + t)] ELSE dev[k]
  <2> DEFINE a == walk.at
  <2>1. a \in Nat /\ a + n <= N /\ a = o + t
    BY <1>2
  <2>2. /\ B!Splice(dev, a, e) \in Seq(ImageBytes) /\ Len(B!Splice(dev, a, e)) = N
        /\ \A k \in 1..N :
              B!Splice(dev, a, e)[k] = IF k \in (a + 1)..(a + n) THEN e[k - a] ELSE dev[k]
    <3> HIDE DEF a
    <3>1. QED BY <2>1, SpliceIs
  <2> HIDE DEF t, o, n, N
  <2>3. QED BY <2>1, <2>2
<1>6. o + t + n <= N
  BY <1>2
<1>7. \A k \in 1..N : \/ dev[k] = job.dev[k]
                      \/ k - o \in 1..t /\ s[k - o] # B!Hole
  BY DEF Changed
<1> HIDE DEF x, s, t, o, n, N, d, v
<1>8. ASSUME NEW k \in 1..N
      PROVE  \/ x[k] = job.dev[k]
             \/ k - o \in 1..(t + n) /\ s[k - o] # B!Hole
  <2>1. CASE k \in (o + t + 1)..(o + t + n)
    <3> DEFINE j == k - (o + t)
    <3>1. j \in 1..n /\ k - o = t + j /\ k - o \in 1..(t + n)
      BY <1>1, <1>2, <1>4, <2>1
    <3> HIDE DEF j
    <3>2. s[t + j] \in ImageBytes
      BY <1>1, <3>1
    <3>3. QED BY <1>2, <3>1, <3>2
  <2>2. CASE k \notin (o + t + 1)..(o + t + n)
    <3>1. x[k] = dev[k]
      BY <1>5, <2>2
    <3>2. k - o \in 1..t => k - o \in 1..(t + n)
      BY <1>1, <1>2
    <3>3. QED BY <1>7, <3>1, <3>2
  <2>3. QED BY <2>1, <2>2
<1>9. Changed(v, x)
  BY <1>3, <1>8 DEF Changed, o, N
<1>10. ASSUME FillsExact, Agrees(walk, dev), e = d PROVE Agrees(v, x)
  <2>1. \A k \in 1..t : s[k] \in {B!Hole, dev[o + k]}
    BY <1>10 DEF Agrees, s, t, o
  <2>2. ASSUME NEW k \in 1..(t + n) PROVE s[k] \in {B!Hole, x[o + k]}
    <3>1. o + k \in Nat /\ o + k > 0 /\ o + k <= N /\ o + k \in 1..N
      BY <1>1, <1>2, <1>4, <1>6
    <3>2. CASE k \in 1..t
      <4>1. o + k \notin (o + t + 1)..(o + t + n)
        BY <1>1, <1>2, <3>2
      <4>2. x[o + k] = dev[o + k]
        BY <1>5, <3>1, <4>1
      <4>3. QED BY <2>1, <3>2, <4>2
    <3>3. CASE k \notin 1..t
      <4> DEFINE j == k - t
      <4>1. j \in 1..n /\ k = t + j /\ (o + k) - (o + t) = j /\ o + k \in (o + t + 1)..(o + t + n)
        BY <1>1, <1>2, <3>3
      <4> HIDE DEF j
      <4>2. x[o + k] = e[j]
        BY <1>5, <3>1, <4>1
      <4>3. s[t + j] = d[j]
        BY <1>1, <1>10, <4>1
      <4>4. QED BY <1>10, <4>1, <4>2, <4>3
    <3>4. QED BY <3>2, <3>3
  <2>3. QED BY <1>3, <2>2 DEF Agrees, o
<1>11. QED BY <1>5, <1>9, <1>10 DEF x, v, d, N

\* Comparing the next span: it counts the bytes that differ.
LEMMA SpanCompared ==
  ASSUME B!BlkwakAssumption, job \in ImageJobs, B!IsImage(file), walk \in Walks, Place(walk),
         B!HasPart, ~B!Missing, dev \in Seq(ImageBytes), walk.at + Len(B!Part.d) <= Len(dev),
         FillsExact => (walk.bad = 0 <=> Agrees(walk, dev)),
         NEW u,
         u = [B!Part.next EXCEPT !.bad = @ + B!Cardinality({k \in DOMAIN B!Part.d : B!Part.d[k] # dev[walk.at + k]})]
  PROVE  /\ u \in Walks /\ Place(u) /\ u.op = walk.op
         /\ FillsExact => (u.bad = 0 <=> Agrees(u, dev))
<1> DEFINE d == B!Part.d
           v == B!Part.next
           n == Len(d)
           s == Seen(walk)
           t == Through(walk)
           o == job.off
           differ == {k \in DOMAIN d : d[k] # dev[walk.at + k]}
           more == B!Cardinality(differ)
<1>1. /\ d \in Seq(ImageBytes) /\ n \in Nat /\ n > 0
      /\ v \in Walks /\ v.op = walk.op /\ v.bad = walk.bad /\ v.i = walk.i /\ v.at = walk.at + n /\ Place(v)
      /\ \A j \in 1..n : s[t + j] \in ImageBytes /\ (FillsExact => s[t + j] = d[j])
  BY SpanIs
<1>2. o \in Nat /\ t \in Nat /\ walk.at = o + t /\ B!Hole \notin ImageBytes /\ walk.bad \in Nat
  <2>1. t \in Nat
    BY PlaceWithin
  <2>2. walk.at \in Nat /\ job.off \in Nat /\ B!Hole \notin ImageBytes /\ walk.bad \in Nat
    BY BlkConstants DEF Walks
  <2>3. QED BY <2>1, <2>2 DEF Through
<1>3. DOMAIN d = 1..n
  BY <1>1, OfSequences
<1>4. more \in Nat /\ (more = 0 <=> \A j \in 1..n : d[j] = dev[walk.at + j])
  <2>1. IsFiniteSet(1..n)
    <3>1. 1 \in Int /\ n \in Int
      BY <1>1
    <3> HIDE DEF n
    <3>2. QED BY <3>1, FS_Interval
  <2>2. differ \subseteq 1..n
    BY <1>3
  <2>3. IsFiniteSet(differ)
    BY <2>1, <2>2, FS_Subset
  <2>4. more = Cardinality(differ)
    BY DEF B!Cardinality, Cardinality
  <2>5. Cardinality(differ) \in Nat /\ (Cardinality(differ) = 0 <=> differ = {})
    <3> HIDE DEF differ
    <3>1. QED BY <2>3, FS_CardinalityType, FS_EmptySet
  <2>6. differ = {} <=> \A j \in 1..n : d[j] = dev[walk.at + j]
    BY <1>3
  <2> HIDE DEF differ, more
  <2>7. QED BY <2>4, <2>5, <2>6
<1> HIDE DEF more, differ
<1>5. /\ u \in Walks /\ u.op = walk.op /\ u.i = walk.i /\ u.at = v.at /\ u.bad = walk.bad + more
      /\ u.left = v.left /\ u.pos = v.pos /\ u.fill = v.fill
  <2>1. u = [v EXCEPT !.bad = v.bad + more]
    BY DEF more, differ
  <2> HIDE DEF v
  <2> DEFINE b == v.bad + more
  <2>2. b \in Nat /\ b = walk.bad + more
    BY <1>1, <1>2, <1>4
  <2> HIDE DEF b
  <2>3. u = [v EXCEPT !.bad = b]
    BY <2>1 DEF b
  <2>4. QED BY <1>1, <2>2, <2>3 DEF Walks
<1> HIDE DEF v
<1>6. Place(u)
  <2>1. Place(v) /\ u.i = v.i /\ u.at = v.at /\ u.left = v.left /\ u.pos = v.pos /\ u.fill = v.fill
    BY <1>1, <1>5
  <2>2. QED BY <2>1 DEF Place, InChunk
<1>7. Seen(u) = s /\ Through(u) = t + n
  <2>1. Seen(u) = s
    BY <1>5 DEF Seen
  <2>2. Through(u) = u.at - o
    BY DEF Through
  <2> HIDE DEF s, t, o, n
  <2>3. QED BY <1>1, <1>2, <1>5, <2>1, <2>2
<1>8. ASSUME FillsExact PROVE u.bad = 0 <=> Agrees(u, dev)
  <2>1. walk.bad = 0 <=> \A k \in 1..t : s[k] \in {B!Hole, dev[o + k]}
    BY <1>8 DEF Agrees
  <2>2. Agrees(u, dev) <=> \A k \in 1..(t + n) : s[k] \in {B!Hole, dev[o + k]}
    BY <1>7 DEF Agrees
  <2>3. \A j \in 1..n : walk.at + j = o + (t + j)
    <3> HIDE DEF s, t, o, n
    <3>1. QED BY <1>1, <1>2
  <2>4. more = 0 <=> \A j \in 1..n : s[t + j] \in {B!Hole, dev[o + (t + j)]}
    <3>1. \A j \in 1..n : s[t + j] = d[j] /\ s[t + j] # B!Hole
      BY <1>1, <1>2, <1>8
    <3> HIDE DEF s, t, o, n, d
    <3>2. \A j \in 1..n : (s[t + j] \in {B!Hole, dev[o + (t + j)]}) <=> d[j] = dev[walk.at + j]
      BY <2>3, <3>1
    <3>3. QED BY <1>4, <3>2
  <2> HIDE DEF s, t, o, n, d
  <2>5. (\A k \in 1..(t + n) : s[k] \in {B!Hole, dev[o + k]})
          <=> /\ \A k \in 1..t : s[k] \in {B!Hole, dev[o + k]}
              /\ \A j \in 1..n : s[t + j] \in {B!Hole, dev[o + (t + j)]}
    <3>1. \A k \in 1..t : k \in 1..(t + n)
      BY <1>1, <1>2
    <3>2. \A j \in 1..n : t + j \in 1..(t + n)
      BY <1>1, <1>2
    <3>3. \A k \in 1..(t + n) : k \in 1..t \/ (k - t \in 1..n /\ k = t + (k - t))
      BY <1>1, <1>2
    <3>4. QED BY <3>1, <3>2, <3>3
  <2>6. u.bad = 0 <=> walk.bad = 0 /\ more = 0
    BY <1>2, <1>4, <1>5
  <2>7. QED BY <2>1, <2>2, <2>4, <2>5, <2>6
<1>9. QED BY <1>5, <1>6, <1>8

\* NextChunk() has taken chunk k.
Fit(k) ==
  LET c == file.chunks[k]
  IN  /\ c.type \in {"raw", "fill", "hole", "crc"}
      /\ c.type = "raw" => c.says = Size(k)
      /\ c.type = "fill" => Len(c.body) = Word
Begun(k) ==
  LET c == file.chunks[k]
  IN  [walk EXCEPT !.i = k, !.pos = 0,
                   !.left = IF c.type \in {"raw", "fill"} THEN Size(k) ELSE 0,
                   !.fill = IF c.type = "fill" THEN c.body ELSE <<>>,
                   !.at = IF c.type = "hole" THEN @ + Size(k) ELSE @]

\* Only a hole takes the walk further.
LEMMA ChunkBegins ==
  ASSUME B!BlkwakAssumption, job \in ImageJobs, B!IsImage(file), walk \in Walks, Place(walk),
         file.kind # "raw", walk.left = 0, walk.i < file.count, walk.i < Len(file.chunks), Fit(walk.i + 1)
  PROVE  LET u == Begun(walk.i + 1)
         IN  /\ u \in Walks /\ u.op = walk.op /\ u.bad = walk.bad /\ Place(u)
             /\ Through(walk) <= Through(u)
             /\ \A j \in 1..Through(walk) : Seen(u)[j] = Seen(walk)[j]
             /\ \A j \in (Through(walk) + 1)..Through(u) : Seen(u)[j] = B!Hole
<1> DEFINE k == walk.i + 1
           c == file.chunks[k]
           len == Size(k)
           u == Begun(k)
<1>0. /\ k = walk.i + 1 /\ c = file.chunks[k] /\ len = c.blks * file.unit
      /\ c.type \in {"raw", "fill", "hole", "crc"}
      /\ c.type = "raw" => c.says = len
      /\ c.type = "fill" => Len(c.body) = Word
      /\ u = [walk EXCEPT !.i = k, !.pos = 0,
                          !.left = IF c.type \in {"raw", "fill"} THEN len ELSE 0,
                          !.fill = IF c.type = "fill" THEN c.body ELSE <<>>,
                          !.at = IF c.type = "hole" THEN @ + len ELSE @]
  BY DEF Fit, Begun, Size
<1> HIDE DEF k, c, len, u
<1>1. /\ k = walk.i + 1 /\ c = file.chunks[k] /\ c.type \in {"raw", "fill", "hole", "crc"}
      /\ c.type = "raw" => c.says = len
      /\ c.type = "fill" => Len(c.body) = Word
  BY <1>0
<1> USE <1>1
<1> DEFINE before == Len(Upto(k - 1))
           o == job.off
           size == Len(Covered(k))
<1>2. /\ walk.at \in Nat /\ walk.pos \in Nat /\ walk.left \in Nat /\ walk.i \in Nat /\ o \in Nat
      /\ Word \in Nat \ {0}
  BY BlkConstants DEF Walks
<1>3. k \in 1..Len(file.chunks) /\ k - 1 = walk.i /\ k \in Nat /\ k > 0 /\ k <= Len(file.chunks) /\ k <= file.count
  <2>1. Len(file.chunks) \in Nat /\ file.count \in Nat
    BY SparseIs
  <2> DEFINE n == Len(file.chunks)
             m == file.count
             h == walk.i
  <2>2. n \in Nat /\ m \in Nat /\ h \in Nat /\ k = h + 1 /\ h < n /\ h < m
    BY <1>2, <2>1
  <2> HIDE DEF n, m, h
  <2>3. k \in 1..n /\ k - 1 = h /\ k \in Nat /\ k > 0 /\ k <= n /\ k <= m
    BY <2>2
  <2>4. QED BY <2>3 DEF n, m, h
<1>4. /\ c \in B!Chunks /\ file.unit \in Nat /\ len \in Nat /\ len = Size(k)
      /\ c.body \in Seq(ImageBytes) /\ Len(c.body) \in Nat /\ Len(c.body) <= c.says
  BY <1>0, <1>3, SparseIs DEF Size
<1>5. /\ before \in Nat /\ size \in Nat /\ Len(Upto(k)) = before + size
      /\ \A j \in 1..before : Upto(k)[j] = Upto(k - 1)[j]
      /\ \A j \in 1..size : Upto(k)[before + j] = Covered(k)[j]
  BY <1>3, UptoGrows
<1>6. walk.at = o + before
  <2>1. walk.at = job.off + Len(Upto(walk.i))
    BY DEF Place
  <2>2. QED BY <1>3, <2>1
<1> DEFINE rest == IF c.type \in {"raw", "fill"} THEN len ELSE 0
           fill == IF c.type = "fill" THEN c.body ELSE <<>>
           at == IF c.type = "hole" THEN walk.at + len ELSE walk.at
<1>7. rest \in Nat /\ fill \in Seq(ImageBytes) /\ at \in Nat
  <2>1. <<>> \in Seq(ImageBytes)
    BY EmptySeq
  <2>2. QED BY <1>2, <1>4, <2>1
<1>8. /\ u \in Walks /\ u.op = walk.op /\ u.bad = walk.bad /\ u.i = k /\ u.left = rest
      /\ u.pos = 0 /\ u.fill = fill /\ u.at = at
  <2>1. u = [walk EXCEPT !.i = k, !.pos = 0, !.left = rest, !.fill = fill, !.at = at]
    BY <1>0
  <2> HIDE DEF rest, fill, at
  <2>2. u.op = walk.op /\ u.bad = walk.bad /\ u.i = k /\ u.left = rest /\ u.pos = 0 /\ u.fill = fill /\ u.at = at
    BY <2>1 DEF Walks
  <2>3. k \in Nat /\ 0 \in Nat
    BY <1>3
  <2>4. u \in Walks
    BY <1>7, <2>1, <2>3 DEF Walks
  <2>5. QED BY <2>2, <2>4
<1>9. Seen(u) = Upto(k) /\ Seen(walk) = Upto(k - 1) /\ Through(walk) = before
  <2>1. Seen(u) = Upto(k) /\ Seen(walk) = Upto(k - 1)
    BY <1>3, <1>8 DEF Seen
  <2>2. Through(walk) = walk.at - o
    BY DEF Through
  <2> HIDE DEF o, before
  <2>3. QED BY <1>2, <1>5, <1>6, <2>1, <2>2
<1>10. /\ size = IF c.type = "raw" THEN Len(c.body) ELSE IF c.type = "crc" THEN 0 ELSE len
       /\ c.type = "hole" => \A j \in 1..len : Covered(k)[j] = B!Hole
  <2> DEFINE x == Covered(k)
  <2>1. x = B!Covers(c, file.unit) /\ len = c.blks * file.unit
    BY <1>0 DEF Covered
  <2> HIDE DEF x
  <2>2. /\ c.type = "raw" => x = c.body
        /\ c.type = "fill" => Len(x) = len
        /\ c.type = "hole" => Len(x) = len /\ \A j \in 1..len : x[j] = B!Hole
        /\ c.type \notin {"raw", "fill", "hole"} => x = <<>>
    <3>1. Spells(c, c.blks * file.unit, B!Covers(c, file.unit))
      BY <1>4, CoversIs
    <3>2. Spells(c, len, x)
      BY <2>1, <3>1
    <3>3. QED BY <3>2 DEF Spells
  <2>3. c.type = "crc" => Len(x) = 0
    BY <2>2
  <2>4. QED BY <2>2, <2>3 DEF x
<1>11. c.type # "hole" => at = walk.at /\ (rest = 0 => size = 0)
  BY <1>4, <1>10
<1>12. c.type = "hole" => /\ at = walk.at + len /\ rest = 0 /\ size = len
                          /\ \A j \in 1..size : Covered(k)[j] = B!Hole
  <2> HIDE DEF size
  <2>1. QED BY <1>10
<1>13. rest > 0 => InChunk(u)
  <2>1. SUFFICES ASSUME rest > 0 PROVE InChunk(u)
    OBVIOUS
  <2>2. rest = len /\ c.type \in {"raw", "fill"} /\ at = walk.at
    BY <2>1
  <2>3. Size(u.i) - u.left = 0 /\ file.chunks[u.i] = c /\ u.i > 0 /\ u.i - 1 = k - 1
    BY <1>3, <1>4, <1>8, <2>2
  <2>4. u.at = job.off + Len(Upto(u.i - 1)) + 0
    <3>1. u.at = job.off + before
      BY <1>6, <1>8, <2>2
    <3>2. QED BY <1>2, <1>5, <2>3, <3>1
  <2>5. 0 % Word = 0
    BY <1>2
  <2>6. c.type = "raw" => u.fill = <<>> /\ u.pos = 0 /\ 0 <= Len(c.body) /\ c.says = Size(u.i)
    BY <1>4, <1>8
  <2>7. c.type = "fill" => u.fill = c.body /\ Len(c.body) = Word
    BY <1>8
  <2>8. QED BY <2>2, <2>3, <2>4, <2>5, <2>6, <2>7 DEF InChunk
<1>14. Place(u) /\ before <= Through(u) /\ (c.type # "hole" => Through(u) = before)
       /\ (c.type = "hole" => Through(u) = before + size)
  <2>1. Through(u) = at - o
    BY <1>8 DEF Through
  <2>2. rest = 0 => u.at = o + Len(Upto(k))
    <3> HIDE DEF rest, at, before, size, o
    <3>1. SUFFICES ASSUME rest = 0 PROVE u.at = o + (before + size)
      BY <1>5
    <3>2. u.at = at /\ walk.at = o + before /\ o \in Nat /\ before \in Nat /\ len \in Nat
      BY <1>2, <1>4, <1>5, <1>6, <1>8
    <3>3. (at = walk.at + len /\ size = len) \/ (at = walk.at /\ size = 0)
      BY <1>11, <1>12, <3>1
    <3>4. QED BY <3>2, <3>3
  <2>3. Place(u)
    <3>1. u.i <= Len(file.chunks) /\ u.i <= file.count
      BY <1>3, <1>8
    <3>2. u.left = 0 => u.at = job.off + Len(Upto(u.i))
      BY <1>8, <2>2
    <3>3. u.left > 0 => InChunk(u)
      BY <1>8, <1>13
    <3>4. QED BY <3>1, <3>2, <3>3 DEF Place
  <2> HIDE DEF at, before, size, o, rest
  <2>4. CASE c.type = "hole"
    <3>1. Through(u) = before + size
      BY <1>2, <1>4, <1>5, <1>6, <1>12, <2>1, <2>4
    <3>2. before <= Through(u)
      BY <1>5, <3>1
    <3>3. QED BY <2>3, <2>4, <3>1, <3>2
  <2>5. CASE c.type # "hole"
    <3>1. Through(u) = before
      BY <1>2, <1>4, <1>5, <1>6, <1>11, <2>1, <2>5
    <3>2. before <= Through(u)
      BY <1>5, <3>1
    <3>3. QED BY <2>3, <2>5, <3>1, <3>2
  <2>6. QED BY <2>4, <2>5
<1>15. ASSUME NEW j \in (Through(walk) + 1)..Through(u) PROVE Seen(u)[j] = B!Hole
  <2>1. c.type = "hole"
    <3> HIDE DEF before, size, o, rest, at
    <3>1. QED BY <1>5, <1>9, <1>14, <1>15
  <2> DEFINE m == j - before
  <2>2. m \in 1..size /\ j = before + m
    <3> HIDE DEF before, size
    <3>1. QED BY <1>5, <1>9, <1>14, <1>15, <2>1
  <2> HIDE DEF m
  <2>3. Upto(k)[before + m] = Covered(k)[m]
    BY <1>5, <2>2
  <2>4. Covered(k)[m] = B!Hole
    BY <1>12, <2>1, <2>2
  <2>5. QED BY <1>9, <2>2, <2>3, <2>4
<1>16. \A j \in 1..Through(walk) : Seen(u)[j] = Seen(walk)[j]
  BY <1>5, <1>9
<1>17. Through(walk) <= Through(u)
  BY <1>9, <1>14
<1>18. QED BY <1>8, <1>14, <1>15, <1>16, <1>17, Zenon DEF u, k

-----------------------------------------------------------------------------
(* The invariant of blkwak.                                                 *)

\* The walk has seen all there is.
AtEnd(u) == Seen(u) = B!Decoded /\ Through(u) = Len(B!Decoded)

\* What the device holds now and did not hold is the image.
Untouched ==
  \A k \in DOMAIN dev :
     \/ dev[k] = job.dev[k]
     \/ /\ job.cmd = "write"
        /\ k - job.off \in DOMAIN B!Decoded /\ B!Decoded[k - job.off] # B!Hole

\* The image is the region it was made from.
IsRegion == B!Decoded = B!Bytes(dev, job.off, B!Length)

BlkTypes ==
  /\ job \in ImageJobs /\ B!IsImage(file) /\ dev \in Seq(ImageBytes) /\ Len(dev) = Len(job.dev)
  /\ walk \in Walks
  /\ pc \in {"start", "open", "walk", "finish", "read", "done"}
  /\ exit \in {"pending", "ok", "differs", "rejected", "ioerr", "usage"}
  /\ exit # "pending" <=> pc = "done"

\* Writing, only what lies behind was written, and it agrees; comparing, the number
\* of differences is right so far.
WriteWalk ==
  /\ walk.op = "write" /\ job.cmd = "write" /\ Changed(walk, dev)
  /\ FillsExact /\ ~job.flaky => Agrees(walk, dev)
CompareWalk ==
  /\ walk.op = "compare" /\ Untouched
  /\ FillsExact => (walk.bad = 0 <=> Agrees(walk, dev))
  /\ job.cmd = "read" => IsRegion

BlkWalk == pc \in {"open", "walk", "finish"} =>
             /\ Place(walk)
             /\ WriteWalk \/ CompareWalk
             /\ pc = "finish" => AtEnd(walk)

\* What does not change while an image is walked.
LEMMA StillSays ==
  ASSUME file' = file, job' = job
  PROVE  /\ \A n : Upto(n)' = Upto(n)
         /\ B!Decoded' = B!Decoded /\ FillsExact' = FillsExact
         /\ Place(walk)' <=> Place(walk')
         /\ Seen(walk)' = Seen(walk') /\ Through(walk)' = Through(walk')
         /\ Agrees(walk, dev)' <=> Agrees(walk', dev')
         /\ Len(dev') = Len(dev) => (Changed(walk, dev)' <=> Changed(walk', dev'))
         /\ dev' = dev => (Untouched' <=> Untouched) /\ (IsRegion' <=> IsRegion)
<1>1. B!Unpacked(file.chunks, file.unit)' = B!Unpacked(file.chunks, file.unit)
  BY DEF B!Unpacked, B!Covers, B!Repeat, B!Hole
<1>2. ASSUME NEW n PROVE Upto(n)' = Upto(n)
  BY <1>1 DEF Upto
<1>3. B!Decoded' = B!Decoded
  BY <1>1 DEF B!Decoded
<1>4. FillsExact' = FillsExact
  BY DEF FillsExact, B!FillsExact
<1>5. Seen(walk)' = Seen(walk')
  BY <1>1 DEF Seen, Upto
<1>6. Through(walk)' = Through(walk')
  BY DEF Through
<1>7. Place(walk)' <=> Place(walk')
  BY <1>1 DEF Place, InChunk, Upto, Size
<1>8. Agrees(walk, dev)' <=> Agrees(walk', dev')
  BY <1>5, <1>6 DEF Agrees, B!Hole
<1>9. dev' = dev => (Untouched' <=> Untouched) /\ (IsRegion' <=> IsRegion)
  BY <1>3 DEF Untouched, IsRegion, B!Hole, B!Bytes, B!Length
<1>10. Len(dev') = Len(dev) => (Changed(walk, dev)' <=> Changed(walk', dev'))
  BY <1>5, <1>6 DEF Changed, B!Hole
<1>11. QED BY <1>2, <1>3, <1>4, <1>5, <1>6, <1>7, <1>8, <1>9, <1>10

LEMMA SeenIs ==
  ASSUME B!IsImage(file), walk \in Walks, Place(walk)
  PROVE  DOMAIN Seen(walk) = 1..Len(Seen(walk))
<1>1. CASE file.kind = "raw"
  BY <1>1, OfSequences DEF B!IsImage, Seen
<1>2. CASE file.kind # "raw"
  <2>1. walk.i \in Nat /\ walk.i <= Len(file.chunks)
    BY <1>2 DEF Place, Walks
  <2>2. file.chunks \in Seq(B!Chunks) /\ file.unit \in Nat /\ Len(file.chunks) \in Nat
    BY <1>2, SparseIs
  <2>3. walk.i \in 0..Len(file.chunks)
    BY <2>1, <2>2
  <2>4. Upto(walk.i) \in Seq(BytesOf(file.chunks, file.unit))
    BY <2>2, <2>3, UnpackedIs DEF Upto
  <2>5. QED BY <1>2, <2>4, OfSequences DEF Seen
<1>3. QED BY <1>1, <1>2

\* At the end of a walk.
LEMMA AllSeen ==
  ASSUME B!IsImage(file), walk \in Walks, Place(walk), AtEnd(walk), dev \in Seq(ImageBytes)
  PROVE  /\ Agrees(walk, dev) <=> B!Matches
         /\ Changed(walk, dev) /\ job.cmd = "write" => Untouched
<1> DEFINE D0 == B!Decoded
<1>1. DOMAIN D0 = 1..Len(D0) /\ Seen(walk) = D0 /\ Through(walk) = Len(D0)
  BY SeenIs DEF AtEnd
<1>2. Agrees(walk, dev) <=> B!Matches
  BY <1>1 DEF Agrees, B!Matches
<1>3. DOMAIN dev = 1..Len(dev)
  BY OfSequences
<1>4. Changed(walk, dev) /\ job.cmd = "write" => Untouched
  BY <1>1, <1>3 DEF Changed, Untouched
<1>5. QED BY <1>2, <1>4

\* At the beginning of one.
LEMMA WalkStarts ==
  ASSUME B!BlkwakAssumption, job \in ImageJobs, B!IsImage(file),
         NEW op \in {"none", "write", "compare"}, NEW u, u = B!Walk(op)
  PROVE  /\ u \in Walks /\ u.op = op /\ u.bad = 0 /\ u.pos = 0 /\ Place(u)
         /\ \A x : Agrees(u, x)
         /\ Changed(u, job.dev)
<1>1. job.off \in Nat
  BY BlkConstants
<1>2. <<>> \in Seq(ImageBytes)
  OBVIOUS
<1>3. u \in Walks /\ u.op = op /\ u.at = job.off /\ u.i = 0 /\ u.left = 0 /\ u.pos = 0 /\ u.bad = 0
  BY <1>1, <1>2 DEF B!Walk, Walks
<1>4. Through(u) = 0
  BY <1>1, <1>3 DEF Through
<1>5. Place(u)
  <2>1. CASE file.kind = "raw"
    <3>1. Len(file.data) \in Nat
      BY <2>1, OfSequences DEF B!IsImage
    <3>2. QED BY <1>1, <1>3, <2>1, <3>1 DEF Place
  <2>2. CASE file.kind # "raw"
    <3>1. Len(file.chunks) \in Nat /\ file.count \in Nat
      BY <2>2, SparseIs
    <3>2. Upto(0) = <<>>
      BY <2>2, UptoStarts
    <3>3. u.at = job.off + Len(Upto(u.i))
      <4>1. Len(Upto(0)) = 0
        BY <3>2
      <4>2. QED BY <1>1, <1>3, <4>1
    <3>4. u.i <= Len(file.chunks) /\ u.i <= file.count /\ ~(u.left > 0)
      BY <1>3, <3>1
    <3>5. QED BY <2>2, <3>3, <3>4 DEF Place
  <2>3. QED BY <2>1, <2>2
<1>6. QED BY <1>3, <1>4, <1>5 DEF Agrees, Changed

\* How a walk comes to its end.
LEMMA WalkStops ==
  ASSUME B!BlkwakAssumption, job \in ImageJobs, B!IsImage(file), walk \in Walks, Place(walk),
         pc = "walk", ~B!HasPart, file.kind = "sparse" => walk.i >= file.count
  PROVE  AtEnd(walk)
<1>1. /\ walk.at \in Nat /\ walk.pos \in Nat /\ walk.left \in Nat /\ walk.i \in Nat /\ job.off \in Nat
  BY BlkConstants DEF Walks
<1>2. CASE file.kind = "raw"
  <2>1. Len(file.data) \in Nat
    BY <1>2, OfSequences DEF B!IsImage
  <2>2. ~(walk.pos < Len(file.data)) /\ walk.pos <= Len(file.data) /\ walk.at = job.off + walk.pos
    BY <1>2 DEF B!HasPart, Place
  <2>3. Through(walk) = Len(file.data)
    <3> DEFINE n == Len(file.data)
    <3> HIDE DEF n
    <3>1. n \in Nat /\ ~(walk.pos < n) /\ walk.pos <= n
      BY <2>1, <2>2 DEF n
    <3>2. Through(walk) = n
      BY <1>1, <2>2, <3>1 DEF Through
    <3>3. QED BY <3>2 DEF n
  <2>4. QED BY <1>2, <2>3 DEF AtEnd, Seen, B!Decoded
<1>3. CASE file.kind # "raw"
  <2>1. file.kind = "sparse" /\ file.count \in Nat
    BY <1>3, SparseIs
  <2>2. walk.left = 0
    <3>1. ~(walk.left > 0)
      BY <1>3 DEF B!HasPart
    <3>2. QED BY <1>1, <3>1
  <2>3. walk.i <= file.count /\ walk.i <= Len(file.chunks) /\ walk.at = job.off + Len(Upto(walk.i))
    BY <1>3, <2>2 DEF Place
  <2>4. walk.i = file.count
    <3>1. walk.i >= file.count
      BY <2>1
    <3>2. QED BY <1>1, <2>1, <2>3, <3>1
  <2>5. B!Decoded = Upto(walk.i) /\ Seen(walk) = Upto(walk.i)
    BY <1>3, <2>4 DEF B!Decoded, Upto, Seen
  <2>6. walk.i \in 0..Len(file.chunks)
    <3>1. Len(file.chunks) \in Nat
      BY <1>3, SparseIs
    <3>2. QED BY <1>1, <2>3, <3>1
  <2>7. Through(walk) = Len(Upto(walk.i))
    <3>1. Len(Upto(walk.i)) \in Nat
      BY <1>3, <2>6, UptoStarts
    <3>2. QED BY <1>1, <2>3, <3>1 DEF Through
  <2>8. QED BY <2>5, <2>7 DEF AtEnd
<1>4. QED BY <1>2, <1>3

-----------------------------------------------------------------------------
(* Writing and comparing.                                                   *)

LEMMA TypesKept ==
  ASSUME BlkTypes, job' = job, B!IsImage(file'), dev' \in Seq(ImageBytes), Len(dev') = Len(dev), walk' \in Walks,
         pc' \in {"start", "open", "walk", "finish", "read", "done"},
         exit' \in {"pending", "ok", "differs", "rejected", "ioerr", "usage"},
         exit' # "pending" <=> pc' = "done"
  PROVE  BlkTypes'
<1>1. B!IsImage(file)'
  BY DEF B!IsImage, B!Chunks
<1>2. QED BY <1>1 DEF BlkTypes, Walks

LEMMA EndsTyped ==
  ASSUME BlkTypes, NEW how \in {"ok", "differs", "rejected", "ioerr", "usage"}, B!Ends(how)
  PROVE  BlkTypes' /\ pc' = "done" /\ exit' = how /\ job' = job /\ dev' = dev /\ file' = file /\ walk' = walk
<1>1. pc' = "done" /\ exit' = how /\ job' = job /\ dev' = dev /\ file' = file /\ walk' = walk
  BY DEF B!Ends
<1>2. BlkTypes'
  <2>1. /\ B!IsImage(file) /\ dev \in Seq(ImageBytes) /\ walk \in Walks
    BY DEF BlkTypes
  <2>2. B!IsImage(file') /\ dev' \in Seq(ImageBytes) /\ Len(dev') = Len(dev) /\ walk' \in Walks
    BY <1>1, <2>1
  <2>3. pc' \in {"start", "open", "walk", "finish", "read", "done"}
        /\ exit' \in {"pending", "ok", "differs", "rejected", "ioerr", "usage"} /\ (exit' # "pending" <=> pc' = "done")
    BY <1>1
  <2>4. QED BY <1>1, <2>2, <2>3, TypesKept
<1>3. QED BY <1>1, <1>2

\* A walk begins.
LEMMA Begins ==
  ASSUME B!BlkwakAssumption, BlkTypes, pc = "start", dev = job.dev, B!BeginWrite \/ B!BeginCompare
  PROVE  BlkTypes' /\ BlkWalk' /\ pc' = "open" /\ exit' = exit
<1> DEFINE op == IF B!BeginWrite THEN "write" ELSE "compare"
<1>1. /\ walk' = B!Walk(op) /\ pc' = "open" /\ job' = job /\ dev' = dev /\ file' = file /\ exit' = exit
  BY DEF B!BeginWrite, B!BeginCompare
<1>2. op = "write" => job.cmd = "write"
  BY DEF B!BeginWrite
<1>3. op = "compare" => job.cmd = "cmp"
  BY DEF B!BeginCompare
<1>4. op \in {"none", "write", "compare"} /\ (op = "write" \/ op = "compare")
  OBVIOUS
<1> HIDE DEF op
<1>5. /\ job \in ImageJobs /\ B!IsImage(file) /\ dev \in Seq(ImageBytes) /\ exit = "pending"
  BY DEF BlkTypes
<1>6. /\ walk' \in Walks /\ walk'.op = op /\ walk'.bad = 0 /\ Place(walk')
      /\ Agrees(walk', dev') /\ Changed(walk', job.dev)
  BY <1>1, <1>4, <1>5, WalkStarts
<1>7. BlkTypes'
  <2>1. B!IsImage(file') /\ dev' \in Seq(ImageBytes) /\ Len(dev') = Len(dev)
    BY <1>1, <1>5
  <2>2. pc' \in {"start", "open", "walk", "finish", "read", "done"}
        /\ exit' \in {"pending", "ok", "differs", "rejected", "ioerr", "usage"} /\ (exit' # "pending" <=> pc' = "done")
    BY <1>1, <1>5
  <2>3. QED BY <1>1, <1>6, <2>1, <2>2, TypesKept
<1>8. /\ Place(walk)' /\ Agrees(walk, dev)' /\ Changed(walk, dev)'
  BY <1>1, <1>6, StillSays
<1>9. Untouched'
  <2>1. Untouched
    BY DEF Untouched
  <2>2. QED BY <1>1, <2>1, StillSays
<1>10. WriteWalk' \/ CompareWalk'
  <2>1. CASE op = "write"
    <3>1. walk'.op = "write" /\ job'.cmd = "write"
      BY <1>1, <1>2, <1>6, <2>1
    <3>2. QED BY <1>8, <3>1 DEF WriteWalk
  <2>2. CASE op = "compare"
    <3>1. walk'.op = "compare" /\ walk'.bad = 0 /\ job'.cmd # "read"
      BY <1>1, <1>3, <1>6, <2>2
    <3>2. QED BY <1>8, <1>9, <3>1 DEF CompareWalk
  <2>3. QED BY <1>4, <2>1, <2>2
<1>11. BlkWalk'
  BY <1>1, <1>8, <1>10 DEF BlkWalk
<1>12. QED BY <1>1, <1>7, <1>11

LEMMA WalkKept ==
  ASSUME job' = job, file' = file, dev' = dev, walk' = walk
  PROVE  /\ Place(walk) => Place(walk)'
         /\ WriteWalk \/ CompareWalk => WriteWalk' \/ CompareWalk'
         /\ AtEnd(walk) => AtEnd(walk)'
<1>1. (Place(walk)' <=> Place(walk)) /\ (Agrees(walk, dev)' <=> Agrees(walk, dev))
  BY StillSays
<1>2. /\ FillsExact' = FillsExact /\ B!Decoded' = B!Decoded
      /\ Seen(walk)' = Seen(walk) /\ Through(walk)' = Through(walk)
  BY StillSays
<1>3. (Changed(walk, dev)' <=> Changed(walk, dev)) /\ (Untouched' <=> Untouched) /\ (IsRegion' <=> IsRegion)
  BY StillSays
<1>4. walk'.op = walk.op /\ walk'.bad = walk.bad /\ job'.cmd = job.cmd /\ job'.flaky = job.flaky
  OBVIOUS
<1>5. WriteWalk' <=> WriteWalk
  BY <1>1, <1>2, <1>3, <1>4 DEF WriteWalk
<1>6. CompareWalk' <=> CompareWalk
  BY <1>1, <1>2, <1>3, <1>4 DEF CompareWalk
<1>7. QED BY <1>1, <1>2, <1>5, <1>6 DEF AtEnd

LEMMA Opens ==
  ASSUME BlkTypes, BlkWalk, B!OpenImage
  PROVE  BlkTypes' /\ BlkWalk' /\ pc' \in {"walk", "done"} /\ exit' \in {"pending", "rejected"}
<1>1. pc = "open" /\ exit = "pending" /\ Place(walk) /\ (WriteWalk \/ CompareWalk)
  BY DEF B!OpenImage, BlkWalk, BlkTypes
<1>2. CASE B!Ends("rejected")
  BY <1>2, EndsTyped DEF BlkWalk
<1>3. CASE pc' = "walk" /\ UNCHANGED <<job, dev, file, walk, exit>>
  <2>1. job' = job /\ dev' = dev /\ file' = file /\ walk' = walk /\ exit' = "pending" /\ pc' = "walk"
    BY <1>1, <1>3
  <2>2. BlkTypes'
    <3>1. /\ B!IsImage(file) /\ dev \in Seq(ImageBytes) /\ walk \in Walks
      BY DEF BlkTypes
    <3>2. B!IsImage(file') /\ dev' \in Seq(ImageBytes) /\ Len(dev') = Len(dev) /\ walk' \in Walks
      BY <2>1, <3>1
    <3>3. pc' \in {"start", "open", "walk", "finish", "read", "done"}
          /\ exit' \in {"pending", "ok", "differs", "rejected", "ioerr", "usage"} /\ (exit' # "pending" <=> pc' = "done")
      BY <2>1
    <3>4. QED BY <2>1, <3>2, <3>3, TypesKept
  <2>3. Place(walk)' /\ (WriteWalk' \/ CompareWalk')
    BY <1>1, <2>1, WalkKept
  <2>4. QED BY <2>1, <2>2, <2>3 DEF BlkWalk
<1>4. QED BY <1>2, <1>3 DEF B!OpenImage

\* One span is written, or compared.
LEMMA Spans ==
  ASSUME B!BlkwakAssumption, BlkTypes, BlkWalk, B!WalkSpan
  PROVE  BlkTypes' /\ BlkWalk' /\ pc' = "walk" /\ exit' = "pending"
<1> DEFINE d == B!Part.d
           v == B!Part.next
           a == walk.at
           counted == [v EXCEPT !.bad = @ + B!Cardinality({k \in DOMAIN d : d[k] # dev[a + k]})]
           spoiled(k) == [d EXCEPT ![k] = B!Garbled]
<1>1. B!HasPart /\ ~B!Missing /\ B!Span(d, v)
  BY DEF B!WalkSpan
<1>2. /\ job \in ImageJobs /\ B!IsImage(file) /\ dev \in Seq(ImageBytes) /\ walk \in Walks
      /\ pc = "walk" /\ exit = "pending"
  BY <1>1 DEF BlkTypes, B!HasPart
<1>3. Place(walk) /\ (WriteWalk \/ CompareWalk)
  BY <1>2 DEF BlkWalk
<1>4. /\ d \in Seq(ImageBytes) /\ Len(d) \in Nat /\ Len(d) > 0 /\ v \in Walks /\ v.op = walk.op /\ Place(v)
  BY <1>1, <1>2, <1>3, SpanIs
<1>5. a + Len(d) <= Len(dev) /\ job' = job /\ file' = file /\ pc' = pc
      /\ exit' = exit
  BY <1>1 DEF B!Span, B!Fits
<1>6. CASE walk.op = "write"
  <2>1. WriteWalk
    BY <1>3, <1>6 DEF CompareWalk
  <2>2. /\ walk' = v
        /\ \/ dev' = B!Splice(dev, a, d)
           \/ job.flaky /\ \E k \in DOMAIN d : dev' = B!Splice(dev, a, spoiled(k))
    BY <1>1, <1>6 DEF B!Span
  <2>3. /\ dev' \in Seq(ImageBytes) /\ Len(dev') = Len(dev) /\ Changed(v, dev')
        /\ FillsExact /\ ~job.flaky => Agrees(v, dev')
    <3>1. a + Len(B!Part.d) <= Len(dev) /\ Changed(walk, dev)
      BY <1>5, <2>1 DEF WriteWalk
    <3>2. CASE dev' = B!Splice(dev, a, d)
      <4>1. /\ B!Splice(dev, walk.at, d) \in Seq(ImageBytes) /\ Len(B!Splice(dev, walk.at, d)) = Len(dev)
            /\ Changed(v, B!Splice(dev, walk.at, d))
            /\ FillsExact /\ Agrees(walk, dev) => Agrees(v, B!Splice(dev, walk.at, d))
        BY <1>1, <1>2, <1>3, <1>4, <3>1, SpanWritten
      <4> HIDE DEF d, v
      <4>2. FillsExact /\ ~job.flaky => Agrees(walk, dev)
        BY <2>1 DEF WriteWalk
      <4>3. QED BY <3>2, <4>1, <4>2
    <3>3. CASE job.flaky /\ \E k \in DOMAIN d : dev' = B!Splice(dev, a, spoiled(k))
      <4>1. PICK k \in DOMAIN d : dev' = B!Splice(dev, a, spoiled(k))
        BY <3>3
      <4>2. spoiled(k) \in Seq(ImageBytes) /\ Len(spoiled(k)) = Len(d)
        <5>1. B!Garbled \in ImageBytes
          BY <1>2, BlkConstants
        <5> HIDE DEF d
        <5>2. spoiled(k) \in Seq(ImageBytes) /\ Len(spoiled(k)) = Len(d)
          BY <1>4, <5>1
        <5>3. QED BY <5>2
      <4> DEFINE e == spoiled(k)
      <4>3. e \in Seq(ImageBytes) /\ Len(e) = Len(B!Part.d) /\ dev' = B!Splice(dev, walk.at, e)
        BY <4>1, <4>2
      <4> HIDE DEF e, d, v, spoiled
      <4>4. /\ B!Splice(dev, walk.at, e) \in Seq(ImageBytes) /\ Len(B!Splice(dev, walk.at, e)) = Len(dev)
            /\ Changed(B!Part.next, B!Splice(dev, walk.at, e))
        BY <1>1, <1>2, <1>3, <3>1, <4>3, SpanWritten
      <4>5. QED BY <3>3, <4>3, <4>4 DEF v
    <3>4. QED BY <2>2, <3>2, <3>3
  <2> HIDE DEF d, v
  <2>4. BlkTypes'
    <3>1. B!IsImage(file') /\ walk' \in Walks
      BY <1>2, <1>4, <1>5, <2>2
    <3>2. pc' \in {"start", "open", "walk", "finish", "read", "done"}
          /\ exit' \in {"pending", "ok", "differs", "rejected", "ioerr", "usage"} /\ (exit' # "pending" <=> pc' = "done")
      BY <1>2, <1>5
    <3>3. QED BY <1>5, <2>3, <3>1, <3>2, TypesKept
  <2>5. Place(walk)'
    BY <1>4, <1>5, <2>2, StillSays
  <2>6. Changed(walk, dev)' /\ (FillsExact' /\ ~job.flaky => Agrees(walk, dev)')
    BY <1>5, <2>2, <2>3, StillSays
  <2>7. WriteWalk'
    <3>1. walk'.op = "write" /\ job'.cmd = "write" /\ job'.flaky = job.flaky
      BY <1>4, <1>5, <1>6, <2>1, <2>2 DEF WriteWalk
    <3>2. QED BY <2>6, <3>1 DEF WriteWalk
  <2>8. QED BY <1>2, <1>5, <2>4, <2>5, <2>7 DEF BlkWalk
<1>7. CASE walk.op # "write"
  <2>1. CompareWalk
    BY <1>3, <1>7 DEF WriteWalk
  <2>2. walk' = counted /\ dev' = dev
    BY <1>1, <1>7 DEF B!Span
  <2>3. FillsExact => (walk.bad = 0 <=> Agrees(walk, dev))
    BY <2>1 DEF CompareWalk
  <2>4. walk' \in Walks /\ Place(walk') /\ walk'.op = walk.op
        /\ (FillsExact => (walk'.bad = 0 <=> Agrees(walk', dev)))
    <3>1. walk' = [B!Part.next EXCEPT !.bad = @ + B!Cardinality({k \in DOMAIN B!Part.d : B!Part.d[k] # dev[walk.at + k]})]
      BY <2>2
    <3>2. walk.at + Len(B!Part.d) <= Len(dev)
      BY <1>5
    <3> HIDE DEF d, v, counted
    <3>3. QED BY <1>1, <1>2, <1>3, <2>3, <3>1, <3>2, SpanCompared
  <2> HIDE DEF d, v, counted
  <2>5. BlkTypes'
    <3>1. B!IsImage(file') /\ dev' \in Seq(ImageBytes) /\ Len(dev') = Len(dev)
      BY <1>2, <1>5, <2>2
    <3>2. pc' \in {"start", "open", "walk", "finish", "read", "done"}
          /\ exit' \in {"pending", "ok", "differs", "rejected", "ioerr", "usage"} /\ (exit' # "pending" <=> pc' = "done")
      BY <1>2, <1>5
    <3>3. QED BY <1>5, <2>4, <3>1, <3>2, TypesKept
  <2>6. Place(walk)' /\ (Untouched' <=> Untouched) /\ (IsRegion' <=> IsRegion) /\ FillsExact' = FillsExact
        /\ (Agrees(walk, dev)' <=> Agrees(walk', dev))
    BY <1>5, <2>2, <2>4, StillSays
  <2>7. CompareWalk'
    <3>1. walk'.op = "compare" /\ Untouched' /\ (job'.cmd = "read" => IsRegion')
      BY <1>5, <2>1, <2>4, <2>6 DEF CompareWalk
    <3>2. FillsExact' => (walk'.bad = 0 <=> Agrees(walk, dev)')
      BY <2>4, <2>6
    <3>3. QED BY <3>1, <3>2 DEF CompareWalk
  <2>8. QED BY <1>2, <1>5, <2>5, <2>6, <2>7 DEF BlkWalk
<1>8. QED BY <1>6, <1>7

\* The walk goes on with the next chunk.
LEMMA Proceeds ==
  ASSUME B!BlkwakAssumption, BlkTypes, BlkWalk, B!NextChunk
  PROVE  BlkTypes' /\ BlkWalk' /\ pc' \in {"walk", "done"} /\ exit' \in {"pending", "rejected"}
<1> DEFINE k == walk.i + 1
           c == file.chunks[k]
           len == c.blks * file.unit
           u == [walk EXCEPT !.i = k, !.pos = 0,
                             !.left = IF c.type \in {"raw", "fill"} THEN len ELSE 0,
                             !.fill = IF c.type = "fill" THEN c.body ELSE <<>>,
                             !.at = IF c.type = "hole" THEN @ + len ELSE @]
           good == CASE c.type = "raw" -> c.says = len
                     [] c.type = "fill" -> c.says = Word /\ Len(c.body) = Word
                     [] c.type = "hole" -> c.says = 0
                     [] c.type = "crc" -> TRUE
                     [] OTHER -> FALSE
<1>1. /\ pc = "walk" /\ exit = "pending" /\ file.kind = "sparse" /\ walk.left = 0 /\ walk.i < file.count
      /\ job \in ImageJobs /\ B!IsImage(file) /\ dev \in Seq(ImageBytes) /\ walk \in Walks
  BY DEF B!NextChunk, BlkTypes
<1>2. Place(walk) /\ (WriteWalk \/ CompareWalk)
  BY <1>1 DEF BlkWalk
<1>3. CASE B!Ends("rejected")
  BY <1>3, EndsTyped DEF BlkWalk
<1>4. CASE ~B!Ends("rejected")
  <2>1. /\ k <= Len(file.chunks) /\ good
        /\ walk' = u /\ job' = job /\ dev' = dev /\ file' = file /\ pc' = pc /\ exit' = exit
    BY <1>4 DEF B!NextChunk
  <2>2. /\ c.type \in {"raw", "fill", "hole", "crc"}
        /\ c.type = "raw" => c.says = len
        /\ c.type = "fill" => Len(c.body) = Word
    <3> HIDE DEF len, c
    <3>1. QED BY <2>1
  <2>3. walk.i < Len(file.chunks) /\ file.kind # "raw"
    <3>1. Len(file.chunks) \in Nat /\ walk.i \in Nat
      BY <1>1, SparseIs DEF Walks
    <3>2. file.kind # "raw"
      BY <1>1
    <3> DEFINE n == Len(file.chunks)
               prev == walk.i
    <3>3. n \in Nat /\ prev \in Nat /\ prev + 1 <= n
      BY <2>1, <3>1
    <3> HIDE DEF n, prev
    <3>4. prev < n
      BY <3>3
    <3>5. QED BY <3>2, <3>4 DEF n, prev
  <2>4. k = walk.i + 1 /\ c = file.chunks[k] /\ len = c.blks * file.unit
    OBVIOUS
  <2>5. walk' = [walk EXCEPT !.i = k, !.pos = 0,
                             !.left = IF c.type \in {"raw", "fill"} THEN len ELSE 0,
                             !.fill = IF c.type = "fill" THEN c.body ELSE <<>>,
                             !.at = IF c.type = "hole" THEN @ + len ELSE @]
    BY <2>1
  <2> HIDE DEF k, c, len, u, good
  <2>6. /\ walk' \in Walks /\ walk'.op = walk.op /\ walk'.bad = walk.bad /\ Place(walk')
        /\ Through(walk) <= Through(walk')
        /\ \A j \in 1..Through(walk) : Seen(walk')[j] = Seen(walk)[j]
        /\ \A j \in (Through(walk) + 1)..Through(walk') : Seen(walk')[j] = B!Hole
    <3>1. walk \in Walks /\ B!IsImage(file) /\ job \in ImageJobs /\ file.kind # "raw" /\ walk.left = 0 /\ walk.i < file.count
      BY <1>1, <2>3
    <3>2. walk.i < Len(file.chunks)
      BY <2>3
    <3>3. Fit(walk.i + 1) /\ walk' = Begun(walk.i + 1)
      BY <2>2, <2>4, <2>5 DEF Fit, Begun, Size
    <3>4. QED BY <1>2, <3>1, <3>2, <3>3, ChunkBegins
  <2> DEFINE t == Through(walk)
             n == Through(walk')
             s == Seen(walk)
             r == Seen(walk')
             o == job.off
  <2>7. t \in Nat /\ n \in Int /\ t <= n /\ o \in Nat
    <3>1. t \in Nat /\ o \in Nat
      BY <1>1, <1>2, PlaceWithin, BlkConstants
    <3>2. n \in Int
      BY <2>6, <3>1 DEF Through, Walks
    <3>3. QED BY <2>6, <3>1, <3>2
  <2>8. Agrees(walk', dev) <=> Agrees(walk, dev)
    <3>1. Agrees(walk', dev) <=> \A j \in 1..n : r[j] \in {B!Hole, dev[o + j]}
      BY DEF Agrees
    <3>2. Agrees(walk, dev) <=> \A j \in 1..t : s[j] \in {B!Hole, dev[o + j]}
      BY DEF Agrees
    <3>3. (\A j \in 1..t : r[j] = s[j]) /\ (\A j \in (t + 1)..n : r[j] = B!Hole)
      BY <2>6
    <3>4. \A j \in 1..n : j \in 1..t \/ j \in (t + 1)..n
      <4> HIDE DEF t, n
      <4>1. QED BY <2>7
    <3>5. \A j \in 1..t : j \in 1..n
      <4> HIDE DEF t, n
      <4>1. QED BY <2>7
    <3> HIDE DEF t, n, r, s, o
    <3>6. QED BY <3>1, <3>2, <3>3, <3>4, <3>5
  <2>9. Changed(walk, dev) => Changed(walk', dev)
    <3>1. SUFFICES ASSUME Changed(walk, dev),  NEW j \in 1..Len(dev)
                   PROVE  \/ dev[j] = job.dev[j]
                          \/ j - o \in 1..n /\ r[j - o] # B!Hole
      BY DEF Changed
    <3>2. \/ dev[j] = job.dev[j]
          \/ j - o \in 1..t /\ s[j - o] # B!Hole
      BY <3>1 DEF Changed
    <3>3. \A m \in 1..t : m \in 1..n /\ r[m] = s[m]
      <4>1. \A m \in 1..t : r[m] = s[m]
        BY <2>6
      <4> HIDE DEF t, n, r, s
      <4>2. QED BY <2>7, <4>1
    <3> HIDE DEF t, n, r, s, o
    <3>4. QED BY <3>2, <3>3
  <2>10. BlkTypes'
    <3>1. B!IsImage(file') /\ dev' \in Seq(ImageBytes) /\ Len(dev') = Len(dev)
      BY <1>1, <2>1
    <3>2. pc' \in {"start", "open", "walk", "finish", "read", "done"}
          /\ exit' \in {"pending", "ok", "differs", "rejected", "ioerr", "usage"} /\ (exit' # "pending" <=> pc' = "done")
      BY <1>1, <2>1
    <3>3. QED BY <2>1, <2>6, <3>1, <3>2, TypesKept
  <2>11. /\ Place(walk)' /\ (Untouched' <=> Untouched) /\ (IsRegion' <=> IsRegion) /\ FillsExact' = FillsExact
         /\ (Agrees(walk, dev)' <=> Agrees(walk', dev)) /\ (Changed(walk, dev)' <=> Changed(walk', dev))
    BY <2>1, <2>6, StillSays
  <2>12. walk'.op = walk.op /\ walk'.bad = walk.bad /\ job'.cmd = job.cmd /\ job'.flaky = job.flaky
    BY <2>1, <2>6
  <2>13. WriteWalk => WriteWalk'
    BY <2>8, <2>9, <2>11, <2>12 DEF WriteWalk
  <2>14. CompareWalk => CompareWalk'
    BY <2>8, <2>11, <2>12 DEF CompareWalk
  <2>15. BlkWalk'
    BY <1>1, <1>2, <2>1, <2>11, <2>13, <2>14 DEF BlkWalk
  <2>16. QED BY <1>1, <2>1, <2>10, <2>15
<1>5. QED BY <1>3, <1>4

LEMMA Finishes ==
  ASSUME B!BlkwakAssumption, BlkTypes, BlkWalk, B!WalkEnds
  PROVE  BlkTypes' /\ BlkWalk' /\ pc' \in {"finish", "done"} /\ exit' \in {"pending", "rejected"}
<1>1. /\ pc = "walk" /\ exit = "pending" /\ ~B!HasPart /\ (file.kind = "sparse" => walk.i >= file.count)
      /\ job \in ImageJobs /\ B!IsImage(file) /\ dev \in Seq(ImageBytes) /\ walk \in Walks
  BY DEF B!WalkEnds, BlkTypes
<1>2. Place(walk) /\ (WriteWalk \/ CompareWalk)
  BY <1>1 DEF BlkWalk
<1>3. AtEnd(walk)
  BY <1>1, <1>2, WalkStops
<1>4. CASE B!Ends("rejected")
  BY <1>4, EndsTyped DEF BlkWalk
<1>5. CASE pc' = "finish" /\ UNCHANGED <<job, dev, file, walk, exit>>
  <2>1. job' = job /\ dev' = dev /\ file' = file /\ walk' = walk /\ exit' = "pending" /\ pc' = "finish"
    BY <1>1, <1>5
  <2>2. BlkTypes'
    <3>1. B!IsImage(file') /\ dev' \in Seq(ImageBytes) /\ Len(dev') = Len(dev) /\ walk' \in Walks
      BY <1>1, <2>1
    <3>2. pc' \in {"start", "open", "walk", "finish", "read", "done"}
          /\ exit' \in {"pending", "ok", "differs", "rejected", "ioerr", "usage"} /\ (exit' # "pending" <=> pc' = "done")
      BY <2>1
    <3>3. QED BY <2>1, <3>1, <3>2, TypesKept
  <2>3. Place(walk)' /\ (WriteWalk' \/ CompareWalk') /\ AtEnd(walk)'
    BY <1>2, <1>3, <2>1, WalkKept
  <2>4. QED BY <2>1, <2>2, <2>3 DEF BlkWalk
<1>6. QED BY <1>4, <1>5 DEF B!WalkEnds

\* That blkwak may end so.
Right(how) ==
  /\ FillsExact =>
        /\ how = "ok" /\ job.cmd # "read" /\ (walk.op = "compare" \/ ~job.flaky) => B!Matches
        /\ how = "differs" => ~B!Matches
  /\ how = "ok" => Untouched
  /\ how = "ok" /\ job.cmd = "read" => IsRegion

LEMMA EndsRight ==
  ASSUME job' = job, file' = file, dev' = dev, walk' = walk, Right(exit')
  PROVE  B!ImageAndDevice'
<1>1. /\ B!Decoded' = B!Decoded /\ FillsExact' = FillsExact
      /\ (Untouched' <=> Untouched) /\ (IsRegion' <=> IsRegion)
  BY StillSays
<1>2. B!Matches' <=> B!Matches
  BY <1>1 DEF B!Matches, B!Hole
<1>3. B!ImageOnDevice'
  <2>1. (B!FillsExact)' <=> FillsExact
    BY <1>1 DEF FillsExact
  <2>2. walk'.op = walk.op /\ job'.cmd = job.cmd /\ job'.flaky = job.flaky
    OBVIOUS
  <2>3. FillsExact => /\ exit' = "ok" /\ job.cmd # "read" /\ (walk.op = "compare" \/ ~job.flaky) => B!Matches
                      /\ exit' = "differs" => ~B!Matches
    BY DEF Right
  <2>4. QED BY <1>2, <2>1, <2>2, <2>3 DEF B!ImageOnDevice
<1>4. B!RestUntouched'
  <2>1. exit' = "ok" => Untouched'
    BY <1>1 DEF Right
  <2>2. QED BY <2>1 DEF B!RestUntouched, Untouched
<1>5. B!ImageOfDevice'
  <2>1. exit' = "ok" /\ job'.cmd = "read" => IsRegion'
    BY <1>1 DEF Right
  <2>2. QED BY <2>1 DEF B!ImageOfDevice, IsRegion
<1>6. QED BY <1>3, <1>4, <1>5 DEF B!ImageAndDevice

\* A walk has ended well: the command does, or compares what it has written.
LEMMA Concludes ==
  ASSUME B!BlkwakAssumption, BlkTypes, BlkWalk, B!Finish
  PROVE  /\ BlkTypes' /\ BlkWalk' /\ pc' \in {"open", "done"} /\ (pc' = "open" => exit' = "pending")
         /\ exit' \in {"ok", "differs"} => B!ImageAndDevice'
<1>1. /\ pc = "finish" /\ exit = "pending"
      /\ job \in ImageJobs /\ B!IsImage(file) /\ dev \in Seq(ImageBytes) /\ walk \in Walks
  BY DEF B!Finish, BlkTypes
<1>2. Place(walk) /\ (WriteWalk \/ CompareWalk) /\ AtEnd(walk)
  BY <1>1 DEF BlkWalk
<1>3. (Agrees(walk, dev) <=> B!Matches) /\ (Changed(walk, dev) /\ job.cmd = "write" => Untouched)
  BY <1>1, <1>2, AllSeen
<1>4. ASSUME NEW how \in {"ok", "differs"}, B!Ends(how), Right(how)
      PROVE  /\ BlkTypes' /\ BlkWalk' /\ pc' \in {"open", "done"} /\ (pc' = "open" => exit' = "pending")
             /\ exit' \in {"ok", "differs"} => B!ImageAndDevice'
  <2>1. how \in {"ok", "differs", "rejected", "ioerr", "usage"}
    BY <1>4
  <2>2. BlkTypes' /\ pc' = "done" /\ exit' = how /\ job' = job /\ dev' = dev /\ file' = file /\ walk' = walk
    BY <1>4, <2>1, EndsTyped
  <2>3. B!ImageAndDevice'
    BY <1>4, <2>2, EndsRight
  <2>4. QED BY <2>2, <2>3 DEF BlkWalk
<1>5. CASE walk.op = "compare"
  <2> DEFINE how == IF walk.bad = 0 THEN "ok" ELSE "differs"
  <2>1. B!Ends(how)
    BY <1>5 DEF B!Finish
  <2>2. CompareWalk
    BY <1>2, <1>5 DEF WriteWalk
  <2>3. Right(how)
    BY <1>3, <2>2 DEF Right, CompareWalk
  <2> HIDE DEF how
  <2>4. how \in {"ok", "differs"}
    BY DEF how
  <2>5. QED BY <1>4, <2>1, <2>3, <2>4
<1>6. CASE walk.op = "write"
  <2>1. WriteWalk
    BY <1>2, <1>6 DEF CompareWalk
  <2>2. Untouched
    BY <1>3, <2>1 DEF WriteWalk
  <2>3. CASE ~job.verify
    <3>1. B!Ends("ok")
      BY <1>6, <2>3 DEF B!Finish
    <3>2. Right("ok")
      BY <1>3, <1>6, <2>1, <2>2 DEF Right, WriteWalk
    <3>3. QED BY <1>4, <3>1, <3>2
  <2>4. CASE job.verify
    <3>1. /\ pc' = "open" /\ walk' = B!Walk("compare")
          /\ job' = job /\ dev' = dev /\ file' = file /\ exit' = exit
      BY <1>6, <2>4 DEF B!Finish
    <3>2. /\ walk' \in Walks /\ walk'.op = "compare" /\ walk'.bad = 0 /\ Place(walk')
          /\ Agrees(walk', dev)
      BY <1>1, <3>1, WalkStarts
    <3>3. BlkTypes'
      <4>1. B!IsImage(file') /\ dev' \in Seq(ImageBytes) /\ Len(dev') = Len(dev)
        BY <1>1, <3>1
      <4>2. pc' \in {"start", "open", "walk", "finish", "read", "done"}
            /\ exit' \in {"pending", "ok", "differs", "rejected", "ioerr", "usage"} /\ (exit' # "pending" <=> pc' = "done")
        BY <1>1, <3>1
      <4>3. QED BY <3>1, <3>2, <4>1, <4>2, TypesKept
    <3>4. /\ Place(walk)' /\ (Untouched' <=> Untouched)
          /\ (Agrees(walk, dev)' <=> Agrees(walk', dev))
      BY <3>1, <3>2, StillSays
    <3>5. job'.cmd # "read"
      BY <2>1, <3>1 DEF WriteWalk
    <3>6. CompareWalk'
      BY <2>2, <3>2, <3>4, <3>5 DEF CompareWalk
    <3>7. QED BY <1>1, <3>1, <3>3, <3>4, <3>6 DEF BlkWalk
  <2>5. QED BY <2>3, <2>4
<1>7. QED BY <1>2, <1>5, <1>6 DEF WriteWalk, CompareWalk

\* A write that fails has written a part of the span.
LEMMA Breaks ==
  ASSUME B!BlkwakAssumption, BlkTypes, BlkWalk, B!WriteFails
  PROVE  BlkTypes' /\ pc' = "done" /\ exit' = "ioerr"
<1> DEFINE d == B!Part.d
           a == walk.at
<1>1. /\ pc = "walk" /\ B!HasPart /\ ~B!Missing /\ a + Len(d) <= Len(dev)
      /\ pc' = "done" /\ exit' = "ioerr" /\ job' = job /\ file' = file /\ walk' = walk
  BY DEF B!WriteFails, B!Fits, B!HasPart
<1>2. PICK n \in 0..(Len(d) - 1) : dev' = B!Splice(dev, a, B!Bytes(d, 0, n))
  BY DEF B!WriteFails
<1>3. /\ job \in ImageJobs /\ B!IsImage(file) /\ dev \in Seq(ImageBytes) /\ walk \in Walks /\ a \in Nat
  BY DEF BlkTypes, Walks
<1>4. Place(walk)
  BY <1>1 DEF BlkWalk
<1>5. d \in Seq(ImageBytes) /\ Len(d) \in Nat
  BY <1>1, <1>3, <1>4, SpanIs
<1> HIDE DEF d, a
<1> DEFINE e == SubSeq(d, 0 + 1, 0 + n)
<1>6. e \in Seq(ImageBytes) /\ Len(e) = n
  <2>1. 0 \in Nat /\ n \in Nat /\ 0 + n <= Len(d)
    BY <1>5
  <2>2. QED BY <1>5, <2>1, PartIs
<1>7. dev' = B!Splice(dev, a, e)
  BY <1>2 DEF B!Bytes
<1> HIDE DEF e
<1>8. a + Len(e) <= Len(dev)
  <2> DEFINE N == Len(dev)
  <2>1. N \in Nat /\ a + Len(d) <= N
    BY <1>1, <1>3, OfSequences
  <2> HIDE DEF N
  <2>2. a + Len(e) <= N
    BY <1>3, <1>5, <1>6, <2>1
  <2>3. QED BY <2>2 DEF N
<1>9. dev' \in Seq(ImageBytes) /\ Len(dev') = Len(dev)
  BY <1>3, <1>6, <1>7, <1>8, SpliceIs
<1>10. QED BY <1>1, <1>3, <1>9, TypesKept

-----------------------------------------------------------------------------
(* Making a sparse image: what its chunks say is what was put into them.    *)

\* The chunks that are made.
Made == {c \in B!Chunks : /\ c.type \in {"raw", "fill"} /\ Len(c.body) = c.says
                          /\ c.type = "fill" => Len(c.body) = Word}
Whole(chunks) == B!Unpacked(chunks, BlockSize)[Len(chunks)]

LEMMA MadeCovers ==
  ASSUME B!BlkwakAssumption, NEW c \in Made
  PROVE  /\ c.blks * BlockSize \in Nat /\ c.blks \in Nat /\ c.body \in Seq(ImageBytes)
         /\ B!Covers(c, BlockSize) \in Seq(ImageBytes)
         /\ c.type = "raw" => B!Covers(c, BlockSize) = c.body
         /\ c.type = "fill" => B!Covers(c, BlockSize) = B!Repeat(c.body, c.blks * BlockSize)
<1>1. Word \in Nat \ {0} /\ BlockSize \in Nat \ {0}
  BY Zenon DEF B!BlkwakAssumption
<1>2. c \in B!Chunks /\ c.blks \in Nat /\ c.body \in Seq(ImageBytes) /\ c.type \in {"raw", "fill"}
      /\ (c.type = "fill" => Len(c.body) = Word)
  BY DEF Made, B!Chunks
<1>3. c.blks * BlockSize \in Nat
  BY <1>1, <1>2
<1>4. c.type = "raw" => B!Covers(c, BlockSize) = c.body
  BY DEF B!Covers
<1>5. c.type = "fill" => B!Covers(c, BlockSize) = B!Repeat(c.body, c.blks * BlockSize)
  BY DEF B!Covers
<1>6. c.type = "fill" => B!Repeat(c.body, c.blks * BlockSize) \in Seq(ImageBytes)
  <2> DEFINE b == c.body
             n == c.blks * BlockSize
  <2>1. SUFFICES ASSUME c.type = "fill" PROVE B!Repeat(b, n) \in Seq(ImageBytes)
    OBVIOUS
  <2>2. b \in Seq(ImageBytes) /\ n \in Nat /\ Len(b) > 0
    BY <1>1, <1>2, <1>3, <2>1
  <2> HIDE DEF b, n
  <2>3. QED BY <2>2, RepeatIs
<1>7. QED BY <1>2, <1>3, <1>4, <1>5, <1>6

LEMMA UnpackedMade ==
  ASSUME B!BlkwakAssumption, NEW chunks \in Seq(Made)
  PROVE  LET U == B!Unpacked(chunks, BlockSize)
         IN  /\ chunks \in Seq(B!Chunks) /\ Len(chunks) \in Nat
             /\ U[0] = <<>>
             /\ \A n \in 0..Len(chunks) : U[n] \in Seq(ImageBytes)
             /\ \A n \in 1..Len(chunks) : chunks[n] \in Made /\ U[n] = U[n - 1] \o B!Covers(chunks[n], BlockSize)
<1> DEFINE S == BytesOf(chunks, BlockSize)
<1>1. BlockSize \in Nat
  BY Zenon DEF B!BlkwakAssumption
<1>2. chunks \in Seq(B!Chunks) /\ Len(chunks) \in Nat /\ \A n \in 1..Len(chunks) : chunks[n] \in Made
  <2>1. Made \subseteq B!Chunks
    BY DEF Made
  <2>2. QED BY <2>1, SeqMonotonic, OfSequences
<1>3. S \subseteq ImageBytes
  <2>1. SUFFICES ASSUME NEW k \in 1..Len(chunks), NEW j \in DOMAIN B!Covers(chunks[k], BlockSize)
                 PROVE B!Covers(chunks[k], BlockSize)[j] \in ImageBytes
    BY DEF BytesOf
  <2>2. B!Covers(chunks[k], BlockSize) \in Seq(ImageBytes)
    BY <1>2, MadeCovers
  <2>3. QED BY <2>2, OfSequences
<1>4. \A n \in 0..Len(chunks) : B!Unpacked(chunks, BlockSize)[n] \in Seq(ImageBytes)
  <2>1. \A n \in 0..Len(chunks) : B!Unpacked(chunks, BlockSize)[n] \in Seq(S)
    BY <1>1, <1>2, UnpackedIs
  <2> HIDE DEF S
  <2>2. QED BY <1>3, <2>1, SeqMonotonic
<1>5. QED BY <1>1, <1>2, <1>4, UnpackedIs

\* One more chunk.
LEMMA WholeAppends ==
  ASSUME B!BlkwakAssumption, NEW chunks \in Seq(Made), NEW c \in Made
  PROVE  /\ Append(chunks, c) \in Seq(Made)
         /\ Whole(Append(chunks, c)) = Whole(chunks) \o B!Covers(c, BlockSize)
<1> DEFINE more == Append(chunks, c)
           N == Len(chunks)
           U == B!Unpacked(chunks, BlockSize)
           V == B!Unpacked(more, BlockSize)
<1>1. N \in Nat /\ more \in Seq(Made) /\ Len(more) = N + 1 /\ more[N + 1] = c
      /\ \A n \in 1..N : more[n] = chunks[n]
  <2>1. N \in Nat
    BY OfSequences
  <2>2. QED BY <2>1
<1> HIDE DEF more
<1>2. U[0] = <<>> /\ \A n \in 1..N : U[n] = U[n - 1] \o B!Covers(chunks[n], BlockSize)
  BY UnpackedMade
<1>3. V[0] = <<>> /\ \A n \in 1..(N + 1) : V[n] = V[n - 1] \o B!Covers(more[n], BlockSize)
  BY <1>1, UnpackedMade
<1> HIDE DEF U, V
<1>4. \A n \in 0..N : U[n] = V[n]
  <2> DEFINE T == {n \in 0..N : U[n] = V[n]}
  <2>1. 0 \in T
    BY <1>1, <1>2, <1>3
  <2>2. ASSUME NEW n \in 1..N, n - 1 \in T PROVE n \in T
    <3>1. n \in 0..N /\ n \in 1..(N + 1)
      BY <1>1
    <3>2. U[n - 1] = V[n - 1] /\ more[n] = chunks[n]
      BY <1>1, <2>2
    <3>3. U[n] = V[n]
      BY <1>2, <1>3, <3>1, <3>2, Zenon
    <3>4. QED BY <3>1, <3>3
  <2> HIDE DEF T, N
  <2>3. \A n \in 0..N : n \in T
    BY <1>1, <2>1, <2>2, UpTo
  <2>4. QED BY <2>3 DEF T
<1>5. V[N + 1] = U[N] \o B!Covers(c, BlockSize)
  <2>1. N + 1 \in 1..(N + 1) /\ (N + 1) - 1 = N /\ N \in 0..N
    BY <1>1
  <2>2. V[N + 1] = V[N] \o B!Covers(c, BlockSize)
    BY <1>1, <1>3, <2>1
  <2>3. QED BY <1>4, <2>1, <2>2
<1>6. QED BY <1>1, <1>5 DEF Whole, more, U, V

LEMMA WholeLast ==
  ASSUME B!BlkwakAssumption, NEW chunks \in Seq(Made), chunks # <<>>
  PROVE  /\ B!Front(chunks) \in Seq(Made) /\ B!Last(chunks) \in Made
         /\ Whole(chunks) = Whole(B!Front(chunks)) \o B!Covers(B!Last(chunks), BlockSize)
         /\ \A c \in Made : B!Front(chunks) \o <<c>> = Append(B!Front(chunks), c)
<1> DEFINE f == B!Front(chunks)
           z == B!Last(chunks)
           N == Len(chunks)
<1>1. N \in Nat /\ N > 0
  BY EmptySeq, OfSequences
<1>2. f = SubSeq(chunks, 1, N - 1) /\ z = chunks[N]
  BY DEF B!Front, B!Last
<1>3. z \in Made
  BY <1>1, <1>2, OfSequences
<1>4. f \in Seq(Made) /\ Len(f) = N - 1 /\ \A j \in 1..(N - 1) : f[j] = chunks[j]
  <2> DEFINE n == N - 1
  <2>1. n \in Nat /\ 0 + n <= Len(chunks)
    BY <1>1
  <2> HIDE DEF n
  <2>2. SubSeq(chunks, 0 + 1, 0 + n) \in Seq(Made) /\ Len(SubSeq(chunks, 0 + 1, 0 + n)) = n
        /\ \A j \in 1..n : SubSeq(chunks, 0 + 1, 0 + n)[j] = chunks[0 + j]
    BY <2>1, PartIs
  <2>3. f = SubSeq(chunks, 0 + 1, 0 + n)
    <3>1. 0 + 1 = 1 /\ 0 + n = n /\ n = N - 1
      BY <2>1 DEF n
    <3> HIDE DEF N, f
    <3>2. QED BY <1>2, <3>1
  <2>4. \A j \in 1..n : 0 + j = j
    OBVIOUS
  <2>5. f \in Seq(Made) /\ Len(f) = n /\ \A j \in 1..n : f[j] = chunks[j]
    <3> HIDE DEF f, N
    <3>1. QED BY <2>2, <2>3, <2>4
  <2>6. QED BY <2>5 DEF n
<1> HIDE DEF f, z
<1>5. \A c \in Made : f \o <<c>> = Append(f, c)
  BY <1>4
<1>6. Append(f, z) = chunks
  <2>1. Append(f, z) \in Seq(Made) /\ Len(Append(f, z)) = N
        /\ \A j \in 1..N : Append(f, z)[j] = chunks[j]
    BY <1>1, <1>2, <1>3, <1>4
  <2> DEFINE g == Append(f, z)
  <2> HIDE DEF g
  <2>2. g \in Seq(Made) /\ Len(g) = Len(chunks) /\ \A j \in 1..Len(g) : g[j] = chunks[j]
    BY <2>1 DEF g
  <2>3. g = chunks
    BY <2>2, SeqEqual
  <2>4. QED BY <2>3 DEF g
<1>7. Whole(chunks) = Whole(f) \o B!Covers(z, BlockSize)
  BY <1>3, <1>4, <1>6, WholeAppends
<1>8. QED BY <1>3, <1>4, <1>5, <1>7 DEF f, z

\* A fill that grows.
LEMMA RepeatGrows ==
  ASSUME NEW S, NEW f \in Seq(S), Len(f) > 0, NEW a \in Nat, NEW n \in Nat, a % Len(f) = 0
  PROVE  B!Repeat(f, a) \o B!Repeat(f, n) = B!Repeat(f, a + n)
<1> DEFINE m == Len(f)
           x == B!Repeat(f, a)
           y == B!Repeat(f, n)
           z == B!Repeat(f, a + n)
<1>1. m \in Nat \ {0} /\ a + n \in Nat
  BY OfSequences
<1>2. x \in Seq(S) /\ Len(x) = a /\ \A j \in 1..a : x[j] = f[((j - 1) % m) + 1]
  BY RepeatIs
<1>3. y \in Seq(S) /\ Len(y) = n /\ \A j \in 1..n : y[j] = f[((j - 1) % m) + 1]
  BY RepeatIs
<1>4. z \in Seq(S) /\ Len(z) = a + n /\ \A j \in 1..(a + n) : z[j] = f[((j - 1) % m) + 1]
  BY <1>1, RepeatIs
<1> HIDE DEF x, y, z, m
<1>5. /\ x \o y \in Seq(S) /\ Len(x \o y) = a + n
      /\ \A j \in 1..(a + n) : (x \o y)[j] = IF j <= a THEN x[j] ELSE y[j - a]
  <2>1. x \in Seq(S) /\ y \in Seq(S)
    BY <1>2, <1>3
  <2>2. /\ x \o y \in Seq(S) /\ Len(x \o y) = Len(x) + Len(y)
        /\ \A j \in 1..(Len(x) + Len(y)) : (x \o y)[j] = IF j <= Len(x) THEN x[j] ELSE y[j - Len(x)]
    BY <2>1, ConcatProperties
  <2>3. QED BY <1>2, <1>3, <2>2
<1>6. ASSUME NEW j \in 1..(a + n) PROVE (x \o y)[j] = z[j]
  <2>1. CASE j <= a
    <3>1. j \in 1..a
      BY <2>1
    <3>2. (x \o y)[j] = x[j]
      BY <1>5, <2>1
    <3>3. QED BY <1>2, <1>4, <3>1, <3>2
  <2>2. CASE ~(j <= a)
    <3> DEFINE b == (j - a) - 1
    <3>1. j - a \in 1..n /\ b \in Nat /\ j - 1 = a + b
      BY <2>2
    <3>2. (x \o y)[j] = y[j - a] /\ z[j] = f[((j - 1) % m) + 1]
      BY <1>4, <1>5, <2>2
    <3>3. y[j - a] = f[(b % m) + 1]
      BY <1>3, <3>1
    <3> HIDE DEF b
    <3>4. (a + b) % m = b % m
      BY <1>1, <3>1, WholeWords DEF m
    <3>5. QED BY <3>1, <3>2, <3>3, <3>4
  <2>3. QED BY <2>1, <2>2
<1> DEFINE w == x \o y
<1>7. w \in Seq(S) /\ Len(w) = Len(z) /\ \A j \in 1..Len(w) : w[j] = z[j]
  BY <1>4, <1>5, <1>6
<1> HIDE DEF w
<1>8. w = z
  BY <1>4, <1>7, SeqEqual
<1>9. QED BY <1>8 DEF w, x, y, z

\* A block is some words.
LEMMA BlockOfWords ==
  ASSUME B!BlkwakAssumption
  PROVE  /\ Word \in Nat \ {0} /\ BlockSize \in Nat \ {0} /\ Word <= BlockSize
         /\ \A n \in Nat : n * BlockSize \in Nat /\ (n * BlockSize) % Word = 0
<1>1. Word \in Nat \ {0} /\ BlockSize \in Nat \ {0} /\ BlockSize % Word = 0
  BY Zenon DEF B!BlkwakAssumption
<1> DEFINE q == BlockSize \div Word
<1>2. q \in Nat /\ BlockSize = Word * q
  <2>1. q \in Nat /\ BlockSize = Word * q + (BlockSize % Word)
    BY <1>1, DivisionParts
  <2> HIDE DEF q
  <2>2. QED BY <1>1, <2>1
<1> HIDE DEF q
<1>3. q >= 1
  BY <1>1, <1>2
<1>4. Word <= BlockSize
  <2>1. Word * q >= Word * 1
    BY <1>1, <1>2, <1>3
  <2>2. QED BY <1>1, <1>2, <2>1
<1>5. ASSUME NEW n \in Nat PROVE n * BlockSize \in Nat /\ (n * BlockSize) % Word = 0
  <2> DEFINE p == q * n
  <2>1. p \in Nat /\ n * BlockSize = Word * p + 0
    BY <1>1, <1>2
  <2> HIDE DEF p
  <2>2. (Word * p + 0) % Word = 0
    <3>1. 0 \in Nat /\ 0 < Word
      BY <1>1
    <3>2. QED BY <1>1, <2>1, <3>1, DivisionUnique
  <2>3. n * BlockSize \in Nat
    BY <1>1
  <2>4. QED BY <2>1, <2>2, <2>3
<1>6. QED BY <1>1, <1>4, <1>5

\* A run of blocks: if it is a fill, one word over and over.
IsRun(run) ==
  B!IsFill(B!Bytes(run, 0, BlockSize)) =>
     \A j \in 1..Len(run) : run[j] = run[((j - 1) % Word) + 1]

\* What the first word of a fill, repeated, is.
LEMMA FillIs ==
  ASSUME B!BlkwakAssumption, NEW run \in Seq(ImageBytes), NEW m \in Nat \ {0}, Len(run) = m * BlockSize,
         \A j \in 1..Len(run) : run[j] = run[((j - 1) % Word) + 1]
  PROVE  LET body == B!Bytes(run, 0, Word)
         IN  /\ body \in Seq(ImageBytes) /\ Len(body) = Word
             /\ B!Repeat(body, m * BlockSize) = run
<1> DEFINE body == SubSeq(run, 0 + 1, 0 + Word)
           n == m * BlockSize
           r == B!Repeat(body, n)
<1>1. Word \in Nat \ {0} /\ BlockSize \in Nat \ {0} /\ Word <= BlockSize /\ n \in Nat
  BY BlockOfWords
<1>2. Word <= n
  <2>1. BlockSize * m >= BlockSize * 1
    BY <1>1
  <2>2. n = BlockSize * m
    BY <1>1
  <2> HIDE DEF n
  <2>3. QED BY <1>1, <2>1, <2>2
<1>3. Len(run) = n
  OBVIOUS
<1> HIDE DEF n
<1>4. body \in Seq(ImageBytes) /\ Len(body) = Word /\ \A j \in 1..Word : body[j] = run[0 + j]
  <2>1. 0 \in Nat /\ Word \in Nat /\ 0 + Word <= Len(run)
    BY <1>1, <1>2, <1>3
  <2>2. QED BY <2>1, PartIs
<1> HIDE DEF body
<1>5. r \in Seq(ImageBytes) /\ Len(r) = n /\ \A j \in 1..n : r[j] = body[((j - 1) % Word) + 1]
  <2>1. /\ r \in Seq(ImageBytes) /\ Len(r) = n
        /\ \A j \in 1..n : r[j] = body[((j - 1) % Len(body)) + 1]
    <3>1. body \in Seq(ImageBytes) /\ Len(body) > 0 /\ n \in Nat
      BY <1>1, <1>4
    <3>2. QED BY <3>1, RepeatIs
  <2>2. QED BY <1>4, <2>1
<1> HIDE DEF r
<1>6. ASSUME NEW j \in 1..n PROVE r[j] = run[j]
  <2> DEFINE x == (j - 1) % Word
  <2>1. j - 1 \in Nat
    BY <1>1
  <2>2. x \in Nat /\ x < Word
    BY <1>1, <2>1, DivisionParts
  <2>3. r[j] = body[x + 1] /\ run[j] = run[x + 1]
    BY <1>3, <1>5
  <2> HIDE DEF x
  <2>4. x + 1 \in 1..Word /\ 0 + (x + 1) = x + 1
    BY <1>1, <2>2
  <2>5. QED BY <1>4, <2>3, <2>4
<1>7. r = run
  BY <1>3, <1>5, <1>6, SeqEqual
<1>8. B!Bytes(run, 0, Word) = body
  BY DEF B!Bytes, body
<1>9. QED BY <1>4, <1>7, <1>8 DEF r, n

LEMMA Regroups ==
  \A x, y, z \in Seq(ImageBytes) : (x \o y) \o z = x \o (y \o z)
  BY ConcatAssociative

\* A run goes into a chunk of its own, or the last one grows.
LEMMA PutBlocksIs ==
  ASSUME B!BlkwakAssumption, NEW chunks \in Seq(Made), NEW run \in Seq(ImageBytes), NEW m \in Nat \ {0},
         Len(run) = m * BlockSize, IsRun(run)
  PROVE  /\ B!PutBlocks(chunks, run) \in Seq(Made)
         /\ Whole(B!PutBlocks(chunks, run)) = Whole(chunks) \o run
<1> DEFINE blks == Len(run) \div BlockSize
           type == IF B!IsFill(B!Bytes(run, 0, BlockSize)) THEN "fill" ELSE "raw"
           body == IF type = "fill" THEN B!Bytes(run, 0, Word) ELSE run
           last == B!Last(chunks)
           grows == B!Grows(chunks, type, blks) /\ (type = "fill" => last.body = body)
           all == IF type = "fill" THEN body ELSE last.body \o body
           new == [type |-> type, blks |-> blks, says |-> Len(body), body |-> body]
           grown == [last EXCEPT !.blks = @ + blks, !.body = all, !.says = Len(all)]
<1>1. Word \in Nat \ {0} /\ BlockSize \in Nat \ {0} /\ \A n \in Nat : n * BlockSize \in Nat /\ (n * BlockSize) % Word = 0
  BY BlockOfWords
<1>2. blks = m
  <2>1. (BlockSize * m + 0) \div BlockSize = m
    <3>1. 0 \in Nat /\ 0 < BlockSize
      BY <1>1
    <3>2. QED BY <1>1, <3>1, DivisionUnique
  <2>2. Len(run) = BlockSize * m + 0
    BY <1>1
  <2>3. QED BY <2>1, <2>2
<1>3. B!PutBlocks(chunks, run) = IF grows THEN B!Front(chunks) \o <<grown>> ELSE Append(chunks, new)
  BY DEF B!PutBlocks
<1>4. type = "fill" => /\ body \in Seq(ImageBytes) /\ Len(body) = Word
                       /\ B!Repeat(body, m * BlockSize) = run
  BY FillIs DEF IsRun
<1>5. type = "raw" => body = run
  OBVIOUS
<1>6. type \in {"raw", "fill"} /\ body \in Seq(ImageBytes) /\ Len(body) \in Nat
  BY <1>1, <1>4, <1>5, OfSequences
<1> HIDE DEF blks, type, body, last
<1>7. CASE ~grows
  <2>1. /\ new.type = type /\ new.blks = m /\ new.says = Len(body) /\ new.body = body
        /\ new \in B!Chunks
    <3> DEFINE z == Len(body)
    <3>1. z \in Nat /\ blks \in Nat /\ type \in B!Types
      BY <1>2, <1>6 DEF B!Types
    <3>2. new = [type |-> type, blks |-> blks, says |-> z, body |-> body]
      OBVIOUS
    <3> HIDE DEF z, new
    <3>3. new.type = type /\ new.blks = blks /\ new.says = z /\ new.body = body
      BY <3>2
    <3>4. new \in B!Chunks
      BY <1>6, <3>1, <3>2 DEF B!Chunks
    <3>5. QED BY <1>2, <3>3, <3>4 DEF z
  <2> HIDE DEF new, grows
  <2>2. new \in Made
    BY <1>4, <1>6, <2>1 DEF Made
  <2>3. B!Covers(new, BlockSize) = run
    BY <1>4, <1>5, <1>6, <2>1, <2>2, MadeCovers
  <2>4. QED BY <1>3, <1>7, <2>2, <2>3, WholeAppends
<1>8. CASE grows
  <2>1. chunks # <<>> /\ last.type = type /\ (type = "fill" => last.body = body)
    BY <1>8 DEF B!Grows, last
  <2>2. /\ B!Front(chunks) \in Seq(Made) /\ last \in Made
        /\ Whole(chunks) = Whole(B!Front(chunks)) \o B!Covers(last, BlockSize)
        /\ \A c \in Made : B!Front(chunks) \o <<c>> = Append(B!Front(chunks), c)
    BY <2>1, WholeLast DEF last
  <2>3. /\ last \in B!Chunks /\ last.blks \in Nat /\ last.body \in Seq(ImageBytes) /\ last.blks * BlockSize \in Nat
        /\ B!Covers(last, BlockSize) \in Seq(ImageBytes)
        /\ type = "raw" => B!Covers(last, BlockSize) = last.body
        /\ type = "fill" => B!Covers(last, BlockSize) = B!Repeat(body, last.blks * BlockSize)
    BY <2>1, <2>2, MadeCovers DEF Made
  <2>4. all \in Seq(ImageBytes) /\ Len(all) \in Nat /\ (type = "fill" => all = body) /\ (type = "raw" => all = last.body \o run)
    <3>1. type = "fill" => all = body
      OBVIOUS
    <3>2. type = "raw" => all = last.body \o run
      BY <1>5
    <3>3. last.body \o run \in Seq(ImageBytes)
      BY <2>3, ConcatProperties
    <3> HIDE DEF all
    <3>4. all \in Seq(ImageBytes)
      BY <1>6, <3>1, <3>2, <3>3
    <3>5. QED BY <3>1, <3>2, <3>4, OfSequences
  <2> DEFINE sum == last.blks + m
             z == Len(all)
  <2>5. grown = [last EXCEPT !.blks = sum, !.body = all, !.says = z]
    BY <1>2
  <2>6. sum \in Nat /\ z \in Nat
    BY <2>3, <2>4
  <2>7. sum * BlockSize = last.blks * BlockSize + m * BlockSize
    <3> DEFINE a == last.blks
    <3>1. a \in Nat /\ BlockSize \in Nat /\ m \in Nat
      BY <1>1, <2>3
    <3> HIDE DEF a
    <3>2. (a + m) * BlockSize = a * BlockSize + m * BlockSize
      BY <3>1
    <3>3. QED BY <3>2 DEF a
  <2> HIDE DEF all, sum, z, grown, grows
  <2>8. /\ grown \in B!Chunks /\ grown.type = type /\ grown.blks = sum /\ grown.body = all /\ grown.says = z
    BY <2>1, <2>3, <2>4, <2>5, <2>6 DEF B!Chunks
  <2>9. grown \in Made
    BY <1>4, <1>6, <2>4, <2>8 DEF Made, z
  <2>10. B!Covers(grown, BlockSize) = B!Covers(last, BlockSize) \o run
    <3>1. CASE type = "raw"
      BY <2>3, <2>4, <2>8, <2>9, <3>1, MadeCovers
    <3>2. CASE type = "fill"
      <4> DEFINE a == last.blks * BlockSize
                 n == m * BlockSize
      <4>1. body \in Seq(ImageBytes) /\ Len(body) = Word /\ Len(body) > 0 /\ a \in Nat /\ n \in Nat /\ a % Word = 0
        <5>1. body \in Seq(ImageBytes) /\ Len(body) = Word
          BY <1>4, <3>2
        <5>2. a \in Nat /\ n \in Nat /\ a % Word = 0
          <6>1. last.blks \in Nat
            BY <2>3
          <6>2. QED BY <1>1, <6>1
        <5> HIDE DEF a, n
        <5>3. Len(body) > 0
          BY <1>1, <5>1
        <5>4. QED BY <5>1, <5>2, <5>3
      <4>2. sum * BlockSize = a + n /\ B!Repeat(body, n) = run /\ B!Covers(last, BlockSize) = B!Repeat(body, a)
        BY <1>4, <2>3, <2>7, <3>2
      <4> HIDE DEF a, n
      <4>3. B!Repeat(body, a) \o B!Repeat(body, n) = B!Repeat(body, a + n)
        BY <4>1, RepeatGrows
      <4>4. B!Covers(grown, BlockSize) = B!Repeat(grown.body, grown.blks * BlockSize)
        BY <2>8, <2>9, <3>2, MadeCovers
      <4>5. grown.body = body /\ grown.blks * BlockSize = a + n
        BY <2>4, <2>8, <3>2, <4>2
      <4>6. QED BY <4>2, <4>3, <4>4, <4>5
    <3>3. QED BY <1>6, <3>1, <3>2
  <2> DEFINE f == B!Front(chunks)
             x == Whole(f)
             y == B!Covers(last, BlockSize)
  <2>11. x \in Seq(ImageBytes)
    <3>1. Len(f) \in 0..Len(f)
      BY <2>2, OfSequences
    <3>2. QED BY <2>2, <3>1, UnpackedMade DEF Whole
  <2>12. B!PutBlocks(chunks, run) = Append(f, grown)
    BY <1>3, <1>8, <2>2, <2>9
  <2>13. Append(f, grown) \in Seq(Made) /\ Whole(Append(f, grown)) = x \o (y \o run)
    BY <2>2, <2>9, <2>10, WholeAppends
  <2>14. (x \o y) \o run = x \o (y \o run)
    <3> HIDE DEF x, y
    <3>1. y \in Seq(ImageBytes)
      BY <2>3 DEF y
    <3>2. run \in Seq(ImageBytes)
      OBVIOUS
    <3>3. QED BY <2>11, <3>1, <3>2, Regroups, Zenon
  <2>15. QED BY <2>2, <2>12, <2>13, <2>14
<1>9. QED BY <1>7, <1>8

-----------------------------------------------------------------------------
(* A buffer is put in run by run.                                           *)

\* A fill repeats its first word.
LEMMA FillWords ==
  ASSUME B!BlkwakAssumption, NEW b \in Seq(ImageBytes), Len(b) = BlockSize, B!IsFill(b)
  PROVE  \A j \in 1..BlockSize : b[j] = b[((j - 1) % Word) + 1]
<1>1. Word \in Nat \ {0} /\ BlockSize \in Nat \ {0} /\ Word <= BlockSize
  BY BlockOfWords
<1> DEFINE bad == {j \in 1..BlockSize : b[j] # b[((j - 1) % Word) + 1]}
<1>2. SUFFICES ASSUME bad # {} PROVE FALSE
  OBVIOUS
<1>3. bad \subseteq Nat
  BY <1>1
<1>4. PICK j \in bad : \A y \in bad : j <= y
  BY <1>2, <1>3, LeastNumber
<1>5. j \in 1..BlockSize /\ b[j] # b[((j - 1) % Word) + 1]
  OBVIOUS
<1>6. CASE j <= Word
  <2> DEFINE x == j - 1
  <2>1. x \in Nat /\ x < Word
    BY <1>1, <1>5, <1>6
  <2>2. (Word * 0 + x) % Word = x
    <3> HIDE DEF x
    <3>1. 0 \in Nat
      OBVIOUS
    <3>2. QED BY <1>1, <2>1, <3>1, DivisionUnique
  <2>3. Word * 0 + x = x /\ x + 1 = j
    BY <1>1, <1>5, <2>1
  <2>4. b[(x % Word) + 1] = b[j]
    <3> HIDE DEF x
    <3>1. x % Word = x
      BY <2>2, <2>3
    <3>2. QED BY <2>3, <3>1
  <2>5. QED BY <1>5, <2>4
<1>7. CASE ~(j <= Word)
  <2> DEFINE prev == j - Word
             x == prev - 1
  <2>1. prev \in 1..(BlockSize - Word) /\ prev \in 1..BlockSize /\ prev < j /\ x \in Nat /\ j - 1 = Word + x /\ prev + Word = j
    BY <1>1, <1>5, <1>7
  <2> HIDE DEF prev
  <2>2. b[prev] = b[j]
    <3>1. b[prev] = b[prev + Word]
      BY <2>1 DEF B!IsFill
    <3>2. QED BY <2>1, <3>1
  <2>3. prev \notin bad
    <3>1. ~(j <= prev)
      BY <1>5, <2>1
    <3>2. QED BY <1>4, <3>1
  <2>4. b[prev] = b[(x % Word) + 1]
    BY <2>1, <2>3
  <2>5. (Word + x) % Word = x % Word
    <3> HIDE DEF x
    <3>1. Word % Word = 0
      <4>1. (Word * 1 + 0) % Word = 0
        <5>1. 1 \in Nat /\ 0 \in Nat /\ 0 < Word
          BY <1>1
        <5>2. QED BY <1>1, <5>1, DivisionUnique
      <4>2. Word * 1 + 0 = Word
        BY <1>1
      <4>3. QED BY <4>1, <4>2
    <3>2. QED BY <1>1, <2>1, <3>1, WholeWords
  <2>6. ((j - 1) % Word) = x % Word
    <3> HIDE DEF x
    <3>1. QED BY <2>1, <2>5
  <2>7. QED BY <1>5, <2>2, <2>4, <2>6
<1>8. QED BY <1>6, <1>7

\* Where a block is in a buffer of n blocks.
LEMMA BlockIs ==
  ASSUME B!BlkwakAssumption, NEW b \in Seq(ImageBytes), NEW n \in Nat, Len(b) = n * BlockSize, NEW k \in 1..n
  PROVE  LET x == B!BlockOf(b, k)
         IN  /\ x \in Seq(ImageBytes) /\ Len(x) = BlockSize
             /\ (k - 1) * BlockSize \in Nat /\ (k - 1) * BlockSize + BlockSize <= Len(b)
             /\ \A j \in 1..BlockSize : x[j] = b[(k - 1) * BlockSize + j]
<1> DEFINE a == (k - 1) * BlockSize
<1>1. BlockSize \in Nat \ {0}
  BY BlockOfWords
<1>2. a \in Nat /\ a + BlockSize <= Len(b)
  <2> DEFINE e == n - k
  <2>1. k - 1 \in Nat /\ e \in Nat /\ n = (k - 1) + 1 + e
    OBVIOUS
  <2> DEFINE h == k - 1
  <2>2. h \in Nat /\ n = h + 1 + e
    BY <2>1
  <2> HIDE DEF e, h
  <2>3. (h + 1 + e) * BlockSize = h * BlockSize + BlockSize + e * BlockSize
    BY <1>1, <2>1, <2>2
  <2>4. h * BlockSize \in Nat /\ e * BlockSize \in Nat
    BY <1>1, <2>1, <2>2
  <2>5. h * BlockSize + BlockSize <= n * BlockSize
    BY <1>1, <2>2, <2>3, <2>4
  <2>6. QED BY <2>4, <2>5 DEF h
<1> HIDE DEF a
<1>3. B!BlockOf(b, k) = SubSeq(b, a + 1, a + BlockSize)
  BY DEF B!BlockOf, B!Bytes, a
<1>4. BlockSize \in Nat
  BY <1>1
<1>5. /\ SubSeq(b, a + 1, a + BlockSize) \in Seq(ImageBytes) /\ Len(SubSeq(b, a + 1, a + BlockSize)) = BlockSize
      /\ \A j \in 1..BlockSize : SubSeq(b, a + 1, a + BlockSize)[j] = b[a + j]
  BY <1>2, <1>4, PartIs
<1>6. QED BY <1>2, <1>3, <1>5 DEF a

\* The blocks of a buffer from p to q.
RunOf(b, p, q) == B!Bytes(b, (p - 1) * BlockSize, (q + 1 - p) * BlockSize)

StartOf(p) == (p - 1) * BlockSize
SizeOf(p, q) == (q + 1 - p) * BlockSize
\* s is what follows a in b.
Copies(s, b, a) == \A j \in 1..Len(s) : s[j] = b[a + j]

\* A run is within its buffer.
Within(b, p, q) ==
  LET run == RunOf(b, p, q)
      m == q + 1 - p
      a == StartOf(p)
  IN  /\ m \in Nat \ {0} /\ run \in Seq(ImageBytes) /\ Len(run) = m * BlockSize /\ Len(run) = SizeOf(p, q)
      /\ a \in Nat /\ a + m * BlockSize = q * BlockSize /\ q * BlockSize \in Nat /\ q * BlockSize <= Len(b)
      /\ Copies(run, b, a)

LEMMA RunIs ==
  ASSUME B!BlkwakAssumption, NEW b \in Seq(ImageBytes), NEW n \in Nat, Len(b) = n * BlockSize,
         NEW q \in 1..n, NEW p \in 1..q
  PROVE  Within(b, p, q)
<1> DEFINE m == q + 1 - p
           a == StartOf(p)
           c == SizeOf(p, q)
<1> USE DEF StartOf, SizeOf
<1>1. BlockSize \in Nat \ {0}
  BY BlockOfWords
<1>2. m \in Nat \ {0} /\ p - 1 \in Nat /\ (p - 1) + m = q /\ n - q \in Nat /\ q + (n - q) = n
  OBVIOUS
<1>3. a \in Nat /\ c \in Nat /\ a + c = q * BlockSize /\ q * BlockSize \in Nat /\ q * BlockSize <= n * BlockSize
  <2> DEFINE h == p - 1
             e == n - q
  <2>1. h \in Nat /\ e \in Nat /\ m \in Nat /\ h + m = q /\ q + e = n
    BY <1>2
  <2> HIDE DEF h, e, m
  <2>2. (h + m) * BlockSize = h * BlockSize + m * BlockSize /\ (q + e) * BlockSize = q * BlockSize + e * BlockSize
    BY <1>1, <2>1
  <2>3. h * BlockSize \in Nat /\ m * BlockSize \in Nat /\ e * BlockSize \in Nat
    BY <1>1, <2>1
  <2>4. h * BlockSize + m * BlockSize = q * BlockSize /\ n * BlockSize = q * BlockSize + e * BlockSize
    BY <2>1, <2>2
  <2>5. h * BlockSize \in Nat /\ m * BlockSize \in Nat /\ h * BlockSize + m * BlockSize = q * BlockSize
        /\ q * BlockSize \in Nat /\ q * BlockSize <= n * BlockSize
    BY <2>3, <2>4
  <2>6. a = h * BlockSize /\ c = m * BlockSize
    BY DEF h, m
  <2>7. QED BY <2>5, <2>6
<1> HIDE DEF a, c
<1>4. RunOf(b, p, q) = SubSeq(b, a + 1, a + c)
  BY DEF RunOf, B!Bytes, a, c
<1>5. /\ SubSeq(b, a + 1, a + c) \in Seq(ImageBytes) /\ Len(SubSeq(b, a + 1, a + c)) = c
      /\ \A j \in 1..c : SubSeq(b, a + 1, a + c)[j] = b[a + j]
  <2>1. a + c <= Len(b)
    BY <1>3
  <2>2. QED BY <1>3, <2>1, PartIs
<1>6. QED BY <1>2, <1>3, <1>4, <1>5 DEF a, c, Copies, Within

\* What shares a chunk with its first block is a run.
LEMMA SharedIs ==
  ASSUME B!BlkwakAssumption, NEW b \in Seq(ImageBytes), NEW n \in Nat, Len(b) = n * BlockSize,
         NEW q \in 1..n, NEW p \in 1..q,
         \A k \in p..q : B!SameChunk(B!BlockOf(b, p), B!BlockOf(b, k))
  PROVE  IsRun(RunOf(b, p, q))
<1> DEFINE run == RunOf(b, p, q)
           m == q + 1 - p
           a == StartOf(p)
           c == SizeOf(p, q)
           x == B!BlockOf(b, p)
           first == SubSeq(run, 0 + 1, 0 + BlockSize)
<1>1. Word \in Nat \ {0} /\ BlockSize \in Nat \ {0} /\ Word <= BlockSize
      /\ \A g \in Nat : g * BlockSize \in Nat /\ (g * BlockSize) % Word = 0
  BY BlockOfWords
<1>2. /\ m \in Nat \ {0} /\ run \in Seq(ImageBytes) /\ Len(run) = c
      /\ a \in Nat /\ \A j \in 1..c : run[j] = b[a + j]
  <2>1. Within(b, p, q)
    BY RunIs
  <2>2. QED BY <2>1 DEF Within, Copies
<1>3. p \in 1..n /\ m \in Nat \ {0} /\ \A k \in p..q : k \in 1..n
  OBVIOUS
<1>4. c = m * BlockSize
  BY DEF SizeOf
<1>5. c \in Nat /\ BlockSize <= c
  <2> HIDE DEF m, c
  <2>1. m * BlockSize >= 1 * BlockSize
    BY <1>1, <1>3
  <2>2. QED BY <1>1, <1>3, <1>4, <2>1
<1>6. x \in Seq(ImageBytes) /\ Len(x) = BlockSize /\ \A j \in 1..BlockSize : x[j] = b[a + j]
  BY <1>3, BlockIs DEF StartOf
<1> HIDE DEF run, a, c, x, m
<1>7. first = x
  <2>1. 0 \in Nat /\ BlockSize \in Nat /\ 0 + BlockSize <= Len(run)
    BY <1>1, <1>2, <1>5
  <2>2. first \in Seq(ImageBytes) /\ Len(first) = BlockSize /\ \A j \in 1..BlockSize : first[j] = run[0 + j]
    BY <1>2, <2>1, PartIs
  <2>3. \A j \in 1..BlockSize : 0 + j = j /\ j \in 1..c
    BY <1>1, <1>5
  <2> HIDE DEF first
  <2>4. \A j \in 1..BlockSize : first[j] = x[j]
    BY <1>2, <1>6, <2>2, <2>3
  <2>5. QED BY <1>6, <2>2, <2>4, SeqEqual
<1>8. B!Bytes(run, 0, BlockSize) = x
  BY <1>7 DEF B!Bytes
<1>9. ASSUME B!IsFill(x), NEW j \in 1..c
      PROVE  run[j] = run[((j - 1) % Word) + 1]
  <2> DEFINE e == (j - 1) \div BlockSize
             r == (j - 1) % BlockSize
             k == p + e
             y == B!BlockOf(b, k)
             d == e * BlockSize
             t == (r % Word) + 1
  <2>1. j - 1 \in Nat
    BY <1>5
  <2>2. e \in Nat /\ r \in Nat /\ r < BlockSize /\ j - 1 = BlockSize * e + r
    BY <1>1, <2>1, DivisionParts
  <2> HIDE DEF e, r
  <2>3. d \in Nat /\ d % Word = 0 /\ j = d + (r + 1) /\ j - 1 = d + r
    <3>1. BlockSize * e = e * BlockSize
      BY <1>1, <2>2
    <3>2. d \in Nat /\ d % Word = 0
      BY <1>1, <2>2
    <3> HIDE DEF d
    <3>3. j - 1 = d + r
      BY <2>2, <3>1 DEF d
    <3>4. QED BY <1>5, <2>2, <3>2, <3>3
  <2>4. k \in p..q
    <3>1. e < m
      <4>1. SUFFICES ASSUME m <= e PROVE FALSE
        BY <1>2, <2>2
      <4>2. m * BlockSize <= e * BlockSize
        BY <1>1, <1>2, <2>2, <4>1
      <4>3. c <= d
        BY <1>4, <4>2
      <4> HIDE DEF d
      <4>4. QED BY <1>5, <2>2, <2>3, <4>3
    <3>2. QED BY <2>2, <3>1 DEF m
  <2>5. /\ y \in Seq(ImageBytes) /\ Len(y) = BlockSize
        /\ \A g \in 1..BlockSize : y[g] = b[(k - 1) * BlockSize + g]
    BY <1>3, <2>4, BlockIs
  <2>6. (k - 1) * BlockSize = a + d
    <3> DEFINE h == p - 1
    <3>1. h \in Nat /\ k - 1 = h + e
      BY <2>2
    <3> HIDE DEF h, k
    <3>2. (h + e) * BlockSize = h * BlockSize + e * BlockSize
      BY <1>1, <2>2, <3>1
    <3>3. QED BY <3>1, <3>2 DEF h, a, StartOf
  <2>7. r + 1 \in 1..BlockSize /\ r % Word \in Nat /\ r % Word < Word /\ t \in 1..Word /\ t \in 1..BlockSize /\ t \in 1..c
    <3>1. r % Word \in Nat /\ r % Word < Word
      BY <1>1, <2>2, DivisionParts
    <3> DEFINE z == r % Word
    <3> HIDE DEF z
    <3>2. z + 1 \in 1..Word /\ z + 1 \in 1..BlockSize /\ z + 1 \in 1..c /\ r + 1 \in 1..BlockSize
      BY <1>1, <1>5, <2>2, <3>1 DEF z
    <3>3. QED BY <3>1, <3>2 DEF z
  <2>8. run[j] = y[r + 1]
    <3>1. a + j = (a + d) + (r + 1)
      <4> HIDE DEF d
      <4>1. QED BY <1>2, <2>2, <2>3
    <3>2. y[r + 1] = b[(a + d) + (r + 1)]
      BY <2>5, <2>6, <2>7
    <3> HIDE DEF d, y
    <3>3. QED BY <1>2, <3>1, <3>2
  <2>9. B!IsFill(y) /\ B!Bytes(x, 0, Word) = B!Bytes(y, 0, Word)
    BY <1>9, <2>4 DEF B!SameChunk, x
  <2>10. y[r + 1] = y[t]
    <3>1. \A g \in 1..BlockSize : y[g] = y[((g - 1) % Word) + 1]
      <4> HIDE DEF y
      <4>1. QED BY <2>5, <2>9, FillWords
    <3>2. (r + 1) - 1 = r
      BY <2>2
    <3> HIDE DEF y
    <3>3. y[r + 1] = y[(((r + 1) - 1) % Word) + 1]
      BY <2>7, <3>1
    <3>4. QED BY <3>2, <3>3
  <2> HIDE DEF y
  <2>11. y[t] = x[t]
    <3>1. 0 \in Nat /\ Word \in Nat /\ 0 + Word <= BlockSize /\ 0 + t = t
      BY <1>1, <2>7
    <3> HIDE DEF t
    <3>2. SubSeq(x, 0 + 1, 0 + Word)[t] = x[0 + t]
      BY <1>6, <2>7, <3>1, PartIs
    <3>3. SubSeq(y, 0 + 1, 0 + Word)[t] = y[0 + t]
      BY <2>5, <2>7, <3>1, PartIs
    <3>4. SubSeq(x, 0 + 1, 0 + Word) = SubSeq(y, 0 + 1, 0 + Word)
      BY <2>9 DEF B!Bytes
    <3>5. QED BY <3>1, <3>2, <3>3, <3>4
  <2>12. x[t] = run[t]
    BY <1>2, <1>6, <2>7
  <2>13. (j - 1) % Word = r % Word
    <3> HIDE DEF d
    <3>1. (d + r) % Word = r % Word
      BY <1>1, <2>2, <2>3, WholeWords
    <3>2. QED BY <2>3, <3>1
  <2>14. QED BY <2>8, <2>10, <2>11, <2>12, <2>13
<1>10. QED BY <1>2, <1>8, <1>9 DEF IsRun, run

\* What follows each other.
Joins(S, s, a, m, n) ==
  /\ B!Bytes(s, a, m) \o B!Bytes(s, a + m, n) = B!Bytes(s, a, m + n)
  /\ B!Bytes(s, a, m + n) \in Seq(S) /\ Len(B!Bytes(s, a, m + n)) = m + n

LEMMA BytesJoin ==
  ASSUME NEW S, NEW s \in Seq(S), NEW a \in Nat, NEW m \in Nat, NEW n \in Nat, a + m + n <= Len(s)
  PROVE  Joins(S, s, a, m, n)
<1> DEFINE x == B!Bytes(s, a, m)
           y == B!Bytes(s, a + m, n)
           z == B!Bytes(s, a, m + n)
           N == Len(s)
<1>1. N \in Nat
  BY OfSequences
<1>2. /\ x \in Seq(S) /\ Len(x) = m /\ \A j \in 1..m : x[j] = s[a + j]
  <2>1. a + m <= Len(s)
    BY <1>1
  <2>2. /\ SubSeq(s, a + 1, a + m) \in Seq(S) /\ Len(SubSeq(s, a + 1, a + m)) = m
        /\ \A j \in 1..m : SubSeq(s, a + 1, a + m)[j] = s[a + j]
    BY <2>1, PartIs
  <2>3. QED BY <2>2 DEF B!Bytes
<1>3. /\ y \in Seq(S) /\ Len(y) = n /\ \A j \in 1..n : y[j] = s[(a + m) + j]
  <2> DEFINE b == a + m
  <2>1. b \in Nat /\ b + n <= Len(s)
    BY <1>1
  <2> HIDE DEF b
  <2>2. /\ SubSeq(s, b + 1, b + n) \in Seq(S) /\ Len(SubSeq(s, b + 1, b + n)) = n
        /\ \A j \in 1..n : SubSeq(s, b + 1, b + n)[j] = s[b + j]
    BY <2>1, PartIs
  <2>3. y = SubSeq(s, b + 1, b + n)
    BY DEF B!Bytes, b
  <2> HIDE DEF y
  <2>4. QED BY <2>2, <2>3 DEF b
<1>4. /\ z \in Seq(S) /\ Len(z) = m + n /\ \A j \in 1..(m + n) : z[j] = s[a + j]
  <2> DEFINE b == m + n
  <2>1. b \in Nat /\ a + b <= Len(s)
    BY <1>1
  <2> HIDE DEF b
  <2>2. /\ SubSeq(s, a + 1, a + b) \in Seq(S) /\ Len(SubSeq(s, a + 1, a + b)) = b
        /\ \A j \in 1..b : SubSeq(s, a + 1, a + b)[j] = s[a + j]
    BY <2>1, PartIs
  <2>3. z = SubSeq(s, a + 1, a + b)
    BY DEF B!Bytes, b
  <2> HIDE DEF z
  <2>4. QED BY <2>2, <2>3 DEF b
<1> HIDE DEF x, y, z
<1> DEFINE w == x \o y
<1>5. /\ w \in Seq(S) /\ Len(w) = m + n
      /\ \A j \in 1..(m + n) : w[j] = IF j <= m THEN x[j] ELSE y[j - m]
  <2>1. x \in Seq(S) /\ y \in Seq(S)
    BY <1>2, <1>3
  <2>2. /\ x \o y \in Seq(S) /\ Len(x \o y) = Len(x) + Len(y)
        /\ \A j \in 1..(Len(x) + Len(y)) : (x \o y)[j] = IF j <= Len(x) THEN x[j] ELSE y[j - Len(x)]
    BY <2>1, ConcatProperties
  <2>3. QED BY <1>2, <1>3, <2>2
<1> HIDE DEF w
<1>6. ASSUME NEW j \in 1..(m + n) PROVE w[j] = z[j]
  <2>1. CASE j <= m
    <3>1. j \in 1..m
      BY <2>1
    <3>2. w[j] = x[j] /\ x[j] = s[a + j] /\ z[j] = s[a + j]
      BY <1>2, <1>4, <1>5, <2>1, <3>1
    <3>3. QED BY <3>2
  <2>2. CASE ~(j <= m)
    <3>1. j - m \in 1..n /\ (a + m) + (j - m) = a + j
      BY <2>2
    <3>2. w[j] = y[j - m] /\ z[j] = s[a + j]
      BY <1>4, <1>5, <2>2
    <3>3. y[j - m] = s[(a + m) + (j - m)]
      BY <1>3, <3>1
    <3>4. QED BY <3>1, <3>2, <3>3
  <2>3. QED BY <2>1, <2>2
<1>7. w = z
  BY <1>4, <1>5, <1>6, SeqEqual
<1>8. QED BY <1>4, <1>7 DEF w, x, y, z, Joins

\* One round of PutBuffer(): the blocks from s.start to k share a chunk.
Puts == [start : Nat, chunks : Seq(Made)]
Nice(b, k, s) ==
  /\ s.start \in 1..k
  /\ \A h \in s.start..k : B!SameChunk(B!BlockOf(b, s.start), B!BlockOf(b, h))
Put(b, n, k, s) ==
  IF k < n /\ B!SameChunk(B!BlockOf(b, s.start), B!BlockOf(b, k + 1)) THEN s
  ELSE [start |-> k + 1, chunks |-> B!PutBlocks(s.chunks, RunOf(b, s.start, k))]
HasPut(b, before, s) == Whole(s.chunks) = Whole(before) \o B!Bytes(b, 0, StartOf(s.start))

LEMMA PutStep ==
  ASSUME B!BlkwakAssumption, NEW b \in Seq(ImageBytes), NEW n \in Nat, Len(b) = n * BlockSize,
         NEW k \in 1..n, NEW s \in Puts, Nice(b, k, s), NEW before \in Seq(Made)
  PROVE  LET t == Put(b, n, k, s)
         IN  /\ t \in Puts
             /\ k < n => Nice(b, k + 1, t)
             /\ k = n => t.start = n + 1
             /\ HasPut(b, before, s) => HasPut(b, before, t)
<1> DEFINE p == s.start
           run == RunOf(b, p, k)
           old == s.chunks
           new == B!PutBlocks(old, run)
           t == Put(b, n, k, s)
<1>1. p \in 1..k /\ old \in Seq(Made) /\ \A h \in p..k : B!SameChunk(B!BlockOf(b, p), B!BlockOf(b, h))
  BY DEF Nice, Puts
<1>2. CASE k < n /\ B!SameChunk(B!BlockOf(b, p), B!BlockOf(b, k + 1))
  <2>1. t = s
    BY <1>2 DEF Put
  <2>2. Nice(b, k + 1, s)
    <3>1. p \in 1..(k + 1)
      BY <1>1
    <3>2. \A h \in p..(k + 1) : h \in p..k \/ h = k + 1
      BY <1>1
    <3>3. QED BY <1>1, <1>2, <3>1, <3>2 DEF Nice
  <2>3. QED BY <1>2, <2>1, <2>2
<1>3. CASE ~(k < n /\ B!SameChunk(B!BlockOf(b, p), B!BlockOf(b, k + 1)))
  <2>1. t = [start |-> k + 1, chunks |-> new]
    BY <1>3 DEF Put
  <2> DEFINE m == k + 1 - p
             a == StartOf(p)
             c == m * BlockSize
             z == k * BlockSize
  <2>2. /\ m \in Nat \ {0} /\ run \in Seq(ImageBytes) /\ Len(run) = m * BlockSize
        /\ a \in Nat /\ a + m * BlockSize = k * BlockSize /\ k * BlockSize \in Nat /\ k * BlockSize <= Len(b)
    <3>1. p \in 1..k
      BY <1>1
    <3> HIDE DEF p
    <3>2. Within(b, p, k)
      BY <3>1, RunIs
    <3>3. QED BY <3>2 DEF Within
  <2>3. IsRun(run)
    BY <1>1, SharedIs
  <2> HIDE DEF m, run, old
  <2>4. new \in Seq(Made) /\ Whole(new) = Whole(old) \o run
    BY <1>1, <2>2, <2>3, PutBlocksIs
  <2> HIDE DEF new
  <2>5. t \in Puts /\ t.start = k + 1 /\ t.chunks = new
    BY <2>1, <2>4 DEF Puts
  <2> HIDE DEF t
  <2>6. k < n => Nice(b, k + 1, t)
    <3>1. k + 1 \in 1..(k + 1) /\ \A h \in (k + 1)..(k + 1) : h = k + 1
      OBVIOUS
    <3>2. B!SameChunk(B!BlockOf(b, k + 1), B!BlockOf(b, k + 1))
      BY DEF B!SameChunk
    <3>3. QED BY <2>5, <3>1, <3>2 DEF Nice
  <2>7. ASSUME HasPut(b, before, s) PROVE HasPut(b, before, t)
    <3> DEFINE x == Whole(before)
               y == B!Bytes(b, 0, a)
    <3>1. Whole(old) = x \o y
      BY <2>7 DEF HasPut, old
    <3>2. StartOf(t.start) = z
      <4>1. (k + 1) - 1 = k
        OBVIOUS
      <4>2. QED BY <2>5, <4>1 DEF StartOf
    <3>3. c \in Nat /\ z \in Nat /\ a + c = z /\ z <= Len(b)
      <4>1. BlockSize \in Nat
        BY BlockOfWords
      <4>2. c \in Nat
        BY <2>2, <4>1
      <4>3. QED BY <2>2, <4>2
    <3>4. run = B!Bytes(b, a, c)
      BY DEF run, RunOf, StartOf, m
    <3> HIDE DEF a, c, z
    <3>5. /\ y \o B!Bytes(b, 0 + a, c) = B!Bytes(b, 0, a + c) /\ B!Bytes(b, 0, a + c) \in Seq(ImageBytes)
      <4>1. 0 \in Nat /\ 0 + a + c <= Len(b) /\ a \in Nat
        BY <2>2, <3>3 DEF a
      <4>2. c \in Nat
        BY <3>3
      <4>3. Joins(ImageBytes, b, 0, a, c)
        BY <4>1, <4>2, BytesJoin
      <4>4. QED BY <4>3 DEF Joins
    <3>6. 0 + a = a /\ a + c = z
      BY <2>2, <3>3 DEF a
    <3>7. y \o run = B!Bytes(b, 0, z)
      BY <3>4, <3>5, <3>6
    <3>8. x \in Seq(ImageBytes)
      <4>1. Len(before) \in 0..Len(before)
        BY OfSequences
      <4>2. QED BY <4>1, UnpackedMade DEF Whole
    <3>9. y \in Seq(ImageBytes)
      <4>1. 0 \in Nat /\ a \in Nat /\ 0 + a <= Len(b)
        <5> DEFINE N == Len(b)
        <5>1. N \in Nat
          BY OfSequences
        <5>2. a \in Nat /\ z <= N
          BY <2>2, <3>3 DEF a
        <5> HIDE DEF N
        <5>3. 0 + a <= N
          BY <3>3, <5>1, <5>2
        <5>4. QED BY <5>2, <5>3 DEF N
      <4>2. SubSeq(b, 0 + 1, 0 + a) \in Seq(ImageBytes)
        BY <4>1, PartIs
      <4>3. QED BY <4>2 DEF B!Bytes
    <3> HIDE DEF x, y
    <3>10. (x \o y) \o run = x \o (y \o run)
      <4>1. run \in Seq(ImageBytes)
        BY <2>2
      <4>2. QED BY <3>8, <3>9, <4>1, Regroups, Zenon
    <3>11. Whole(new) = x \o B!Bytes(b, 0, z)
      BY <2>4, <3>1, <3>7, <3>10
    <3>12. QED BY <2>5, <3>2, <3>11 DEF HasPut, x
  <2>8. QED BY <2>5, <2>6, <2>7 DEF t
<1>4. QED BY <1>2, <1>3

LEMMA PutBufferIs ==
  ASSUME B!BlkwakAssumption, NEW b \in Seq(ImageBytes), NEW n \in Nat \ {0}, Len(b) = n * BlockSize,
         NEW chunks \in Seq(Made)
  PROVE  /\ B!PutBuffer(chunks, b) \in Seq(Made)
         /\ Whole(B!PutBuffer(chunks, b)) = Whole(chunks) \o b
<1> DEFINE N == Len(b) \div BlockSize
           base == [start |-> 1, chunks |-> chunks]
           step == [x \in Puts \X (1..N) |-> IF Nice(b, x[2], x[1]) THEN Put(b, N, x[2], x[1]) ELSE x[1]]
           d == CHOOSE h : h = [k \in 0..N |-> IF k = 0 THEN base ELSE Put(b, N, k, h[k - 1])]
<1>1. BlockSize \in Nat \ {0}
  BY BlockOfWords
<1>2. N = n
  <2>1. (BlockSize * n + 0) \div BlockSize = n
    <3>1. 0 \in Nat /\ 0 < BlockSize
      BY <1>1
    <3>2. QED BY <1>1, <3>1, DivisionUnique
  <2>2. Len(b) = BlockSize * n + 0
    BY <1>1
  <2>3. QED BY <2>1, <2>2
<1>3. B!PutBuffer(chunks, b) = d[N].chunks
  BY Zenon DEF B!PutBuffer, Put, RunOf
<1> HIDE DEF N
<1>4. N \in Nat /\ Len(b) = N * BlockSize /\ N > 0
  BY <1>2
<1>5. base \in Puts /\ base.start = 1 /\ base.chunks = chunks
  BY DEF Puts
<1>6. \A k \in 1..N, s \in Puts : Nice(b, k, s) => Put(b, N, k, s) \in Puts
  BY <1>4, PutStep
<1>7. step \in [Puts \X (1..N) -> Puts]
  <2>1. \A x \in Puts \X (1..N) : x[1] \in Puts /\ x[2] \in 1..N
    OBVIOUS
  <2>2. \A x \in Puts \X (1..N) : (IF Nice(b, x[2], x[1]) THEN Put(b, N, x[2], x[1]) ELSE x[1]) \in Puts
    BY <1>6, <2>1
  <2>3. QED BY <2>2
<1>8. \A k \in 1..N, s \in Puts : step[<<s, k>>] = IF Nice(b, k, s) THEN Put(b, N, k, s) ELSE s
  OBVIOUS
<1> HIDE DEF base, step
<1>9. PICK g \in [0..N -> Puts] : Solves(g, N, base, step)
  BY <1>4, <1>5, <1>7, Recursion
<1>10. 0 \in 0..N /\ \A k \in 1..N : k \in 0..N /\ k - 1 \in 0..N /\ k # 0
  BY <1>4
<1>11. \A k \in 1..N : Nice(b, k, g[k - 1])
  <2> DEFINE T == {k \in 0..N : k < N => Nice(b, k + 1, g[k])}
  <2>1. 0 \in T
    <3>1. g[0] = base
      BY <1>9, <1>10 DEF Solves
    <3>2. B!SameChunk(B!BlockOf(b, 1), B!BlockOf(b, 1))
      BY DEF B!SameChunk
    <3>3. Nice(b, 0 + 1, g[0])
      BY <1>5, <3>1, <3>2 DEF Nice
    <3>4. QED BY <1>10, <3>3
  <2>2. ASSUME NEW k \in 1..N, k - 1 \in T PROVE k \in T
    <3>1. k - 1 < N /\ (k - 1) + 1 = k
      BY <1>4
    <3>2. Nice(b, k, g[k - 1])
      BY <2>2, <3>1
    <3>3. g[k - 1] \in Puts
      BY <1>10
    <3>4. g[k] = step[<<g[k - 1], k>>]
      BY <1>9, <1>10 DEF Solves
    <3>5. g[k] = Put(b, N, k, g[k - 1])
      BY <1>8, <3>2, <3>3, <3>4
    <3>6. k < N => Nice(b, k + 1, Put(b, N, k, g[k - 1]))
      <4> DEFINE s == g[k - 1]
      <4>1. s \in Puts /\ Nice(b, k, s)
        BY <3>2, <3>3
      <4> HIDE DEF s
      <4>2. k < N => Nice(b, k + 1, Put(b, N, k, s))
        BY <1>4, <4>1, PutStep
      <4>3. QED BY <4>2 DEF s
    <3>7. QED BY <1>10, <3>5, <3>6
  <2> HIDE DEF T
  <2>3. \A k \in 0..N : k \in T
    BY <1>4, <2>1, <2>2, UpTo
  <2>4. ASSUME NEW k \in 1..N PROVE Nice(b, k, g[k - 1])
    <3>1. k - 1 \in T /\ k - 1 < N /\ (k - 1) + 1 = k
      BY <1>4, <1>10, <2>3
    <3>2. QED BY <3>1 DEF T
  <2>5. QED BY <2>4
<1>12. g = [k \in 0..N |-> IF k = 0 THEN base ELSE Put(b, N, k, g[k - 1])]
  <2>1. ASSUME NEW k \in 0..N, k # 0 PROVE g[k] = Put(b, N, k, g[k - 1])
    <3>1. k \in 1..N
      BY <1>4, <2>1
    <3>2. g[k - 1] \in Puts /\ Nice(b, k, g[k - 1])
      BY <1>10, <1>11, <3>1
    <3>3. g[k] = step[<<g[k - 1], k>>]
      BY <1>9, <2>1 DEF Solves
    <3>4. QED BY <1>8, <3>1, <3>2, <3>3
  <2>2. \A k \in 0..N : g[k] = IF k = 0 THEN base ELSE Put(b, N, k, g[k - 1])
    BY <1>9, <1>10, <2>1 DEF Solves
  <2>3. QED BY <2>2
<1>13. d = [k \in 0..N |-> IF k = 0 THEN base ELSE Put(b, N, k, d[k - 1])]
  BY <1>12, Zenon DEF base
<1> HIDE DEF d
<1>14. d[0] = base /\ \A k \in 1..N : d[k] = Put(b, N, k, d[k - 1])
  BY <1>10, <1>13, Zenon
<1> DEFINE SoFar(k) == /\ d[k] \in Puts /\ HasPut(b, chunks, d[k])
                       /\ k < N => Nice(b, k + 1, d[k])
                       /\ k = N => d[k].start = N + 1
<1>15. \A k \in 0..N : SoFar(k)
  <2> DEFINE T == {k \in 0..N : SoFar(k)}
  <2>1. 0 \in T
    <3>1. d[0] \in Puts /\ d[0].start = 1 /\ d[0].chunks = chunks
      BY <1>5, <1>14
    <3>2. HasPut(b, chunks, d[0])
      <4>1. StartOf(1) = 0
        BY <1>1 DEF StartOf
      <4>2. B!Bytes(b, 0, 0) = <<>>
        <5>1. 0 \in Int /\ 0 + 1 \in Int /\ 0 + 0 \in Int /\ 0 + 0 < 0 + 1
          OBVIOUS
        <5>2. SubSeq(b, 0 + 1, 0 + 0) = <<>>
          BY <5>1, SubSeqEmpty
        <5>3. QED BY <5>2 DEF B!Bytes
      <4>3. Whole(chunks) \in Seq(ImageBytes)
        <5>1. Len(chunks) \in 0..Len(chunks)
          BY OfSequences
        <5>2. QED BY <5>1, UnpackedMade DEF Whole
      <4>4. Whole(chunks) \o <<>> = Whole(chunks)
        BY <4>3, ConcatEmptySeq
      <4>5. QED BY <3>1, <4>1, <4>2, <4>4 DEF HasPut
    <3>3. Nice(b, 0 + 1, d[0])
      <4>1. B!SameChunk(B!BlockOf(b, 1), B!BlockOf(b, 1))
        BY DEF B!SameChunk
      <4>2. QED BY <3>1, <4>1 DEF Nice
    <3>4. QED BY <1>4, <1>10, <3>1, <3>2, <3>3
  <2>2. ASSUME NEW k \in 1..N, k - 1 \in T PROVE k \in T
    <3> DEFINE s == d[k - 1]
    <3>1. s \in Puts /\ HasPut(b, chunks, s) /\ Nice(b, k, s)
      <4>1. k - 1 < N /\ (k - 1) + 1 = k
        BY <1>4
      <4>2. QED BY <2>2, <4>1
    <3>2. d[k] = Put(b, N, k, s)
      BY <1>14
    <3> HIDE DEF s
    <3>3. /\ Put(b, N, k, s) \in Puts
          /\ k < N => Nice(b, k + 1, Put(b, N, k, s))
          /\ k = N => Put(b, N, k, s).start = N + 1
          /\ HasPut(b, chunks, Put(b, N, k, s))
      BY <1>4, <3>1, PutStep
    <3>4. QED BY <1>10, <3>2, <3>3
  <2> HIDE DEF T, SoFar
  <2>3. \A k \in 0..N : k \in T
    BY <1>4, <2>1, <2>2, UpTo
  <2>4. QED BY <2>3 DEF T
<1>16. SoFar(N)
  <2> HIDE DEF SoFar
  <2>1. QED BY <1>4, <1>15
<1>17. d[N].chunks \in Seq(Made) /\ Whole(d[N].chunks) = Whole(chunks) \o B!Bytes(b, 0, StartOf(N + 1))
  BY <1>16 DEF Puts, HasPut
<1>18. B!Bytes(b, 0, StartOf(N + 1)) = b
  <2>1. StartOf(N + 1) = Len(b)
    <3>1. (N + 1) - 1 = N
      BY <1>4
    <3>2. QED BY <1>4, <3>1 DEF StartOf
  <2>2. SubSeq(b, 1, Len(b)) = b
    BY SubSeqFull
  <2>3. B!Bytes(b, 0, Len(b)) = SubSeq(b, 0 + 1, 0 + Len(b))
    BY DEF B!Bytes
  <2>4. 0 + Len(b) = Len(b) /\ 0 + 1 = 1
    BY OfSequences
  <2>5. QED BY <2>1, <2>2, <2>3, <2>4
<1>19. QED BY <1>3, <1>17, <1>18

-----------------------------------------------------------------------------
(* Reading.                                                                 *)

LEMMA BlocksOfIs ==
  ASSUME NEW chunks \in Seq(Made)
  PROVE  B!BlocksOf(chunks) \in Nat
<1> DEFINE N == Len(chunks)
           blks(k) == chunks[k].blks
           base == 0
           step == [x \in Nat \X (1..N) |-> x[1] + blks(x[2])]
           d == CHOOSE h : h = [k \in 0..N |-> IF k = 0 THEN 0 ELSE h[k - 1] + chunks[k].blks]
<1>1. N \in Nat /\ base \in Nat
  BY OfSequences
<1>2. \A k \in 1..N : blks(k) \in Nat
  <2>1. ASSUME NEW k \in 1..N PROVE blks(k) \in Nat
    <3>1. chunks[k] \in Made
      BY OfSequences
    <3>2. QED BY <3>1 DEF Made, B!Chunks
  <2>2. QED BY <2>1
<1>3. B!BlocksOf(chunks) = d[N]
  BY Zenon DEF B!BlocksOf
<1> HIDE DEF blks
<1>4. step \in [Nat \X (1..N) -> Nat]
  <2>1. \A x \in Nat \X (1..N) : x[1] \in Nat /\ x[2] \in 1..N
    OBVIOUS
  <2>2. \A x \in Nat \X (1..N) : x[1] + blks(x[2]) \in Nat
    BY <1>2, <2>1
  <2>3. QED BY <2>2
<1>5. \A k \in 1..N, s \in Nat : step[<<s, k>>] = s + blks(k)
  OBVIOUS
<1> HIDE DEF N, base, step
<1>6. PICK g \in [0..N -> Nat] : Solves(g, N, base, step)
  BY <1>1, <1>4, Recursion
<1>7. g = [k \in 0..N |-> IF k = 0 THEN 0 ELSE g[k - 1] + blks(k)]
  <2>1. \A k \in 0..N : k # 0 => k - 1 \in 0..N /\ k \in 1..N
    BY <1>1
  <2>2. \A k \in 0..N : k # 0 => step[<<g[k - 1], k>>] = g[k - 1] + blks(k)
    BY <1>5, <1>6, <2>1
  <2>3. QED BY <1>6, <2>2 DEF Solves, base
<1>8. d = [k \in 0..N |-> IF k = 0 THEN 0 ELSE d[k - 1] + blks(k)]
  BY <1>7, Zenon DEF blks
<1> HIDE DEF d
<1>9. d[0] = 0 /\ \A k \in 1..N : d[k] = d[k - 1] + blks(k)
  <2>1. 0 \in 0..N /\ \A k \in 1..N : k \in 0..N /\ k # 0
    BY <1>1
  <2>2. QED BY <1>8, <2>1, Zenon
<1>10. \A k \in 0..N : d[k] \in Nat
  <2> DEFINE T == {k \in 0..N : d[k] \in Nat}
  <2>1. 0 \in T
    BY <1>1, <1>9
  <2>2. ASSUME NEW k \in 1..N, k - 1 \in T PROVE k \in T
    <3>1. d[k - 1] \in Nat /\ blks(k) \in Nat /\ k \in 0..N
      BY <1>1, <1>2, <2>2
    <3>2. d[k] \in Nat
      BY <1>9, <3>1
    <3>3. QED BY <3>1, <3>2
  <2> HIDE DEF T
  <2>3. \A k \in 0..N : k \in T
    BY <1>1, <2>1, <2>2, UpTo
  <2>4. QED BY <2>3 DEF T
<1>11. QED BY <1>1, <1>3, <1>10

\* The files that are written while a device is read.
Sparse(blks, count, chunks) ==
  [kind |-> "sparse", unit |-> BlockSize, blks |-> blks, count |-> count, chunks |-> chunks]
Raw(bytes) == [kind |-> "raw", data |-> bytes]

LEMMA FilesAre ==
  ASSUME NEW x, NEW y, NEW old, NEW new
  PROVE  /\ Sparse(x, y, new).kind = "sparse" /\ Sparse(x, y, new).unit = BlockSize
         /\ Sparse(x, y, new).blks = x /\ Sparse(x, y, new).count = y /\ Sparse(x, y, new).chunks = new
         /\ [Sparse(x, y, old) EXCEPT !.chunks = new] = Sparse(x, y, new)
         /\ Raw(new).kind = "raw" /\ Raw(new).data = new
         /\ [Raw(old) EXCEPT !.data = new] = Raw(new)
  BY DEF Sparse, Raw

LEMMA CountsAre ==
  ASSUME NEW x, NEW y, NEW chunks
  PROVE  [Sparse(0, 0, chunks) EXCEPT !.blks = x, !.count = y] = Sparse(x, y, chunks)
<1> DEFINE f == Sparse(0, 0, chunks)
           g == [f EXCEPT !.blks = x]
<1>1. g = Sparse(x, 0, chunks)
  BY DEF Sparse
<1>2. [g EXCEPT !.count = y] = Sparse(x, y, chunks)
  <2> HIDE DEF g
  <2>1. QED BY <1>1 DEF Sparse
<1>3. [f EXCEPT !.blks = x, !.count = y] = [g EXCEPT !.count = y]
  OBVIOUS
<1>4. QED BY <1>2, <1>3

LEMMA MadeFit ==
  ASSUME NEW chunks \in Seq(Made)
  PROVE  chunks \in Seq(B!Chunks) /\ \A k \in DOMAIN chunks : Len(chunks[k].body) <= chunks[k].says
<1>1. chunks \in Seq(B!Chunks)
  <2>1. Made \subseteq B!Chunks
    BY DEF Made
  <2>2. QED BY <2>1, SeqMonotonic
<1>2. ASSUME NEW k \in DOMAIN chunks PROVE Len(chunks[k].body) <= chunks[k].says
  <2>1. chunks[k] \in Made
    BY OfSequences
  <2>2. chunks[k].says \in Nat /\ Len(chunks[k].body) = chunks[k].says
    BY <2>1 DEF Made, B!Chunks
  <2>3. QED BY <2>2
<1>3. QED BY <1>1, <1>2

\* As far as the device was read, the file says what it holds.
Reads ==
  /\ job.cmd = "read" /\ dev = job.dev
  /\ B!Length \in Nat /\ job.off + B!Length <= Len(dev)
  /\ B!Done \in Nat /\ B!Done <= B!Length
  /\ IF job.sparse
     THEN /\ file = Sparse(0, 0, file.chunks) /\ file.chunks \in Seq(Made)
          /\ job.bs % BlockSize = 0 /\ B!Length % BlockSize = 0 /\ B!Done % BlockSize = 0
          /\ Whole(file.chunks) = B!Bytes(dev, job.off, B!Done)
     ELSE file = Raw(B!Bytes(dev, job.off, B!Done))

BlkRead == pc = "read" => Reads

\* The part of the device that is read is there.
LEMMA RegionIs ==
  ASSUME B!BlkwakAssumption, BlkTypes, ~B!BadRegion
  PROVE  /\ B!Length \in Nat /\ job.off + B!Length <= Len(dev)
         /\ job.sparse => job.bs % BlockSize = 0 /\ B!Length % BlockSize = 0
<1> DEFINE n == Len(dev)
           len == B!Length
<1>1. job.off \in Nat /\ job.len \in Nat /\ n \in Nat
  BY BlkConstants, OfSequences DEF BlkTypes
<1>2. ~(job.off > n) /\ job.off + len <= n /\ (job.sparse => \A m \in {job.off, len, job.bs} : m % BlockSize = 0)
  BY DEF B!BadRegion, B!Fits
<1>3. len = IF job.len = 0 THEN n - job.off ELSE job.len
  BY DEF B!Length
<1> HIDE DEF n, len
<1>4. len \in Nat
  BY <1>1, <1>2, <1>3
<1>5. QED BY <1>2, <1>4 DEF n, len

LEMMA EmptyPart ==
  ASSUME NEW s, NEW a \in Nat
  PROVE  B!Bytes(s, a, 0) = <<>>
<1>1. a + 1 \in Int /\ a + 0 \in Int /\ a + 0 < a + 1
  OBVIOUS
<1>2. SubSeq(s, a + 1, a + 0) = <<>>
  BY <1>1, SubSeqEmpty
<1>3. QED BY <1>2 DEF B!Bytes

LEMMA WholeEmpty ==
  ASSUME B!BlkwakAssumption
  PROVE  <<>> \in Seq(Made) /\ Whole(<<>>) = <<>>
<1> DEFINE e == <<>>
<1>1. e \in Seq(Made) /\ Len(e) = 0
  BY EmptySeq
<1> HIDE DEF e
<1>2. B!Unpacked(e, BlockSize)[0] = <<>>
  BY <1>1, UnpackedMade
<1>3. Whole(e) = <<>>
  BY <1>1, <1>2 DEF Whole
<1>4. QED BY <1>1, <1>3 DEF e

\* Reading begins.
LEMMA ReadBegins ==
  ASSUME B!BlkwakAssumption, BlkTypes, dev = job.dev, walk = B!Walk("none"), B!BeginRead
  PROVE  BlkTypes' /\ BlkRead' /\ pc' = "read" /\ exit' = "pending"
<1>1. /\ pc = "start" /\ exit = "pending" /\ job.cmd = "read" /\ ~B!BadRegion
      /\ pc' = "read" /\ job' = job /\ dev' = dev /\ walk' = walk /\ exit' = exit
      /\ job \in ImageJobs /\ dev \in Seq(ImageBytes) /\ walk \in Walks
  BY DEF B!BeginRead, B!Refused, BlkTypes
<1>2. /\ B!Length \in Nat /\ job.off + B!Length <= Len(dev)
      /\ job.sparse => job.bs % BlockSize = 0 /\ B!Length % BlockSize = 0
  BY <1>1, RegionIs
<1>3. B!Length' = B!Length
  BY <1>1 DEF B!Length
<1>4. BlockSize \in Nat \ {0} /\ job.off \in Nat /\ walk.pos = 0
  BY <1>1, BlkConstants DEF B!Walk
<1>5. B!Bytes(dev, job.off, 0) = <<>>
  BY <1>4, EmptyPart
<1>6. B!IsImage(file') /\ Reads'
  <2>1. CASE job.sparse
    <3>1. file' = [kind |-> "sparse", unit |-> BlockSize, blks |-> 0, count |-> 0, chunks |-> <<>>]
      BY <2>1 DEF B!BeginRead
    <3> DEFINE e == <<>>
    <3>2. file'.kind = "sparse" /\ file'.unit = BlockSize /\ file'.blks = 0 /\ file'.count = 0 /\ file'.chunks = e
      BY <3>1
    <3>3. e \in Seq(Made) /\ Whole(e) = <<>> /\ e \in Seq(B!Chunks) /\ DOMAIN e = {}
      BY WholeEmpty, EmptySeq
    <3> HIDE DEF e
    <3>4. B!IsImage(file')
      BY <1>4, <3>2, <3>3 DEF B!IsImage
    <3>5. B!Done' = 0
      BY <1>1, <1>4, <3>2 DEF B!Done
    <3>6. Whole(file.chunks)' = <<>>
      <4>1. Whole(file.chunks)' = Whole(e)
        BY <3>2 DEF Whole, B!Unpacked, B!Covers, B!Repeat, B!Hole
      <4>2. QED BY <3>3, <4>1
    <3>7. B!Bytes(dev, job.off, B!Done)' = <<>>
      BY <1>1, <1>5, <3>5 DEF B!Bytes
    <3>8. 0 % BlockSize = 0 /\ 0 \in Nat
      BY <1>4
    <3>9. file'.chunks \in Seq(Made)' /\ file' = Sparse(0, 0, file'.chunks)
      BY <3>1, <3>2, <3>3 DEF Made, B!Chunks, Sparse, e
    <3>10. QED BY <1>1, <1>2, <1>3, <2>1, <3>2, <3>4, <3>5, <3>6, <3>7, <3>8, <3>9 DEF Reads
  <2>2. CASE ~job.sparse
    <3> DEFINE e == <<>>
    <3>1. file' = [kind |-> "raw", data |-> e]
      BY <2>2 DEF B!BeginRead
    <3>2. e \in Seq(ImageBytes) /\ Len(e) = 0
      BY EmptySeq
    <3>3. B!Bytes(dev, job.off, 0) = e
      BY <1>5
    <3> HIDE DEF e
    <3>4. file'.kind = "raw" /\ file'.data = e
      BY <3>1
    <3>5. B!IsImage(file')
      BY <3>2, <3>4 DEF B!IsImage
    <3>6. B!Done' = 0
      BY <3>2, <3>4 DEF B!Done
    <3>7. B!Bytes(dev, job.off, B!Done)' = e
      BY <1>1, <3>3, <3>6 DEF B!Bytes
    <3>8. 0 \in Nat
      OBVIOUS
    <3>9. file' = Raw(e)
      BY <3>1 DEF Raw
    <3>10. QED BY <1>1, <1>2, <1>3, <2>2, <3>5, <3>6, <3>7, <3>8, <3>9 DEF Reads, Raw
  <2>3. QED BY <2>1, <2>2
<1>7. BlkTypes'
  <2>1. dev' \in Seq(ImageBytes) /\ Len(dev') = Len(dev) /\ walk' \in Walks
    BY <1>1
  <2>2. pc' \in {"start", "open", "walk", "finish", "read", "done"}
        /\ exit' \in {"pending", "ok", "differs", "rejected", "ioerr", "usage"} /\ (exit' # "pending" <=> pc' = "done")
    BY <1>1
  <2>3. QED BY <1>1, <1>6, <2>1, <2>2, TypesKept
<1>8. QED BY <1>1, <1>6, <1>7 DEF BlkRead

\* Whole numbers of blocks.
LEMMA BlocksAdd ==
  ASSUME NEW m \in Nat \ {0}, NEW x \in Nat, NEW y \in Nat, x % m = 0, y % m = 0
  PROVE  (x + y) % m = 0 /\ (y <= x => (x - y) % m = 0)
<1>1. (x + y) % m = 0
  BY WholeWords
<1>2. ASSUME y <= x PROVE (x - y) % m = 0
  <2> DEFINE z == x - y
  <2>1. z \in Nat /\ y + z = x
    BY <1>2
  <2> HIDE DEF z
  <2>2. (y + z) % m = z % m
    BY <2>1, WholeWords
  <2>3. z % m = 0
    BY <2>1, <2>2
  <2>4. QED BY <2>3 DEF z
<1>3. QED BY <1>1, <1>2

\* What the next buffer holds.
LEMMA BufferIs ==
  ASSUME B!BlkwakAssumption, BlkTypes, Reads, B!Done < B!Length
  PROVE  LET n == Len(B!Buffer)
         IN  /\ n \in Nat \ {0} /\ B!Done + n <= B!Length /\ B!Buffer \in Seq(ImageBytes)
             /\ B!Bytes(dev, job.off, B!Done) \o B!Buffer = B!Bytes(dev, job.off, B!Done + n)
             /\ job.sparse => n % BlockSize = 0
<1> DEFINE m == B!Done
           len == B!Length
           n == B!Least(job.bs, len - m)
           o == job.off
           N == Len(dev)
<1>1. /\ o \in Nat /\ job.bs \in Nat \ {0} /\ BlockSize \in Nat \ {0} /\ N \in Nat
      /\ m \in Nat /\ len \in Nat /\ m < len /\ o + len <= N
  BY BlkConstants, OfSequences DEF BlkTypes, Reads
<1>2. B!Buffer = B!Bytes(dev, o + m, n) /\ dev \in Seq(ImageBytes)
  BY DEF B!Buffer, BlkTypes
<1>3. job.sparse => job.bs % BlockSize = 0 /\ len % BlockSize = 0 /\ m % BlockSize = 0
  BY DEF Reads
<1> HIDE DEF m, len, o, N
<1>4. n \in Nat \ {0} /\ m + n <= len /\ o + m + n <= N /\ n \in {job.bs, len - m}
  BY <1>1 DEF B!Least
<1>5. job.sparse => n % BlockSize = 0
  <2>1. SUFFICES ASSUME job.sparse PROVE n % BlockSize = 0
    OBVIOUS
  <2>2. (len - m) % BlockSize = 0
    <3>1. m <= len
      BY <1>1
    <3>2. QED BY <1>1, <1>3, <2>1, <3>1, BlocksAdd
  <2> HIDE DEF n
  <2>3. QED BY <1>3, <1>4, <2>1, <2>2
<1> HIDE DEF n
<1>6. Joins(ImageBytes, dev, o, m, n)
  <2>1. o + m + n <= Len(dev)
    BY <1>4 DEF N
  <2>2. o \in Nat /\ m \in Nat /\ n \in Nat
    BY <1>1, <1>4
  <2>3. QED BY <1>2, <2>1, <2>2, BytesJoin
<1>7. B!Bytes(dev, o + m, n) \in Seq(ImageBytes) /\ Len(B!Bytes(dev, o + m, n)) = n
  <2> DEFINE a == o + m
  <2>1. a \in Nat /\ n \in Nat /\ a + n <= Len(dev)
    BY <1>1, <1>4 DEF N
  <2> HIDE DEF a
  <2>2. SubSeq(dev, a + 1, a + n) \in Seq(ImageBytes) /\ Len(SubSeq(dev, a + 1, a + n)) = n
    BY <1>2, <2>1, PartIs
  <2>3. B!Bytes(dev, a, n) \in Seq(ImageBytes) /\ Len(B!Bytes(dev, a, n)) = n
    BY <2>2 DEF B!Bytes
  <2>4. QED BY <2>3 DEF a
<1>8. B!Bytes(dev, o, m) \o B!Bytes(dev, o + m, n) = B!Bytes(dev, o, m + n)
  BY <1>6 DEF Joins
<1>9. B!Buffer \in Seq(ImageBytes) /\ Len(B!Buffer) = n /\ B!Bytes(dev, o, m) \o B!Buffer = B!Bytes(dev, o, m + n)
  BY <1>2, <1>7, <1>8
<1>10. QED BY <1>4, <1>5, <1>9 DEF m, len, o

\* A buffer is read.
LEMMA ReadGoesOn ==
  ASSUME B!BlkwakAssumption, BlkTypes, BlkRead, B!ReadBuffer
  PROVE  BlkTypes' /\ BlkRead' /\ pc' = "read" /\ exit' = "pending"
<1>1. /\ pc = "read" /\ exit = "pending" /\ Reads /\ B!Done < B!Length
      /\ pc' = "read" /\ job' = job /\ dev' = dev /\ exit' = exit
      /\ job \in ImageJobs /\ dev \in Seq(ImageBytes) /\ walk \in Walks /\ B!IsImage(file)
  BY DEF B!ReadBuffer, BlkTypes, BlkRead
<1> DEFINE b == B!Buffer
           n == Len(b)
           m == B!Done
           len == B!Length
<1>2. /\ n \in Nat \ {0} /\ m + n <= len /\ b \in Seq(ImageBytes)
      /\ B!Bytes(dev, job.off, m) \o b = B!Bytes(dev, job.off, m + n)
      /\ job.sparse => n % BlockSize = 0
  BY <1>1, BufferIs
<1>3. len' = len /\ m \in Nat /\ len \in Nat /\ job.off + len <= Len(dev)
  BY <1>1 DEF B!Length, Reads
<1>4. ASSUME B!IsImage(file'), walk' \in Walks, m' = m + n,
             IF job.sparse
             THEN /\ file' = Sparse(0, 0, file'.chunks) /\ file'.chunks \in Seq(Made)
                  /\ (m + n) % BlockSize = 0
                  /\ Whole(file.chunks)' = B!Bytes(dev, job.off, m + n)
             ELSE file' = Raw(B!Bytes(dev, job.off, m + n))
      PROVE  BlkTypes' /\ BlkRead' /\ pc' = "read" /\ exit' = "pending"
  <2>1. BlkTypes'
    <3>1. dev' \in Seq(ImageBytes) /\ Len(dev') = Len(dev)
      BY <1>1
    <3>2. pc' \in {"start", "open", "walk", "finish", "read", "done"}
          /\ exit' \in {"pending", "ok", "differs", "rejected", "ioerr", "usage"} /\ (exit' # "pending" <=> pc' = "done")
      BY <1>1
    <3>3. QED BY <1>1, <1>4, <3>1, <3>2, TypesKept
  <2>2. B!Bytes(dev, job.off, m)' = B!Bytes(dev, job.off, m + n)
    BY <1>1, <1>4 DEF B!Bytes
  <2>3. m' \in Nat /\ m' <= len'
    <3> HIDE DEF m, n, len
    <3>1. QED BY <1>2, <1>3, <1>4
  <2>4. Seq(Made)' = Seq(Made)
    BY DEF Made, B!Chunks
  <2>5. job.sparse => job.bs % BlockSize = 0 /\ len % BlockSize = 0
    BY <1>1 DEF Reads
  <2>6. job.cmd = "read" /\ dev = job.dev
    BY <1>1 DEF Reads
  <2>7. (m + n) % BlockSize = 0 => (m % BlockSize = 0)'
    BY <1>4
  <2> HIDE DEF m, n, b, len
  <2>8. Reads'
    BY <1>1, <1>3, <1>4, <2>2, <2>3, <2>4, <2>5, <2>6, <2>7 DEF Reads, Sparse, Raw, m, len
  <2>9. QED BY <1>1, <2>1, <2>8 DEF BlkRead
<1>5. CASE job.sparse
  <2>1. file' = [file EXCEPT !.chunks = B!PutBuffer(@, b)] /\ walk' = [walk EXCEPT !.pos = @ + n]
    BY <1>5 DEF B!ReadBuffer
  <2>2. /\ file = Sparse(0, 0, file.chunks) /\ file.chunks \in Seq(Made) /\ m % BlockSize = 0
        /\ Whole(file.chunks) = B!Bytes(dev, job.off, m)
    BY <1>1, <1>5 DEF Reads
  <2>3. m = walk.pos
    <3>1. file.kind = "sparse"
      BY <2>2, FilesAre
    <3>2. QED BY <3>1 DEF B!Done
  <2>4. BlockSize \in Nat \ {0}
    BY BlockOfWords
  <2>5. (m + n) % BlockSize = 0
    <3> HIDE DEF m, n
    <3>1. QED BY <1>2, <1>3, <1>5, <2>2, <2>4, BlocksAdd
  <2> DEFINE q == n \div BlockSize
             old == file.chunks
             new == B!PutBuffer(old, b)
  <2>6. q \in Nat \ {0} /\ n = q * BlockSize
    <3> HIDE DEF n
    <3>1. n \in Nat /\ n % BlockSize = 0 /\ n # 0
      BY <1>2, <1>5
    <3>2. q \in Nat /\ n = BlockSize * q + (n % BlockSize)
      BY <2>4, <3>1, DivisionParts
    <3> HIDE DEF q
    <3>3. n = BlockSize * q
      BY <2>4, <3>1, <3>2
    <3>4. q # 0
      BY <2>4, <3>1, <3>3
    <3>5. QED BY <2>4, <3>2, <3>3, <3>4
  <2>7. new \in Seq(Made) /\ Whole(new) = Whole(old) \o b
    <3> HIDE DEF q, b, old
    <3>1. old \in Seq(Made)
      BY <2>2 DEF old
    <3>2. QED BY <1>2, <2>6, <3>1, PutBufferIs DEF n
  <2> HIDE DEF new, b, n, m
  <2>8. /\ file' = Sparse(0, 0, new)
        /\ file'.kind = "sparse" /\ file'.unit = BlockSize /\ file'.blks = 0 /\ file'.count = 0
        /\ file'.chunks = new
    <3>1. file' = [file EXCEPT !.chunks = new]
      BY <2>1 DEF new, old
    <3>2. file' = Sparse(0, 0, new)
      BY <2>2, <3>1, FilesAre DEF old
    <3>3. QED BY <3>2, FilesAre
  <2>9. B!IsImage(file')
    <3>1. 0 \in Nat
      OBVIOUS
    <3>2. new \in Seq(B!Chunks) /\ \A k \in DOMAIN new : Len(new[k].body) <= new[k].says
      BY <2>7, MadeFit
    <3>3. QED BY <2>4, <2>8, <3>1, <3>2 DEF B!IsImage
  <2>10. walk' \in Walks /\ walk'.pos = m + n
    <3>1. m + n \in Nat
      BY <1>2, <1>3
    <3>2. walk' = [walk EXCEPT !.pos = m + n]
      BY <2>1, <2>3
    <3> DEFINE x == m + n
    <3> HIDE DEF x
    <3>3. x \in Nat /\ walk' = [walk EXCEPT !.pos = x]
      BY <3>1, <3>2 DEF x
    <3>4. walk' \in Walks /\ walk'.pos = x
      BY <1>1, <3>3 DEF Walks
    <3>5. QED BY <3>4 DEF x
  <2>11. m' = m + n
    BY <2>8, <2>10 DEF B!Done, m
  <2>12. Whole(file.chunks)' = B!Bytes(dev, job.off, m + n)
    <3>1. Whole(file.chunks)' = Whole(file'.chunks)
      BY DEF Whole, B!Unpacked, B!Covers, B!Repeat, B!Hole
    <3>2. Whole(file.chunks)' = Whole(new)
      BY <2>8, <3>1
    <3>3. QED BY <1>2, <2>2, <2>7, <3>2 DEF old
  <2>13. QED BY <1>4, <1>5, <2>5, <2>7, <2>8, <2>9, <2>10, <2>11, <2>12
<1>6. CASE ~job.sparse
  <2>1. file' = [file EXCEPT !.data = @ \o b] /\ walk' = walk
    BY <1>6 DEF B!ReadBuffer
  <2>2. file = Raw(file.data) /\ file.kind = "raw" /\ file.data = B!Bytes(dev, job.off, m)
    <3>1. file = Raw(B!Bytes(dev, job.off, m))
      BY <1>1, <1>6 DEF Reads
    <3> DEFINE x == B!Bytes(dev, job.off, m)
    <3>2. file = Raw(x)
      BY <3>1
    <3> HIDE DEF x
    <3>3. file = Raw(file.data) /\ file.kind = "raw" /\ file.data = x
      BY <3>2, FilesAre
    <3>4. QED BY <3>3 DEF x
  <2>3. m = Len(file.data) /\ file.data \in Seq(ImageBytes)
    BY <1>1, <2>2 DEF B!Done, B!IsImage
  <2> DEFINE old == file.data
             new == old \o b
  <2>4. new \in Seq(ImageBytes) /\ Len(new) = m + n
    <3>1. old \in Seq(ImageBytes) /\ b \in Seq(ImageBytes)
      BY <1>2, <2>3
    <3>2. QED BY <2>3, <3>1, ConcatProperties
  <2> HIDE DEF new, b, n, m
  <2>5. file' = Raw(new) /\ file'.kind = "raw" /\ file'.data = new
    <3>1. file' = [file EXCEPT !.data = new]
      BY <2>1 DEF new, old
    <3>2. file = Raw(old)
      BY <2>2
    <3> HIDE DEF old
    <3>3. file' = Raw(new)
      BY <3>1, <3>2, FilesAre
    <3>4. QED BY <3>3, FilesAre
  <2>6. B!IsImage(file')
    BY <2>4, <2>5 DEF B!IsImage
  <2>7. m' = m + n
    BY <2>4, <2>5 DEF B!Done, m
  <2>8. new = B!Bytes(dev, job.off, m + n)
    BY <1>2, <2>2 DEF new
  <2>9. QED BY <1>1, <1>4, <1>6, <2>1, <2>5, <2>6, <2>7, <2>8
<1>7. QED BY <1>5, <1>6

\* All of it was read: what was made says it.
LEMMA ReadConcludes ==
  ASSUME B!BlkwakAssumption, BlkTypes, BlkRead, B!ReadEnds
  PROVE  /\ BlkTypes' /\ BlkWalk' /\ pc' \in {"open", "done"}
         /\ exit' \in {"ok", "differs"} => B!ImageAndDevice'
<1>1. /\ pc = "read" /\ exit = "pending" /\ Reads /\ B!Done >= B!Length
      /\ job \in ImageJobs /\ dev \in Seq(ImageBytes) /\ walk \in Walks /\ B!IsImage(file)
  BY DEF B!ReadEnds, BlkTypes, BlkRead
<1>2. job.cmd = "read" /\ dev = job.dev /\ B!Done = B!Length
  <2> DEFINE m == B!Done
             len == B!Length
  <2>1. job.cmd = "read" /\ dev = job.dev /\ m \in Nat /\ len \in Nat /\ m <= len /\ m >= len
    BY <1>1 DEF Reads
  <2> HIDE DEF m, len
  <2>2. m = len
    BY <2>1
  <2>3. QED BY <2>1, <2>2 DEF m, len
<1>3. Untouched
  BY <1>2 DEF Untouched
<1> DEFINE region == B!Bytes(dev, job.off, B!Length)
<1>4. CASE ~job.sparse
  <2>1. B!Ends("ok")
    BY <1>4 DEF B!ReadEnds
  <2>2. file = Raw(region)
    BY <1>1, <1>2, <1>4 DEF Reads
  <2>3. B!Decoded = region
    <3> HIDE DEF region
    <3>1. file.kind = "raw" /\ file.data = region
      BY <2>2, FilesAre
    <3>2. QED BY <3>1 DEF B!Decoded
  <2>4. Right("ok")
    BY <1>2, <1>3, <2>3 DEF Right, IsRegion
  <2>5. BlkTypes' /\ pc' = "done" /\ exit' = "ok" /\ job' = job /\ dev' = dev /\ file' = file /\ walk' = walk
    <3>1. "ok" \in {"ok", "differs", "rejected", "ioerr", "usage"}
      OBVIOUS
    <3>2. QED BY <2>1, <3>1, EndsTyped
  <2>6. B!ImageAndDevice'
    BY <2>4, <2>5, EndsRight
  <2>7. QED BY <2>5, <2>6 DEF BlkWalk
<1>5. CASE job.sparse
  <2> DEFINE chunks == file.chunks
             blks == B!BlocksOf(chunks)
             n == Len(chunks)
  <2>1. /\ file' = [file EXCEPT !.blks = blks, !.count = n] /\ walk' = B!Walk("compare")
        /\ pc' = (IF job.verify THEN "open" ELSE "done") /\ exit' = (IF job.verify THEN exit ELSE "ok")
        /\ job' = job /\ dev' = dev
    BY <1>5 DEF B!ReadEnds
  <2>2. file = Sparse(0, 0, chunks) /\ chunks \in Seq(Made) /\ Whole(chunks) = region
    BY <1>1, <1>2, <1>5 DEF Reads
  <2>3. blks \in Nat /\ n \in Nat
    BY <2>2, BlocksOfIs, OfSequences
  <2>4. chunks \in Seq(B!Chunks) /\ \A k \in DOMAIN chunks : Len(chunks[k].body) <= chunks[k].says
    BY <2>2, MadeFit
  <2>5. BlockSize \in Nat
    BY BlockOfWords
  <2>6. \A k \in 0..n : B!Unpacked(chunks, BlockSize)[k] \in Seq(ImageBytes)
    BY <2>2, UnpackedMade
  <2>7. B!Unpacked(chunks, BlockSize)[0] = <<>>
    BY <2>2, UnpackedMade
  <2> HIDE DEF blks
  <2>8. /\ file'.kind = "sparse" /\ file'.unit = BlockSize /\ file'.blks = blks /\ file'.count = n
        /\ file'.chunks = chunks
    <3> HIDE DEF n
    <3>1. file' = [Sparse(0, 0, chunks) EXCEPT !.blks = blks, !.count = n]
      BY <2>1, <2>2
    <3> HIDE DEF chunks
    <3>2. file' = Sparse(blks, n, chunks)
      BY <3>1, CountsAre
    <3>3. QED BY <3>2, FilesAre
  <2> HIDE DEF chunks, n
  <2>9. B!IsImage(file')
    BY <2>3, <2>4, <2>5, <2>8 DEF B!IsImage
  <2>10. B!Unpacked(file.chunks, file.unit)' = B!Unpacked(chunks, BlockSize)
    <3>1. B!Unpacked(file.chunks, file.unit)' = B!Unpacked(file'.chunks, file'.unit)
      BY DEF B!Unpacked, B!Covers, B!Repeat, B!Hole
    <3>2. QED BY <2>8, <3>1
  <2>11. B!Decoded' = region
    <3>1. B!Decoded' = B!Unpacked(file.chunks, file.unit)'[file'.count]
      BY <2>8 DEF B!Decoded
    <3>2. B!Decoded' = Whole(chunks)
      BY <2>8, <2>10, <3>1 DEF Whole, n
    <3>3. QED BY <2>2, <3>2
  <2>12. IsRegion'
    <3>1. region' = region
      BY <2>1 DEF B!Bytes, B!Length
    <3> HIDE DEF region
    <3>2. B!Decoded' = region'
      BY <2>11, <3>1
    <3>3. QED BY <3>2 DEF IsRegion, region
  <2>13. Untouched'
    BY <1>2, <2>1 DEF Untouched
  <2>14. job.off \in Nat /\ job'.cmd = "read"
    BY <1>1, <1>2, <2>1, BlkConstants
  <2>15. /\ walk' \in Walks /\ walk'.op = "compare" /\ walk'.at = job.off /\ walk'.i = 0
         /\ walk'.left = 0 /\ walk'.bad = 0
    <3>1. <<>> \in Seq(ImageBytes)
      BY EmptySeq
    <3>2. QED BY <2>1, <2>14, <3>1 DEF B!Walk, Walks
  <2>16. Through(walk)' = 0
    <3>1. walk'.at - job'.off = 0
      BY <2>1, <2>14, <2>15
    <3>2. QED BY <3>1 DEF Through
  <2>17. Place(walk)'
    <3>1. Upto(walk.i)' = <<>>
      BY <2>7, <2>10, <2>15 DEF Upto
    <3>2. walk'.at = job'.off + Len(Upto(walk.i)')
      <4>1. Len(Upto(walk.i)') = 0
        BY <3>1
      <4>2. QED BY <2>1, <2>14, <2>15, <4>1
    <3>3. walk'.i <= Len(file'.chunks) /\ walk'.i <= file'.count /\ ~(walk'.left > 0) /\ file'.kind # "raw"
      BY <2>3, <2>8, <2>15 DEF n
    <3>4. QED BY <3>2, <3>3 DEF Place
  <2>18. CompareWalk'
    <3>1. Agrees(walk, dev)'
      BY <2>16 DEF Agrees
    <3>2. QED BY <2>12, <2>13, <2>15, <3>1 DEF CompareWalk
  <2>19. BlkTypes'
    <3>1. dev' \in Seq(ImageBytes) /\ Len(dev') = Len(dev)
      BY <1>1, <2>1
    <3>2. pc' \in {"start", "open", "walk", "finish", "read", "done"}
          /\ exit' \in {"pending", "ok", "differs", "rejected", "ioerr", "usage"} /\ (exit' # "pending" <=> pc' = "done")
      BY <1>1, <2>1
    <3>3. QED BY <2>1, <2>9, <2>15, <3>1, <3>2, TypesKept
  <2>20. BlkWalk' /\ pc' \in {"open", "done"}
    BY <2>1, <2>17, <2>18 DEF BlkWalk
  <2>21. exit' \in {"ok", "differs"} => B!ImageAndDevice'
    <3>1. exit' # "differs"
      BY <1>1, <2>1
    <3>2. B!ImageOnDevice'
      BY <2>14, <3>1 DEF B!ImageOnDevice
    <3>3. B!RestUntouched'
      BY <2>13 DEF B!RestUntouched, Untouched
    <3>4. B!ImageOfDevice'
      BY <2>12 DEF B!ImageOfDevice, IsRegion
    <3>5. QED BY <3>2, <3>3, <3>4 DEF B!ImageAndDevice
  <2>22. QED BY <2>19, <2>20, <2>21
<1>6. QED BY <1>4, <1>5

-----------------------------------------------------------------------------
(* All of it.                                                               *)

BlkStart == pc = "start" => dev = job.dev /\ walk = B!Walk("none")

BlkInv == /\ BlkTypes /\ BlkStart /\ BlkWalk /\ BlkRead
          /\ exit \in {"ok", "differs"} => B!ImageAndDevice

LEMMA BlkInit ==
  ASSUME B!BlkwakAssumption, B!Init
  PROVE  BlkInv
<1>1. job \in ImageJobs /\ dev = job.dev /\ file = job.file /\ pc = "start" /\ exit = "pending" /\ walk = B!Walk("none")
  BY DEF B!Init
<1>2. B!IsImage(file) /\ dev \in Seq(ImageBytes)
  BY <1>1, BlkConstants
<1>3. walk \in Walks
  <2>1. "none" \in {"none", "write", "compare"}
    OBVIOUS
  <2>2. QED BY <1>1, <1>2, <2>1, WalkStarts
<1>4. BlkTypes
  BY <1>1, <1>2, <1>3 DEF BlkTypes
<1>5. QED BY <1>1, <1>4 DEF BlkInv, BlkStart, BlkWalk, BlkRead

\* Nothing happens.
LEMMA BlkQuiet ==
  ASSUME BlkInv, UNCHANGED B!vars
  PROVE  BlkInv'
<1>1. job' = job /\ dev' = dev /\ file' = file /\ pc' = pc /\ walk' = walk /\ exit' = exit
  BY DEF B!vars
<1>2. BlkTypes /\ BlkStart /\ BlkWalk /\ BlkRead
  BY DEF BlkInv
<1>3. BlkTypes'
  BY <1>1, <1>2, TypesKept DEF BlkTypes
<1>4. BlkStart'
  BY <1>1, <1>2 DEF BlkStart, B!Walk
<1>5. BlkWalk'
  BY <1>1, <1>2, WalkKept DEF BlkWalk
<1>6. BlkRead'
  <2>1. Whole(file.chunks)' = Whole(file.chunks)
    BY <1>1 DEF Whole, B!Unpacked, B!Covers, B!Repeat, B!Hole
  <2>2. B!Length' = B!Length /\ B!Done' = B!Done
    BY <1>1 DEF B!Length, B!Done
  <2>3. B!Bytes(dev, job.off, B!Done)' = B!Bytes(dev, job.off, B!Done)
    BY <1>1, <2>2 DEF B!Bytes
  <2>4. Sparse(0, 0, file.chunks)' = Sparse(0, 0, file.chunks)
        /\ Raw(B!Bytes(dev, job.off, B!Done))' = Raw(B!Bytes(dev, job.off, B!Done))
    BY <1>1, <2>3 DEF Sparse, Raw
  <2>5. Seq(Made)' = Seq(Made)
    BY DEF Made, B!Chunks, B!Types
  <2>6. Reads => Reads'
    BY <1>1, <2>1, <2>2, <2>3, <2>4, <2>5 DEF Reads
  <2>7. QED BY <1>1, <1>2, <2>6 DEF BlkRead
<1>7. exit' \in {"ok", "differs"} => B!ImageAndDevice'
  <2>1. SUFFICES ASSUME exit \in {"ok", "differs"} PROVE B!ImageAndDevice'
    BY <1>1
  <2>2. B!ImageAndDevice
    BY <2>1 DEF BlkInv
  <2>3. Right(exit)
    BY <2>2 DEF Right, B!ImageAndDevice, B!ImageOnDevice, B!RestUntouched, B!ImageOfDevice, FillsExact,
                Untouched, IsRegion
  <2>4. Right(exit')
    BY <1>1, <2>3
  <2>5. QED BY <1>1, <2>4, EndsRight
<1>8. QED BY <1>3, <1>4, <1>5, <1>6, <1>7 DEF BlkInv

LEMMA BlkNext ==
  ASSUME B!BlkwakAssumption, BlkInv, [B!Next]_B!vars
  PROVE  BlkInv'
<1>1. BlkTypes /\ BlkWalk /\ BlkRead /\ (pc = "start" => dev = job.dev /\ walk = B!Walk("none"))
  BY DEF BlkInv, BlkStart
<1>2. ASSUME NEW how \in {"usage", "ioerr", "rejected"}, B!Ends(how) PROVE BlkInv'
  <2>1. how \in {"ok", "differs", "rejected", "ioerr", "usage"} /\ how \notin {"ok", "differs"}
    OBVIOUS
  <2>2. BlkTypes' /\ pc' = "done" /\ exit' = how
    BY <1>1, <1>2, <2>1, EndsTyped
  <2>3. QED BY <2>1, <2>2 DEF BlkInv, BlkStart, BlkWalk, BlkRead
<1>3. CASE B!Refuse
  BY <1>2, <1>3 DEF B!Refuse
<1>4. CASE B!Fails
  BY <1>2, <1>4 DEF B!Fails
<1>5. CASE B!PastTheEnd
  BY <1>2, <1>5 DEF B!PastTheEnd
<1>6. CASE B!BeginWrite \/ B!BeginCompare
  <2>1. pc = "start"
    BY <1>6 DEF B!BeginWrite, B!BeginCompare
  <2>2. dev = job.dev /\ exit = "pending"
    BY <1>1, <2>1 DEF BlkTypes
  <2>3. BlkTypes' /\ BlkWalk' /\ pc' = "open" /\ exit' = exit
    BY <1>1, <1>6, <2>1, <2>2, Begins
  <2>4. QED BY <2>2, <2>3 DEF BlkInv, BlkStart, BlkRead
<1>7. CASE B!BeginRead
  <2>1. dev = job.dev /\ walk = B!Walk("none")
    BY <1>1, <1>7 DEF B!BeginRead
  <2>2. BlkTypes' /\ BlkRead' /\ pc' = "read" /\ exit' = "pending"
    BY <1>1, <1>7, <2>1, ReadBegins
  <2>3. QED BY <2>2 DEF BlkInv, BlkStart, BlkWalk
<1>8. CASE B!OpenImage
  <2>1. BlkTypes' /\ BlkWalk' /\ pc' \in {"walk", "done"} /\ exit' \in {"pending", "rejected"}
    BY <1>1, <1>8, Opens
  <2>2. QED BY <2>1 DEF BlkInv, BlkStart, BlkRead
<1>9. CASE B!WalkSpan
  <2>1. BlkTypes' /\ BlkWalk' /\ pc' = "walk" /\ exit' = "pending"
    BY <1>1, <1>9, Spans
  <2>2. QED BY <2>1 DEF BlkInv, BlkStart, BlkRead
<1>10. CASE B!WriteFails
  <2>1. BlkTypes' /\ pc' = "done" /\ exit' = "ioerr"
    BY <1>1, <1>10, Breaks
  <2>2. QED BY <2>1 DEF BlkInv, BlkStart, BlkWalk, BlkRead
<1>11. CASE B!NextChunk
  <2>1. BlkTypes' /\ BlkWalk' /\ pc' \in {"walk", "done"} /\ exit' \in {"pending", "rejected"}
    BY <1>1, <1>11, Proceeds
  <2>2. QED BY <2>1 DEF BlkInv, BlkStart, BlkRead
<1>12. CASE B!WalkEnds
  <2>1. BlkTypes' /\ BlkWalk' /\ pc' \in {"finish", "done"} /\ exit' \in {"pending", "rejected"}
    BY <1>1, <1>12, Finishes
  <2>2. QED BY <2>1 DEF BlkInv, BlkStart, BlkRead
<1>13. CASE B!Finish
  <2>1. /\ BlkTypes' /\ BlkWalk' /\ pc' \in {"open", "done"}
        /\ exit' \in {"ok", "differs"} => B!ImageAndDevice'
    BY <1>1, <1>13, Concludes
  <2>2. QED BY <2>1 DEF BlkInv, BlkStart, BlkRead
<1>14. CASE B!ReadBuffer
  <2>1. BlkTypes' /\ BlkRead' /\ pc' = "read" /\ exit' = "pending"
    BY <1>1, <1>14, ReadGoesOn
  <2>2. QED BY <2>1 DEF BlkInv, BlkStart, BlkWalk
<1>15. CASE B!ReadEnds
  <2>1. /\ BlkTypes' /\ BlkWalk' /\ pc' \in {"open", "done"}
        /\ exit' \in {"ok", "differs"} => B!ImageAndDevice'
    BY <1>1, <1>15, ReadConcludes
  <2>2. QED BY <2>1 DEF BlkInv, BlkStart, BlkRead
<1>16. CASE UNCHANGED B!vars
  BY <1>16, BlkQuiet
<1>17. QED BY <1>3, <1>4, <1>5, <1>6, <1>7, <1>8, <1>9, <1>10, <1>11, <1>12, <1>13, <1>14, <1>15, <1>16 DEF B!Next

\* What an invariant asks is asked of every end.
LEMMA BlkRight ==
  ASSUME BlkInv
  PROVE  B!ImageAndDevice
<1>1. exit \in {"ok", "differs"} \/ exit \notin {"ok", "differs"}
  OBVIOUS
<1>2. CASE exit \notin {"ok", "differs"}
  BY <1>2 DEF B!ImageAndDevice, B!ImageOnDevice, B!RestUntouched, B!ImageOfDevice
<1>3. QED BY <1>1, <1>2 DEF BlkInv

=============================================================================
