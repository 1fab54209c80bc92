---------------------------- MODULE RingbufProofs ----------------------------
(* For every power of two, every alphabet and whatever callers hand over, a *)
(* ringbuf stays within its buffer and is a queue.                          *)
EXTENDS Ringbuf, SequenceTheorems, TLAPS

\* The mask brings an index that ran past the end, by less than a turn, back
\* to the beginning.
LEMMA MaskWraps ==
  \A i \in Nat : i < 2 * Size => Mask(i) = IF i < Size THEN i ELSE i - Size
<1>0. Size \in Nat /\ Size > 0
  BY SizeAssumption
<1>1. ASSUME NEW i \in Nat, i < Size PROVE i % Size = i
  BY <1>0, <1>1
<1>2. ASSUME NEW i \in Nat, i >= Size, i < 2 * Size PROVE i % Size = i - Size
  BY <1>0, <1>2
<1>3. QED BY <1>0, <1>1, <1>2 DEF Mask

\* What a start and a length say the ring holds is a sequence of bytes.
LEMMA RingSeq ==
  ASSUME NEW b \in [Slot -> Byte], NEW s \in Slot, NEW l \in 0..Size
  PROVE  LET c == [i \in 1..l |-> b[Mask(s + i - 1)]]
         IN  /\ c \in Seq(Byte) /\ Len(c) = l
             /\ \A i \in 1..l : c[i] = b[IF s + i - 1 < Size THEN s + i - 1
                                         ELSE s + i - 1 - Size]
<1> DEFINE c == [i \in 1..l |-> b[Mask(s + i - 1)]]
<1>0. Size \in Nat /\ Size > 0
  BY SizeAssumption
<1>1. ASSUME NEW i \in 1..l
      PROVE  /\ Mask(s + i - 1) = IF s + i - 1 < Size THEN s + i - 1
                                  ELSE s + i - 1 - Size
             /\ Mask(s + i - 1) \in Slot
  BY <1>0, MaskWraps DEF Slot
<1>2. c \in [1..l -> Byte]
  BY <1>1
<1>3. l \in Nat
  BY <1>0
<1>4. c \in Seq(Byte)
  BY <1>2, <1>3, SeqDef
<1>5. Len(c) = l
  BY <1>2, <1>3, <1>4, LenProperties
<1>6. QED BY <1>1, <1>4, <1>5

-----------------------------------------------------------------------------
(* Type correctness                                                         *)

LEMMA AddType ==
  ASSUME TypeOK, NEW data \in Data, ringbuf_add(data)
  PROVE  TypeOK'
<1>0. Size \in Nat /\ Size > 0 /\ data \in Seq(Byte) /\ Len(data) \in Nat
  BY SizeAssumption, DataAssumption, LenProperties
<1>1. CASE Len(data) > ringbuf_room
  BY <1>0, <1>1 DEF TypeOK, ringbuf_add, ringbuf_room
<1>2. CASE Len(data) <= ringbuf_room
  <2> DEFINE end == Mask(start + len)
             run == IF Size - end > Len(data) THEN Len(data) ELSE Size - end
  <2>1. end \in Slot
    BY <1>0, MaskWraps DEF TypeOK, Slot
  <2>2. run \in 0..Len(data)
    BY <1>0, <2>1 DEF Slot
  <2>3. \A i \in 1..Len(data) : data[i] \in Byte
    BY <1>0, ElementOfSeq
  <2>4. ASSUME NEW i \in Slot
        PROVE  (IF end <= i /\ i < end + run THEN data[i - end + 1]
                ELSE IF i < Len(data) - run THEN data[run + i + 1]
                ELSE buf[i]) \in Byte
    <3> HIDE DEF end, run
    <3>1. CASE end <= i /\ i < end + run
      BY <1>0, <2>1, <2>2, <2>3, <3>1 DEF Slot
    <3>2. CASE ~(end <= i /\ i < end + run) /\ i < Len(data) - run
      BY <1>0, <2>1, <2>2, <2>3, <3>2 DEF Slot
    <3>3. CASE ~(end <= i /\ i < end + run) /\ ~(i < Len(data) - run)
      BY <3>3 DEF TypeOK
    <3>4. QED BY <3>1, <3>2, <3>3
  <2>5. Copied(data) \in [Slot -> Byte]
    BY <2>4 DEF Copied
  <2>6. len + Len(data) \in 0..Size
    BY <1>0, <1>2 DEF TypeOK, ringbuf_room
  <2>7. buf' = Copied(data) /\ len' = len + Len(data) /\ start' = start
    BY <1>0, <1>2 DEF ringbuf_add, ringbuf_room, TypeOK
  <2>8. QED BY <2>5, <2>6, <2>7 DEF TypeOK
<1>3. QED BY <1>0, <1>1, <1>2 DEF ringbuf_room, TypeOK

\* Type correctness: the ring stays within its buffer.
THEOREM TypeCorrect == Spec => []TypeOK
<1>0. Size \in Nat /\ Size > 0
  BY SizeAssumption
<1>1. Init => TypeOK
  BY <1>0 DEF Init, TypeOK, Slot
<1>2. TypeOK /\ [Next]_vars => TypeOK'
  <2> SUFFICES ASSUME TypeOK, [Next]_vars PROVE TypeOK'
    OBVIOUS
  <2>1. CASE ringbuf_init
    BY <1>0, <2>1 DEF ringbuf_init, TypeOK, Slot
  <2>2. ASSUME NEW c \in Byte, ringbuf_put(c) PROVE TypeOK'
    <3>1. Mask(start + len) \in Slot
      BY <1>0, MaskWraps DEF TypeOK, Slot
    <3>2. QED BY <1>0, <2>2, <3>1 DEF ringbuf_put, ringbuf_room, TypeOK
  <2>3. ASSUME NEW data \in Data, ringbuf_add(data) PROVE TypeOK'
    BY <2>3, AddType
  <2>4. ASSUME NEW n \in 0..Size, ringbuf_nomnom(n) PROVE TypeOK'
    <3>1. start + n \in Nat /\ start + n < 2 * Size /\ n <= len
      BY <1>0, <2>4 DEF TypeOK, Slot, ringbuf_nomnom, ringbuf_span
    <3>2. Mask(start + n) \in Slot
      BY <1>0, <2>4, <3>1, MaskWraps DEF TypeOK, Slot, ringbuf_nomnom, ringbuf_span
    <3>3. QED BY <1>0, <2>4, <3>1, <3>2 DEF ringbuf_nomnom, TypeOK
  <2>5. CASE UNCHANGED vars
    BY <2>5 DEF vars, TypeOK
  <2>6. QED BY <2>1, <2>2, <2>3, <2>4, <2>5 DEF Next
<1>3. QED BY <1>1, <1>2, PTL DEF Spec

-----------------------------------------------------------------------------
(* Refinement: what each operation does to Contents                         *)

LEMMA ContentsSeq ==
  ASSUME TypeOK
  PROVE  /\ Contents \in Seq(Byte) /\ Len(Contents) = len
         /\ \A i \in 1..len : Contents[i] = buf[IF start + i - 1 < Size THEN start + i - 1
                                                 ELSE start + i - 1 - Size]
BY RingSeq DEF TypeOK, Contents

LEMMA NextContentsSeq ==
  ASSUME TypeOK'
  PROVE  /\ Contents' \in Seq(Byte) /\ Len(Contents') = len'
         /\ \A i \in 1..len' : Contents'[i] = buf'[IF start' + i - 1 < Size
                                                    THEN start' + i - 1
                                                    ELSE start' + i - 1 - Size]
BY RingSeq DEF TypeOK, Contents

LEMMA PutAppends ==
  ASSUME TypeOK, TypeOK', NEW c \in Byte, ringbuf_put(c)
  PROVE  Len(Contents) < Size /\ Contents' = Append(Contents, c)
<1>0. Size \in Nat /\ Size > 0
  BY SizeAssumption
<1>1. /\ start \in Slot /\ len \in 0..Size - 1 /\ buf \in [Slot -> Byte]
      /\ start' = start /\ len' = len + 1 /\ buf' = [buf EXCEPT ![Mask(start + len)] = c]
  BY <1>0 DEF TypeOK, ringbuf_put, ringbuf_room
<1>2. Mask(start + len) = IF start + len < Size THEN start + len ELSE start + len - Size
  BY <1>0, <1>1, MaskWraps DEF Slot
<1>3. /\ Append(Contents, c) \in Seq(Byte) /\ Len(Append(Contents, c)) = len + 1
      /\ \A i \in 1..len : Append(Contents, c)[i] = Contents[i]
      /\ Append(Contents, c)[len + 1] = c
  BY ContentsSeq, AppendProperties
<1>4. ASSUME NEW i \in 1..len + 1 PROVE Contents'[i] = Append(Contents, c)[i]
  <2>1. Contents'[i] = buf'[IF start + i - 1 < Size THEN start + i - 1
                            ELSE start + i - 1 - Size]
    BY <1>1, NextContentsSeq
  <2>2. CASE i = len + 1
    BY <1>0, <1>1, <1>2, <1>3, <2>1, <2>2 DEF Slot
  <2>3. CASE i \in 1..len
    <3>1. (IF start + i - 1 < Size THEN start + i - 1 ELSE start + i - 1 - Size)
            \in Slot \ {Mask(start + len)}
      BY <1>0, <1>1, <1>2, <2>3 DEF Slot
    <3>2. QED BY <1>1, <1>3, <2>1, <2>3, <3>1, ContentsSeq
  <2>4. i \in 1..len \/ i = len + 1
    BY <1>0, <1>1
  <2>5. QED BY <2>2, <2>3, <2>4
<1>5. Contents' = Append(Contents, c)
  BY <1>1, <1>3, <1>4, NextContentsSeq, SeqEqual
<1>6. QED BY <1>0, <1>1, <1>5, ContentsSeq

\* Where the i-th byte of the queue lies after an add, and what was put there:
\* the old byte, one of the first memcpy(), or one of the second.
LEMMA AddIndex ==
  ASSUME NEW s \in Slot, NEW l \in 0..Size, NEW d \in Nat, l + d <= Size,
         NEW i \in 1..l + d,
         NEW end, end = IF s + l < Size THEN s + l ELSE s + l - Size,
         NEW run, run = IF Size - end > d THEN d ELSE Size - end,
         NEW at, at = IF s + i - 1 < Size THEN s + i - 1 ELSE s + i - 1 - Size
  PROVE  /\ at \in Slot
         /\ i <= l => ~(end <= at /\ at < end + run) /\ ~(at < d - run)
         /\ i > l /\ i - l <= run => end <= at /\ at < end + run /\ at - end + 1 = i - l
         /\ i > l /\ ~(i - l <= run) => /\ ~(end <= at /\ at < end + run)
                                       /\ at < d - run /\ run + at + 1 = i - l
BY SizeAssumption DEF Slot

LEMMA AddConcats ==
  ASSUME TypeOK, TypeOK', NEW data \in Data, ringbuf_add(data), Len(data) <= ringbuf_room
  PROVE  Contents' = Contents \o data
<1> DEFINE end == Mask(start + len)
           run == IF Size - end > Len(data) THEN Len(data) ELSE Size - end
           at(i) == IF start + i - 1 < Size THEN start + i - 1 ELSE start + i - 1 - Size
<1>0. Size \in Nat /\ Size > 0 /\ data \in Seq(Byte) /\ Len(data) \in Nat
  BY SizeAssumption, DataAssumption, LenProperties
<1>1. /\ start \in Slot /\ len \in 0..Size /\ len + Len(data) <= Size
      /\ start' = start /\ len' = len + Len(data) /\ buf' = Copied(data)
  BY <1>0 DEF TypeOK, ringbuf_add, ringbuf_room
<1>2. end = IF start + len < Size THEN start + len ELSE start + len - Size
  BY <1>0, <1>1, MaskWraps DEF Slot
<1>3. /\ Contents \o data \in Seq(Byte) /\ Len(Contents \o data) = len + Len(data)
      /\ \A i \in 1..len + Len(data) :
           (Contents \o data)[i] = IF i <= len THEN Contents[i] ELSE data[i - len]
  <2>1. Contents \in Seq(Byte) /\ Len(Contents) = len
    BY ContentsSeq
  <2> HIDE DEF end, run, at
  <2>2. QED BY <1>0, <2>1, ConcatProperties
<1>4. \A i \in Slot :
        buf'[i] = IF end <= i /\ i < end + run THEN data[i - end + 1]
                  ELSE IF i < Len(data) - run THEN data[run + i + 1]
                  ELSE buf[i]
  BY <1>1 DEF Copied
<1>5. \A i \in 1..len + Len(data) : Contents'[i] = buf'[at(i)]
  BY <1>1, NextContentsSeq
<1>6. \A i \in 1..len : Contents[i] = buf[at(i)]
  BY ContentsSeq
<1>7. ASSUME NEW i \in 1..len + Len(data) PROVE Contents'[i] = (Contents \o data)[i]
  <2>1. /\ at(i) \in Slot
        /\ i <= len => ~(end <= at(i) /\ at(i) < end + run) /\ ~(at(i) < Len(data) - run)
        /\ i > len /\ i - len <= run =>
             end <= at(i) /\ at(i) < end + run /\ at(i) - end + 1 = i - len
        /\ i > len /\ ~(i - len <= run) =>
             /\ ~(end <= at(i) /\ at(i) < end + run)
             /\ at(i) < Len(data) - run /\ run + at(i) + 1 = i - len
    BY <1>0, <1>1, <1>2, AddIndex
  <2>2. i \in Int /\ len \in Int
    BY <1>0, <1>1
  <2> HIDE DEF end, run, at
  <2>3. CASE i <= len
    <3>1. i \in 1..len
      BY <2>2, <2>3
    <3>2. QED BY <1>3, <1>4, <1>5, <1>6, <2>1, <2>3, <3>1
  <2>4. CASE i > len /\ i - len <= run
    BY <1>3, <1>4, <1>5, <2>1, <2>2, <2>4
  <2>5. CASE i > len /\ ~(i - len <= run)
    BY <1>3, <1>4, <1>5, <2>1, <2>2, <2>5
  <2>6. i <= len \/ i > len
    BY <2>2
  <2>7. QED BY <2>3, <2>4, <2>5, <2>6
<1>8. QED BY <1>1, <1>3, <1>7, NextContentsSeq, SeqEqual

LEMMA NomnomTakes ==
  ASSUME TypeOK, TypeOK', NEW n \in 0..Size, ringbuf_nomnom(n)
  PROVE  /\ n <= Len(Contents)
         /\ [i \in 1..n |-> buf[start + i - 1]] = SubSeq(Contents, 1, n)
         /\ Contents' = SubSeq(Contents, n + 1, Len(Contents))
<1>0. Size \in Nat /\ Size > 0
  BY SizeAssumption
<1>1. /\ start \in Slot /\ len \in 0..Size /\ n <= len /\ start + n <= Size
      /\ start' = Mask(start + n) /\ len' = len - n /\ buf' = buf
      /\ buf \in [Slot -> Byte]
  BY <1>0 DEF TypeOK, ringbuf_nomnom, ringbuf_span, Slot
<1>2. Mask(start + n) = IF start + n < Size THEN start + n ELSE start + n - Size
  BY <1>0, <1>1, MaskWraps DEF Slot
<1>3. \A i \in 1..len : Contents[i] \in Byte
  BY ContentsSeq, ElementOfSeq
<1>4. n \in Int /\ len \in Int /\ n + 1 \in Int /\ 1 \in Int
  BY <1>0, <1>1
<1>5. /\ SubSeq(Contents, 1, n) \in Seq(Byte) /\ Len(SubSeq(Contents, 1, n)) = n
      /\ \A i \in 1..n : SubSeq(Contents, 1, n)[i] = Contents[i]
  <2>1. \A i \in 1..n : Contents[i] \in Byte
    BY <1>1, <1>3, <1>4
  <2>2. /\ SubSeq(Contents, 1, n) \in Seq(Byte)
        /\ Len(SubSeq(Contents, 1, n)) = IF 1 <= n THEN n - 1 + 1 ELSE 0
        /\ \A i \in 1..n - 1 + 1 : SubSeq(Contents, 1, n)[i] = Contents[1 + i - 1]
    BY <1>4, <2>1, SubSeqProperties
  <2>3. QED BY <1>4, <1>0, <2>2
<1>6. /\ SubSeq(Contents, n + 1, len) \in Seq(Byte)
      /\ Len(SubSeq(Contents, n + 1, len)) = len - n
      /\ \A i \in 1..len - n : SubSeq(Contents, n + 1, len)[i] = Contents[n + i]
  <2>1. \A i \in n + 1..len : Contents[i] \in Byte
    BY <1>0, <1>1, <1>3
  <2>2. /\ SubSeq(Contents, n + 1, len) \in Seq(Byte)
        /\ Len(SubSeq(Contents, n + 1, len)) = IF n + 1 <= len THEN len - (n + 1) + 1 ELSE 0
        /\ \A i \in 1..len - (n + 1) + 1 :
             SubSeq(Contents, n + 1, len)[i] = Contents[n + 1 + i - 1]
    BY <1>4, <2>1, SubSeqProperties
  <2>3. QED BY <1>0, <1>1, <2>2
<1>7. [i \in 1..n |-> buf[start + i - 1]] = SubSeq(Contents, 1, n)
  <2> DEFINE taken == [i \in 1..n |-> buf[start + i - 1]]
  <2>1. ASSUME NEW i \in 1..n
        PROVE  buf[start + i - 1] \in Byte /\ buf[start + i - 1] = Contents[i]
    BY <1>0, <1>1, ContentsSeq DEF Slot
  <2>2. n \in Nat /\ taken \in [1..n -> Byte]
    BY <1>0, <2>1
  <2>3. taken \in Seq(Byte) /\ Len(taken) = n
    <3>1. taken \in Seq(Byte)
      BY <2>2, SeqDef
    <3>2. QED BY <2>2, <3>1, LenProperties
  <2>4. \A i \in 1..n : taken[i] = SubSeq(Contents, 1, n)[i]
    BY <1>5, <2>1
  <2> HIDE DEF taken
  <2>5. taken = SubSeq(Contents, 1, n)
    BY <1>5, <2>3, <2>4, SeqEqual
  <2>6. QED BY <2>5 DEF taken
<1>8. Contents' = SubSeq(Contents, n + 1, len)
  <2>1. ASSUME NEW i \in 1..len - n
        PROVE  Contents'[i] = SubSeq(Contents, n + 1, len)[i]
    <3>1. Contents'[i] = buf[IF Mask(start + n) + i - 1 < Size THEN Mask(start + n) + i - 1
                             ELSE Mask(start + n) + i - 1 - Size]
      BY <1>1, NextContentsSeq
    <3>2. n + i \in 1..len
      BY <1>0, <1>1
    <3>3. Contents[n + i] = buf[IF start + (n + i) - 1 < Size THEN start + (n + i) - 1
                                ELSE start + (n + i) - 1 - Size]
      BY <3>2, ContentsSeq
    <3>4. (IF Mask(start + n) + i - 1 < Size THEN Mask(start + n) + i - 1
           ELSE Mask(start + n) + i - 1 - Size)
            = (IF start + (n + i) - 1 < Size THEN start + (n + i) - 1
               ELSE start + (n + i) - 1 - Size)
      BY <1>0, <1>1, <1>2, <3>2 DEF Slot
    <3>5. QED BY <1>6, <3>1, <3>3, <3>4
  <2>2. QED BY <1>1, <1>6, <2>1, NextContentsSeq, SeqEqual
<1>9. QED BY <1>1, <1>7, <1>8, ContentsSeq

\* A ringbuf implements the queue of Fifo: however it wraps, each byte comes
\* out once and in order, and nothing is overwritten.
THEOREM IsFifoCorrect == Spec => IsFifo
<1>0. Size \in Nat /\ Size > 0
  BY SizeAssumption
<1>1. Init => Queue!Init
  <2> SUFFICES ASSUME Init PROVE Queue!Init
    OBVIOUS
  <2>1. TypeOK /\ len = 0
    BY <1>0 DEF Init, TypeOK, Slot
  <2>2. Contents = <<>>
    BY <2>1, ContentsSeq, EmptySeq
  <2>3. QED BY <2>2 DEF Init, Queue!Init, Did, Queue!Did
<1>2. TypeOK /\ TypeOK' /\ [Next]_vars => [Queue!Next]_<<Contents, last>>
  <2> SUFFICES ASSUME TypeOK, TypeOK', [Next]_vars
               PROVE  [Queue!Next]_<<Contents, last>>
    OBVIOUS
  <2> USE DEF Did, Queue!Did
  <2>1. CASE ringbuf_init
    <3>1. Contents' = <<>>
      BY <2>1, NextContentsSeq, EmptySeq DEF ringbuf_init
    <3>2. QED BY <2>1, <3>1 DEF ringbuf_init, Queue!Reset, Queue!Next
  <2>2. ASSUME NEW c \in Byte, ringbuf_put(c) PROVE Queue!Next
    BY <2>2, PutAppends DEF ringbuf_put, Queue!Put, Queue!Next
  <2>3. ASSUME NEW data \in Data, ringbuf_add(data) PROVE Queue!Next
    <3>0. Len(data) \in Nat /\ len \in Nat /\ Len(Contents) = len
      BY <1>0, DataAssumption, LenProperties, ContentsSeq DEF TypeOK
    <3>1. CASE Len(data) <= ringbuf_room
      <4>1. Contents' = Contents \o data /\ Len(Contents) + Len(data) <= Size
        BY <1>0, <2>3, <3>0, <3>1, AddConcats DEF ringbuf_room
      <4>2. last' = Did("add", data, <<>>)
        BY <1>0, <2>3, <3>0, <3>1 DEF ringbuf_add, ringbuf_room
      <4>3. QED BY <4>1, <4>2 DEF Queue!Add, Queue!Next
    <3>2. CASE Len(data) > ringbuf_room
      <4>1. UNCHANGED <<buf, start, len>> /\ last' = Did("ENOBUFS", data, <<>>)
        BY <1>0, <2>3, <3>0, <3>2 DEF ringbuf_add, ringbuf_room
      <4>2. UNCHANGED Contents
        BY <4>1 DEF Contents
      <4>3. Len(Contents) + Len(data) > Size
        BY <1>0, <3>0, <3>2 DEF ringbuf_room
      <4>4. QED BY <4>1, <4>2, <4>3 DEF Queue!Add, Queue!Next
    <3>3. QED BY <1>0, <3>0, <3>1, <3>2 DEF ringbuf_room
  <2>4. ASSUME NEW n \in 0..Size, ringbuf_nomnom(n) PROVE Queue!Next
    BY <2>4, NomnomTakes DEF ringbuf_nomnom, Queue!Take, Queue!Next
  <2>5. CASE UNCHANGED vars
    BY <2>5 DEF vars, Contents
  <2>6. QED BY <2>1, <2>2, <2>3, <2>4, <2>5 DEF Next
<1>3. QED BY <1>1, <1>2, TypeCorrect, PTL DEF Spec, IsFifo, Queue!Spec

=============================================================================
