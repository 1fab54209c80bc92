------------------------------- MODULE Ringbuf -------------------------------
(* inc/ringbuf.h: a queue in a fixed buffer, which wraps around its end.    *)
EXTENDS Naturals, Sequences

CONSTANTS Size,   \* _size of RINGBUF(_name, _size)
          Byte,
          Data    \* what callers hand to ringbuf_add()

\* RINGBUF()'s static assertion; Size itself is a bound of the loop over k.
ASSUME SizeAssumption == Size \in Nat \ {0} /\ \E k \in 0..Size : Size = 2^k
ASSUME DataAssumption == Data \subseteq Seq(Byte)

VARIABLES buf, start, len,
          last    \* the last operation, what it was given and what it gave back

vars == <<buf, start, len, last>>

Slot == 0..Size - 1

Did(op, in, out) == [op |-> op, in |-> in, out |-> out]

\* Mutant: nothing wraps.
MaskNot(i) == i

\* i & (size - 1), for a power of two
Mask(i) == i % Size

ringbuf_room == Size - len

\* Bytes in one piece from start.
ringbuf_span == IF Size - start > len THEN len ELSE Size - start

\* The queue the ring stands for.
Contents == [i \in 1..len |-> buf[Mask(start + i - 1)]]

-----------------------------------------------------------------------------

\* Memory as the program finds it, whatever was in it.
Init == /\ buf \in [Slot -> Byte]
        /\ start = 0 /\ len = 0 /\ last = Did("reset", <<>>, <<>>)

ringbuf_init == /\ start' = 0 /\ len' = 0 /\ last' = Did("reset", <<>>, <<>>)
                /\ UNCHANGED buf

ringbuf_put(c) ==
  /\ ringbuf_room > 0
  /\ buf' = [buf EXCEPT ![Mask(start + len)] = c]
  /\ len' = len + 1
  /\ last' = Did("put", <<c>>, <<>>)
  /\ UNCHANGED start

\* Mutant: the second memcpy() is forgotten.
CopiedOnce(data) ==
  LET end == Mask(start + len)
  IN  [i \in Slot |-> IF end <= i /\ i < end + Len(data) THEN data[i - end + 1]
                      ELSE buf[i]]

\* What the two memcpy() leave: the first fills up to the end of the buffer,
\* the second goes on at its beginning.
Copied(data) ==
  LET end == Mask(start + len)
      run == IF Size - end > Len(data) THEN Len(data) ELSE Size - end
  IN  [i \in Slot |-> IF end <= i /\ i < end + run THEN data[i - end + 1]
                      ELSE IF i < Len(data) - run THEN data[run + i + 1]
                      ELSE buf[i]]

ringbuf_add(data) ==
  \/ /\ Len(data) <= ringbuf_room
     /\ buf' = Copied(data)
     /\ len' = len + Len(data)
     /\ last' = Did("add", data, <<>>)
     /\ UNCHANGED start
  \/ /\ Len(data) > ringbuf_room
     /\ last' = Did("ENOBUFS", data, <<>>)
     /\ UNCHANGED <<buf, start, len>>

\* ringbuf_span() to read from, then ringbuf_nomnom() of what was used of it.
ringbuf_nomnom(n) ==
  /\ n <= ringbuf_span
  /\ last' = Did("take", <<>>, [i \in 1..n |-> buf[start + i - 1]])
  /\ start' = Mask(start + n)
  /\ len' = len - n
  /\ UNCHANGED buf

Next == \/ ringbuf_init
        \/ \E c \in Byte : ringbuf_put(c)
        \/ \E data \in Data : ringbuf_add(data)
        \/ \E n \in 0..Size : ringbuf_nomnom(n)

Spec == Init /\ [][Next]_vars

-----------------------------------------------------------------------------

\* The ring stays within its buffer.
TypeOK == /\ buf \in [Slot -> Byte]
          /\ start \in Slot
          /\ len \in 0..Size

Queue == INSTANCE Fifo WITH q <- Contents

\* A ringbuf is a queue: for every wrap, partial read and refused add, bytes
\* come out once each and in order.
IsFifo == Queue!Spec

=============================================================================
