-------------------------------- MODULE Fifo --------------------------------
(* What a ringbuf promises: a queue of at most Size bytes, which come out  *)
(* in the order they were put in, each of them once.                       *)
EXTENDS Naturals, Sequences

CONSTANTS Size,   \* how many bytes it holds
          Byte,
          Data    \* what callers hand over in one go: sequences of bytes

VARIABLES q,      \* what waits
          last    \* the last operation, what it was given and what it gave back

Did(op, in, out) == [op |-> op, in |-> in, out |-> out]

Init == q = <<>> /\ last = Did("reset", <<>>, <<>>)

Reset == q' = <<>> /\ last' = Did("reset", <<>>, <<>>)

Add(data) == \/ /\ Len(q) + Len(data) <= Size
                /\ q' = q \o data
                /\ last' = Did("add", data, <<>>)
             \/ /\ Len(q) + Len(data) > Size
                /\ last' = Did("ENOBUFS", data, <<>>)
                /\ UNCHANGED q

\* For a caller that made sure there is room.
Put(c) == Len(q) < Size /\ q' = Append(q, c) /\ last' = Did("put", <<c>>, <<>>)

\* The caller may be handed less than there is.
Take(n) == /\ n <= Len(q)
           /\ last' = Did("take", <<>>, SubSeq(q, 1, n))
           /\ q' = SubSeq(q, n + 1, Len(q))

Next == \/ Reset
        \/ \E data \in Data : Add(data)
        \/ \E c \in Byte : Put(c)
        \/ \E n \in 0..Size : Take(n)

Spec == Init /\ [][Next]_<<q, last>>

=============================================================================
