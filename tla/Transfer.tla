------------------------------ MODULE Transfer ------------------------------
(* What a file transfer promises: the copy is at every moment the beginning *)
(* of the original, and the whole of it once success is reported.           *)
EXTENDS Naturals, Sequences

CONSTANT File

VARIABLES copy, done

Init == copy = <<>> /\ done = FALSE

\* A part is added, perhaps the last one; success is not reported too early.
Add == \E n \in Len(copy)..Len(File) :
         /\ copy' = SubSeq(File, 1, n)
         /\ done' \in {FALSE, n = Len(File)}

Next == ~done /\ Add

Spec == Init /\ [][Next]_<<copy, done>>

=============================================================================
