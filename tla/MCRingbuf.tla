----------------------------- MODULE MCRingbuf -----------------------------
(* A small ring for TLC: a buffer of four, handed up to five bytes at once. *)
EXTENDS Ringbuf

ShortData == {<<>>} \cup UNION {[1..n -> Byte] : n \in 1..5}

=============================================================================
