------------------------------ MODULE MCSmold ------------------------------
(* Instances of Smold for TLC.                                             *)
EXTENDS SmoldProps, TLC

PidSymmetry == Permutations(Pids)

=============================================================================
