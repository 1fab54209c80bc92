------------------------------- MODULE MCTftp -------------------------------
(* Instances of Tftp for TLC.                                               *)
EXTENDS TftpProps, TLC

ServerSymmetry == Permutations(Tids)

=============================================================================
