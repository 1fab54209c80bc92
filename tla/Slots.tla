-------------------------------- MODULE Slots --------------------------------
(* What the programs that run once keep, one of them at a time: the same    *)
(* names for all. s1 is where a program is, s2 how it ended, s3 what it was *)
(* told to do, wherever it has these.                                       *)

VARIABLES tool,         \* which one this is
          s1, s2, s3, s4, s5, s6, s7, s8, s9, s10, s11, s12

mine == <<s1, s2, s3, s4, s5, s6, s7, s8, s9, s10, s11, s12>>
vars == <<tool, mine>>

\* What a tool does not use stays at 0.
From12 == s12 = 0
From11 == s11 = 0 /\ From12
From9 == s9 = 0 /\ s10 = 0 /\ From11
From8 == s8 = 0 /\ From9
From7 == s7 = 0 /\ From8
Rest12 == UNCHANGED s12
Rest11 == UNCHANGED <<s11, s12>>
Rest9 == UNCHANGED <<s9, s10, s11, s12>>
Rest8 == UNCHANGED <<s8, s9, s10, s11, s12>>
Rest7 == UNCHANGED <<s7, s8, s9, s10, s11, s12>>

=============================================================================
