------------------------------ MODULE MCDhcpc ------------------------------
(* Instances of Dhcpc for TLC.                                             *)
EXTENDS DhcpcProps

\* A lease with all there is, and one too short to halve.
TwoTerms == {[addr |-> "a1", lease |-> 4, dns |-> {"d"}],
             [addr |-> "a2", lease |-> 1, dns |-> {}]}
OneTerm  == {[addr |-> "a1", lease |-> 4, dns |-> {}]}

=============================================================================
