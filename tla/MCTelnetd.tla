----------------------------- MODULE MCTelnetd -----------------------------
(* Instances of Telnetd for TLC.                                           *)
EXTENDS TelnetdProps

\* Connection by connection. The clients of the first two send what tries out
\* the telnet commands, the shell of the third says what needs escaping.
ClientAlphabets == <<{IAC, SB, SE}, {IAC, WILL, CR, NUL}, {"a"}>>
ShellAlphabets  == <<{"a"}, {"a"}, {"a", IAC}>>
Sends == <<5, 3, 1>>
Says  == <<0, 0, 2>>

\* Two connections at a time, one of which has a client that never reads.
Text     == <<{"a"}, {"a"}>>
FewSends == <<0, 2>>
FewSays  == <<1, 1>>

=============================================================================
