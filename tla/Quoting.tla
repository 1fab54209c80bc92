------------------------------ MODULE Quoting ------------------------------
(* What quotes and backslashes in a line of the shell mean, read off the   *)
(* whole line at once: the reference Readln and ParseCmd are held against. *)
EXTENDS Naturals, Sequences, SequencesExt

\* State before each character: inside quotes, or right after a backslash.
Before(line) ==
    LET b[i \in 1..(Len(line) + 1)] ==
          IF i = 1 THEN [quoted |-> FALSE, escaped |-> FALSE]
          ELSE LET s == b[i - 1]
                   plain == ~s.escaped
               IN [quoted |-> s.quoted # (plain /\ line[i - 1] = "\""),
                   escaped |-> plain /\ ~s.quoted /\ line[i - 1] = "\\"]
    IN b

\* Positions where a character of the set c means what it means outside quotes.
Active(line, c) ==
    {i \in DOMAIN line : /\ line[i] \in c
                         /\ Before(line)[i] = [quoted |-> FALSE, escaped |-> FALSE]}

\* Quotes that open or close, and backslashes that escape: not part of a word.
Marks(line) ==
    {i \in DOMAIN line : \/ line[i] = "\"" /\ ~Before(line)[i].escaped
                         \/ i \in Active(line, {"\\"})}

\* A quote left open, or a backslash with nothing after it.
Unfinished(line) ==
    LET s == Before(line)[Len(line) + 1] IN s.quoted \/ s.escaped

\* The members of S, positions up to n, in order.
Ascending(S, n) == SelectSeq([i \in 1..n |-> i], LAMBDA i : i \in S)

\* The characters of s between its positions a and b that are not in skip.
Without(s, a, b, skip) ==
    LET kept == Ascending((a..b) \ skip, b)
    IN [k \in DOMAIN kept |-> s[kept[k]]]

\* The pieces of s between the positions of cuts, as pairs of first and last.
Pieces(s, cuts) ==
    LET at == <<0>> \o Ascending(cuts, Len(s)) \o <<Len(s) + 1>>
    IN [k \in 1..(Len(at) - 1) |-> <<at[k] + 1, at[k + 1] - 1>>]

=============================================================================
