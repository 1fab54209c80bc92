------------------------------- MODULE Readln -------------------------------
(* inc/readln.h: lines from a stream that read() cuts up anywhere, through *)
(* the shell's filter. What is read and not yet used stays in a buffer.    *)
EXTENDS Naturals, Sequences, SequencesExt, Quoting

CONSTANTS BufSize,      \* READLN_BUFSZ
          MaxLine,          \* the longest line the caller has room for
          Inputs        \* what may come in

ReadlnAssumption == BufSize \in Nat \ {0} /\ MaxLine \in Nat

VARIABLES input,        \* everything that will come in
          at,           \* how much of it read() has given out
          buf,          \* readln_buf[0 .. readln_pending - 1]
          dropping,     \* readln_dropping
          out,          \* what readln_shell() has returned so far
          done,         \* READLN_DONE was returned
          failed        \* history: that was for an error of read()

vars == <<input, at, buf, dropping, out, done, failed>>

Line(text) == [kind |-> "line", text |-> text]
Overflow == [kind |-> "overflow", text |-> <<>>]

Newline == IF "\n" \in ToSet(buf)
           THEN CHOOSE i \in DOMAIN buf : buf[i] = "\n" /\ \A j \in 1..(i - 1) : buf[j] # "\n"
           ELSE 0

From(s, i) == SubSeq(s, i, Len(s))

FilterChars == {"\"", "\\", "#", "\t", "\r", ";"}

\* What the filter does with a character: its action, the character, its state.
ShellChar(ch, s) ==
    LET act(a) == [s EXCEPT !.act = a, !.ch = ch]
        bare == ~s.quoted
    IN CASE s.escaped -> [act("keep") EXCEPT !.escaped = FALSE]
         [] ch = "\"" -> [act("keep") EXCEPT !.quoted = ~s.quoted]
         [] ch = "\\" /\ bare -> [act("next") EXCEPT !.escaped = TRUE]
         [] ch = "#" /\ bare -> act("eol")
         [] ch = "\t" /\ bare -> [act("keep") EXCEPT !.ch = " "]
         [] ch = "\r" -> act("drop")
         [] ch = ";" /\ bare -> act("split")
         [] OTHER -> act("keep")

\* One turn of _readln_copy()'s loop; nothing more happens once it has broken.
CopyChar(s, ch) ==
    LET asks == s.act = "next" \/ ch \in FilterChars
        h == IF asks THEN ShellChar(ch, s) ELSE [s EXCEPT !.act = "keep", !.ch = ch]
    IN IF s.act \in {"eol", "split"} THEN s
       ELSE [h EXCEPT !.n = s.n + 1,
                      !.used = IF h.act \in {"keep", "next"} THEN Append(s.used, h.ch) ELSE s.used]

\* The line, and how many of the characters it ate.
Copy(in) ==
    LET s == FoldLeft(CopyChar,
                      [used |-> <<>>, n |-> 0, act |-> "keep", ch |-> "",
                       quoted |-> FALSE, escaped |-> FALSE], in)
    IN [text |-> s.used, eaten |-> IF s.act = "split" THEN s.n ELSE Len(in)]

-----------------------------------------------------------------------------

Init == /\ input \in Inputs
        /\ at = 0 /\ buf = <<>> /\ dropping = FALSE /\ out = <<>>
        /\ done = FALSE /\ failed = FALSE

\* Throwing away the end of a line that was too long: its newline is here.
StopDropping ==
    /\ dropping /\ Newline # 0 /\ ~done
    /\ buf' = From(buf, Newline + 1)
    /\ dropping' = FALSE
    /\ UNCHANGED <<input, at, out, done, failed>>

\* A line is there but the caller has no room for it.
TooLong ==
    /\ ~dropping /\ ~done /\ Newline - 1 > MaxLine
    /\ buf' = From(buf, Newline + 1)
    /\ out' = Append(out, Overflow)
    /\ UNCHANGED <<input, at, dropping, done, failed>>

\* A line is there: it, or its first command, is returned.
TakeLine ==
    /\ ~dropping /\ ~done /\ Newline \in 1..(MaxLine + 1)
    /\ LET in == SubSeq(buf, 1, Newline - 1)
           c == Copy(in)
           eaten == IF c.eaten = Len(in) THEN c.eaten + 1 ELSE c.eaten
       IN /\ out' = Append(out, Line(c.text))
          /\ buf' = From(buf, eaten + 1)
    /\ UNCHANGED <<input, at, dropping, done, failed>>

\* Mutant: the rest of the line is taken for a line.
FullForgets ==
    /\ ~dropping /\ ~done /\ Newline = 0 /\ Len(buf) = BufSize
    /\ buf' = <<>>
    /\ out' = Append(out, Overflow)
    /\ UNCHANGED <<input, at, dropping, done, failed>>

\* All full up and no newline in sight.
Full ==
    /\ ~dropping /\ ~done /\ Newline = 0 /\ Len(buf) = BufSize
    /\ buf' = <<>>
    /\ dropping' = TRUE
    /\ out' = Append(out, Overflow)
    /\ UNCHANGED <<input, at, done, failed>>

\* The loop comes to its read(), having consumed what is to be dropped.
Reading(rest) ==
    /\ ~done /\ Newline = 0
    /\ rest = IF dropping THEN <<>> ELSE buf
    /\ Len(rest) < BufSize

\* read() gives out some of what has come in.
Read ==
    \E rest \in {buf, <<>>}, n \in 1..BufSize :
        /\ Reading(rest)
        /\ n <= BufSize - Len(rest) /\ at + n <= Len(input)
        /\ buf' = rest \o SubSeq(input, at + 1, at + n)
        /\ at' = at + n
        /\ UNCHANGED <<input, dropping, out, done, failed>>

\* read() is interrupted: READLN_INTERRUPTED, and the caller comes back.
Interrupted ==
    \E rest \in {buf, <<>>} :
        /\ Reading(rest)
        /\ buf' = rest
        /\ UNCHANGED <<input, at, dropping, out, done, failed>>

\* read() finds the end of the input. What is left without a newline stays where
\* it is, and is never returned.
EndOfInput ==
    \E rest \in {buf, <<>>} :
        /\ Reading(rest)
        /\ at = Len(input)
        /\ buf' = rest
        /\ done' = TRUE
        /\ UNCHANGED <<input, at, dropping, out, failed>>

\* read() fails for another reason than a signal, whatever was still to come.
ReadFails ==
    \E rest \in {buf, <<>>} :
        /\ Reading(rest)
        /\ buf' = rest
        /\ done' = TRUE /\ failed' = TRUE
        /\ UNCHANGED <<input, at, dropping, out>>

Next == \/ StopDropping \/ TooLong \/ TakeLine \/ Full
        \/ Read \/ Interrupted \/ EndOfInput \/ ReadFails

-----------------------------------------------------------------------------

\* The commands of a line: up to the comment, cut at the semicolons.
Commands(line) ==
    LET hash == Active(line, {"#"})
        all == IF hash = {} THEN line
               ELSE SubSeq(line, 1, (CHOOSE i \in hash : \A j \in hash : i <= j) - 1)
        b == Before(all)
        gone == {i \in DOMAIN all : all[i] = "\r" /\ ~b[i].escaped}
        blank == Active(all, {"\t"})
        clean == [i \in DOMAIN all |-> IF i \in blank THEN " " ELSE all[i]]
        cuts == Active(all, {";"})
        \* a semicolon at the very end of the line begins no further command
        last == IF Len(line) \in cuts THEN 1 ELSE 0
        p == Pieces(all, cuts)
    IN [k \in 1..(Len(p) - last) |-> Line(Without(clean, p[k][1], p[k][2], gone))]

\* The lines of the input, the last of them without a newline, perhaps empty.
Lines == Pieces(input, {i \in DOMAIN input : input[i] = "\n"})

\* What line k comes to.
Results(k) == LET l == SubSeq(input, Lines[k][1], Lines[k][2])
              IN IF Len(l) > MaxLine \/ Len(l) >= BufSize THEN <<Overflow>> ELSE Commands(l)

\* What the complete lines come to, however read() cuts them up, ...
Expected == FlattenSeq([k \in 1..(Len(Lines) - 1) |-> Results(k)])

\* ... and what may follow for the rest.
Unterminated == IF Lines[Len(Lines)][1] > Len(input) THEN <<>> ELSE Results(Len(Lines))

\* Every complete line of the input comes out once, in order and as its
\* quotes, escapes, comments and semicolons say, or as one overflow, whatever
\* the pieces in which read() returns it (readln, _readln_copy): nothing else
\* ever does, but for the rest after the last newline, and none is missing at
\* the end of the input.
ReadsLines ==
    /\ IsPrefix(out, Expected \o Unterminated)
    /\ done /\ ~failed => IsPrefix(Expected, out)

TypeOK ==
    /\ at \in 0..Len(input)
    /\ Len(buf) <= BufSize
    /\ dropping \in BOOLEAN /\ done \in BOOLEAN /\ (failed => done)

=============================================================================
