------------------------------ MODULE ParseCmd ------------------------------
(* parse_cmd() of smolsh.c: one command after the other is picked out of a *)
(* line that is overwritten in place while it is still being read. A word  *)
(* is a pointer into it, and ends at the next NUL.                         *)
EXTENDS Integers, Sequences, SequencesExt, Quoting

CONSTANTS MaxTokens,    \* MAX_TOKENS
          Lines         \* what readln_shell() may have returned

ParseAssumption == MaxTokens \in Nat

VARIABLES line,         \* the line as it was typed
          mem,          \* the buffer it was read into, NUL included
          p,            \* how far it has been read
          cur,          \* locals of the word: word and out (0 is NULL), want_path
          cmd,          \* the command so far
          cmds,         \* commands returned, with what ended each
          pc

vars == <<line, mem, p, cur, cmd, cmds, pc>>

NUL == "0"
Special == {"<", ">", "|"}
None == -1

NoCmd == [argv |-> <<>>, redir |-> [i \in 0..2 |-> 0], append |-> [i \in 0..2 |-> FALSE]]
Fresh == [word |-> 0, out |-> 0, want |-> None]

Init == /\ line \in Lines
        /\ mem = Append(line, NUL)
        /\ p = 1 /\ cur = Fresh /\ cmd = NoCmd /\ cmds = <<>> /\ pc = "spaces"

\* parse_cmd() returns: SEP_PIPE means that run_line() calls it again.
Return(sep, c, at) ==
    /\ cmds' = Append(cmds, [sep |-> sep, cmd |-> c])
    /\ cmd' = NoCmd
    /\ cur' = Fresh
    /\ p' = at
    /\ pc' = IF sep = "pipe" THEN "spaces" ELSE "done"

SkipSpace == /\ pc = "spaces" /\ mem[p] = " "
             /\ p' = p + 1
             /\ UNCHANGED <<line, mem, cur, cmd, cmds, pc>>

\* A < or > with nothing after it isn't a command.
EndOfLine == /\ pc = "spaces" /\ mem[p] = NUL
             /\ Return(IF cur.want = None THEN "end" ELSE "bad", cmd, p)
             /\ UNCHANGED <<line, mem>>

StartWord == /\ pc = "spaces" /\ mem[p] \notin {" ", NUL}
             /\ IF mem[p] \in Special
                THEN pc' = "op" /\ cur' = [cur EXCEPT !.word = 0, !.out = 0]
                ELSE pc' = "word" /\ cur' = [cur EXCEPT !.word = p, !.out = p]
             /\ UNCHANGED <<line, mem, p, cmd, cmds>>

\* *out++ = c, with the reading position moved to q.
Put(c, q) == /\ mem' = [mem EXCEPT ![cur.out] = c]
             /\ cur' = [cur EXCEPT !.out = @ + 1]
             /\ p' = q
             /\ UNCHANGED <<line, cmd, cmds>>

\* A \ makes whatever is next just a character.
Escape == /\ pc = "word" /\ mem[p] = "\\"
          /\ IF mem[p + 1] = NUL
             THEN Return("bad", cmd, p) /\ UNCHANGED <<line, mem>>
             ELSE Put(mem[p + 1], p + 2) /\ pc' = pc

OpenQuote == /\ pc = "word" /\ mem[p] = "\""
             /\ pc' = "quote" /\ p' = p + 1
             /\ UNCHANGED <<line, mem, cur, cmd, cmds>>

\* Inside quotes: a character, the closing quote, or the end of the line.
InQuote == /\ pc = "quote"
           /\ \/ /\ mem[p] \notin {"\"", NUL}
                 /\ Put(mem[p], p + 1) /\ pc' = pc
              \/ /\ mem[p] = "\""
                 /\ pc' = "word" /\ p' = p + 1
                 /\ UNCHANGED <<line, mem, cur, cmd, cmds>>
              \/ /\ mem[p] = NUL
                 /\ Return("bad", cmd, p) /\ UNCHANGED <<line, mem>>

\* An ordinary character; a $ is refused.
Character == /\ pc = "word" /\ mem[p] \notin {"\\", "\"", " ", NUL} \cup Special
             /\ IF mem[p] = "$"
                THEN Return("bad", cmd, p) /\ UNCHANGED <<line, mem>>
                ELSE Put(mem[p], p + 1) /\ pc' = pc

StopWord == /\ pc = "word" /\ mem[p] \in {" ", NUL} \cup Special
            /\ pc' = "op"
            /\ UNCHANGED <<line, mem, p, cur, cmd, cmds>>

\* A word as a C string: what stands there now, up to the next NUL.
CString(m, w) ==
    LET end == CHOOSE i \in w..Len(m) : m[i] = NUL /\ \A j \in w..(i - 1) : m[j] # NUL
    IN SubSeq(m, w, end - 1)

Terminated == IF cur.out = 0 THEN mem ELSE [mem EXCEPT ![cur.out] = NUL]

\* Mutant: what stopped the word is looked at when the word is terminated.
StoppedByLate == IF Terminated[p] \in Special THEN Terminated[p] ELSE NUL

StoppedBy == IF mem[p] \in Special THEN mem[p] ELSE NUL

\* Whatever stopped the word is read, then the word is terminated, which
\* lands on top of it; then word and operator are made use of.
TakeWord ==
    /\ pc = "op"
    /\ LET op == StoppedBy
           append == op = ">" /\ mem[p + 1] = ">"
           q == p + (IF mem[p] = NUL THEN 0 ELSE IF append THEN 2 ELSE 1)
           m == Terminated
           toStderr == cur.word # 0 /\ op = ">" /\ CString(m, cur.word) = <<"2">>
           word == IF toStderr THEN 0 ELSE cur.word
           c == IF word = 0 THEN cmd
                ELSE IF cur.want # None THEN [cmd EXCEPT !.redir[cur.want] = word]
                ELSE [cmd EXCEPT !.argv = Append(@, word)]
           bad == \/ word # 0 /\ cur.want = None /\ Len(cmd.argv) >= MaxTokens
                  \/ word = 0 /\ cur.want # None
           want == CASE op = "<" -> 0
                     [] op = ">" -> (IF toStderr THEN 2 ELSE 1)
                     [] OTHER -> IF word # 0 THEN None ELSE cur.want
       IN /\ mem' = m
          /\ IF bad THEN Return("bad", cmd, p)
             ELSE IF op = "|" THEN Return("pipe", c, q)
             ELSE /\ cmd' = IF op = ">" THEN [c EXCEPT !.append[want] = append] ELSE c
                  /\ cur' = [word |-> 0, out |-> 0, want |-> want]
                  /\ p' = q /\ pc' = "spaces" /\ cmds' = cmds
    /\ line' = line

Next == \/ SkipSpace \/ EndOfLine \/ StartWord \/ Escape \/ OpenQuote
        \/ InQuote \/ Character \/ StopWord \/ TakeWord

-----------------------------------------------------------------------------

\* The second > of a pair belongs to the first.
Second(ops) ==
    LET s[i \in 0..Len(line)] ==
          i > 1 /\ {i - 1, i} \subseteq ops /\ line[i] = ">" /\ line[i - 1] = ">" /\ ~s[i - 1]
    IN {i \in ops : s[i]}

\* Where the word that begins at i ends, and what it spells.
WordEnd(text, i) == CHOOSE j \in i..Len(line) : i..j \subseteq text /\ j + 1 \notin text
Spelt(text, i) == Without(line, i, WordEnd(text, i), Marks(line))

\* The operators, and the words that are not the 2 of a 2>, by their positions:
\* for each the descriptor it redirects, or None and its text.
TokenAt(i, ops, second, text) ==
    IF i \in text THEN [fd |-> None, text |-> Spelt(text, i), append |-> FALSE]
    ELSE [fd |-> CASE line[i] = "<" -> 0
                   [] \E j \in text : j - 1 \notin text /\ WordEnd(text, j) = i - 1
                                     /\ Spelt(text, j) = <<"2">> -> 2
                   [] OTHER -> 1,
          text |-> <<>>, append |-> i + 1 \in second]

IsTwo(i, ops, text) ==
    LET next == WordEnd(text, i) + 1
    IN next \in ops /\ line[next] = ">" /\ Spelt(text, i) = <<"2">>

TokensOf(ops, second, text) ==
    LET first == {i \in text : i - 1 \notin text /\ ~IsTwo(i, ops, text)}
        at == Ascending(first \cup (ops \ second), Len(line))
    IN [k \in DOMAIN at |-> TokenAt(at[k], ops, second, text)]

\* The words and redirections between positions a and b, in order.
Tokens(a, b) ==
    LET ops == Active(line, {"<", ">"}) \cap a..b
    IN TokensOf(ops, Second(ops), (a..b) \ (ops \cup Active(line, {" "})))

\* The command those tokens make, if every redirection has its word.
CommandOf(t) ==
    LET args == {k \in DOMAIN t : t[k].fd = None /\ ~(k > 1 /\ t[k - 1].fd # None)}
        order == Ascending(args, Len(t))
        latest(fd) == SelectLastInSeq(t, LAMBDA x : x.fd = fd)
        target(k) == IF k = 0 THEN <<>> ELSE <<t[k + 1].text, t[k].append>>
    IN IF \/ Len(order) > MaxTokens
          \/ \E k \in DOMAIN t : t[k].fd # None /\ (k = Len(t) \/ t[k + 1].fd # None)
       THEN [ok |-> FALSE]
       ELSE [ok |-> TRUE,
             argv |-> [k \in DOMAIN order |-> t[order[k]].text],
             redir |-> [fd \in 0..2 |-> target(latest(fd))]]

Reads(a, b) ==
    IF Active(line, {"$"}) \cap a..b # {} \/ Unfinished(SubSeq(line, a, b))
    THEN [ok |-> FALSE]
    ELSE CommandOf(Tokens(a, b))

\* A returned command as its words stand in the buffer now.
Written(c) ==
    IF c.sep = "bad" THEN [ok |-> FALSE]
    ELSE [ok |-> TRUE,
          argv |-> [k \in DOMAIN c.cmd.argv |-> CString(mem, c.cmd.argv[k])],
          redir |-> [fd \in 0..2 |-> IF c.cmd.redir[fd] = 0 THEN <<>>
                                     ELSE <<CString(mem, c.cmd.redir[fd]), c.cmd.append[fd]>>]]

SameAs(parts) ==
    /\ \A k \in DOMAIN cmds : k <= Len(parts) /\ Written(cmds[k]) = Reads(parts[k][1], parts[k][2])
    /\ pc = "done" => cmds[Len(cmds)].sep = "bad" \/ Len(cmds) = Len(parts)

\* The commands of a line are those its quotes, escapes, spaces, redirections
\* and pipes spell out, up to the first that makes no sense; and the words of
\* each stay what they are while the rest of the buffer is chopped up
\* (parse_cmd: "overwritten in place to make things extra confusing").
WordsAsWritten == SameAs(Pieces(line, Active(line, {"|"})))

TypeOK ==
    /\ mem \in Seq(ToSet(line) \cup {NUL})
    /\ p \in DOMAIN mem /\ cur.out \in 0..p /\ cur.want \in {None, 0, 1, 2}

=============================================================================
