------------------------------ MODULE Pipeline ------------------------------
(* run_line() of smolsh.c and what it calls: the stages of a line started  *)
(* one after the other, joined by pipes, the last one and then all waited  *)
(* for. Stages are given as parse_cmd() finds them (see ParseCmd).         *)
EXTENDS Naturals, Sequences, FiniteSets

CONSTANTS Lines,        \* lines that may be typed: sequences of stages
          MaxStages     \* bound: how many stages a line has

PipelineAssumption == /\ MaxStages \in Nat
                      /\ \A l \in Lines : Len(l) \in 1..MaxStages

(* A stage: what = "own", a program that ends in its own time whatever it  *)
(* reads; "cat", one that reads to the end of its input; "yes", one that   *)
(* writes until nobody reads; "echo" and "exit", builtins; "absent", a     *)
(* name that is not found or not executable; "empty", no word; "bad",      *)
(* SEP_BAD. in and out say where it is redirected: "no", "file", or        *)
(* "missing", a file that cannot be opened.                                *)

VARIABLES line,
          i,            \* the stage run_line() is at
          pc,
          prevRead,     \* prev_read: the pipe whose read end it is, or 0
          pipe,         \* pipe_fds: the pipe after this stage, or 0
          held,         \* descriptors: who holds which end of what
          proc          \* the process of each stage: none, runs, zombie

vars == <<line, i, pc, prevRead, pipe, held, proc>>

Stages == 1..MaxStages  \* and pipe k is the one after stage k
Shell == 0

End(who, end, k) == [who |-> who, end |-> end, of |-> k]
Holders(end, k) == {h.who : h \in {x \in held : x.end = end /\ x.of = k}}

Stage == line[i]
Exits == Stage.what = "exit" /\ "missing" \notin {Stage.in, Stage.out}
Sep == IF Stage.what = "bad" THEN "bad" ELSE IF i = Len(line) THEN "end" ELSE "pipe"

TypeOK ==
    /\ i \in 1..Len(line)
    /\ pc \in {"prompt", "parse", "open", "run", "wait", "close", "collect", "exited"}
    /\ prevRead \in 0..MaxStages /\ pipe \in 0..MaxStages
    /\ held \subseteq [who : 0..MaxStages, end : {"r", "w", "in", "out"}, of : 0..MaxStages]
    /\ proc \in [Stages -> {"none", "runs", "zombie"}]

Init == /\ line \in Lines
        /\ i = 1 /\ pc = "prompt" /\ prevRead = 0 /\ pipe = 0 /\ held = {}
        /\ proc = [k \in Stages |-> "none"]

-----------------------------------------------------------------------------

\* main() has read a line.
ReadLine == /\ pc = "prompt"
            /\ line' \in Lines
            /\ pc' = "parse" /\ i' = 1 /\ prevRead' = 0 /\ pipe' = 0
            /\ UNCHANGED <<held, proc>>

\* Mutant: prev_read is forgotten.
LeaveHolding == /\ pc' = "collect" /\ prevRead' = 0 /\ pipe' = 0
                /\ UNCHANGED <<line, i, held, proc>>

\* The end of run_line(): prev_read is let go of, then the waiting begins.
Leave == /\ held' = held \ {End(Shell, "r", prevRead)}
         /\ pc' = "collect"
         /\ prevRead' = 0 /\ pipe' = 0
         /\ UNCHANGED <<line, i, proc>>

\* A pipe wants a command on both sides of it.
SyntaxError == /\ pc = "parse"
               /\ \/ Sep = "bad"
                  \/ Stage.what = "empty" /\ (Sep = "pipe" \/ prevRead # 0)
               /\ Leave

Parses == /\ pc = "parse" /\ Sep # "bad"
          /\ ~(Stage.what = "empty" /\ (Sep = "pipe" \/ prevRead # 0))

MakePipe == /\ Parses /\ Sep = "pipe"
            /\ pipe' = i
            /\ held' = held \cup {End(Shell, "r", i), End(Shell, "w", i)}
            /\ pc' = "open"
            /\ UNCHANGED <<line, i, prevRead, proc>>

PipeFails == Parses /\ Sep = "pipe" /\ Leave

NoPipe == /\ Parses /\ Sep = "end"
          /\ pipe' = 0 /\ pc' = "open"
          /\ UNCHANGED <<line, i, prevRead, held, proc>>

\* open_redirects(): a file that cannot be opened leaves the ones before it
\* open, to be closed on the way out.
OpenRedirects ==
    /\ pc = "open" /\ Stage.what # "empty"
    /\ LET in == IF Stage.in = "file" THEN {End(Shell, "in", i)} ELSE {}
           out == IF Stage.out = "file" /\ Stage.in # "missing" THEN {End(Shell, "out", i)} ELSE {}
       IN held' = held \cup in \cup out
    /\ pc' = IF "missing" \in {Stage.in, Stage.out} THEN "close" ELSE "run"
    /\ UNCHANGED <<line, i, prevRead, pipe, proc>>

NoProcess == /\ pc' = "close"
             /\ UNCHANGED <<line, i, prevRead, pipe, held, proc>>

\* No word on the line: run_command() returns at once.
NothingToRun == pc = "open" /\ Stage.what = "empty" /\ NoProcess

\* A builtin takes no process. Whether exit was run (Exits) is looked at when
\* the turn of the loop ends.
Builtin == pc = "run" /\ Stage.what \in {"echo", "exit"} /\ NoProcess

\* Neither a path that can be executed nor a name in any directory of $PATH.
NotFound == pc = "run" /\ Stage.what = "absent" /\ NoProcess

IsProgram == pc = "run" /\ Stage.what \in {"own", "cat", "yes"}

\* __spawn(): the child has the descriptors dup2() gave it; the pipes are
\* close-on-exec, and it was vfork()ed while no other child was starting.
\* < and > come before the pipes.
Spawn ==
    /\ IsProgram
    /\ LET in == IF Stage.in = "file" THEN {End(i, "in", i)}
                 ELSE IF prevRead # 0 THEN {End(i, "r", prevRead)} ELSE {}
           out == IF Stage.out = "file" THEN {End(i, "out", i)}
                  ELSE IF pipe # 0 THEN {End(i, "w", pipe)} ELSE {}
       IN held' = held \cup in \cup out
    /\ proc' = [proc EXCEPT ![i] = "runs"]
    /\ pc' = IF Sep = "pipe" THEN "close" ELSE "wait"
    /\ UNCHANGED <<line, i, prevRead, pipe>>

SpawnFails == IsProgram /\ NoProcess

\* spawn_and_wait_redirect(): waitpid() for this child only, again if interrupted.
WaitForIt == /\ pc = "wait" /\ proc[i] = "zombie"
             /\ proc' = [proc EXCEPT ![i] = "none"]
             /\ pc' = "close"
             /\ UNCHANGED <<line, i, prevRead, pipe, held>>

\* Mutant: the write end of the pipe stays open.
DoneWithLess == {End(Shell, "in", i), End(Shell, "out", i), End(Shell, "r", prevRead)}

DoneWith == {End(Shell, "in", i), End(Shell, "out", i),
             End(Shell, "r", prevRead), End(Shell, "w", pipe)}

\* run_command() closes what it opened, run_line() the ends it is done with;
\* then the next stage, the end of the line, or exit.
CloseEnds ==
    /\ pc = "close"
    /\ LET rest == held \ DoneWith
       IN IF Sep = "pipe" /\ ~Exits
          THEN /\ held' = rest
               /\ i' = i + 1 /\ pc' = "parse" /\ prevRead' = pipe /\ pipe' = 0
          ELSE /\ held' = rest \ {End(Shell, "r", pipe)}
               /\ i' = i /\ pc' = "collect" /\ prevRead' = 0 /\ pipe' = 0
    /\ UNCHANGED <<line, proc>>

\* piped: a stage was done with that had a pipe after it. Without one there is
\* no child left to wait for.
Piped == i > 1 \/ (Exits /\ Sep = "pipe")

CollectOne == /\ pc = "collect" /\ Piped
              /\ \E k \in Stages : /\ proc[k] = "zombie"
                                   /\ proc' = [proc EXCEPT ![k] = "none"]
              /\ UNCHANGED <<line, i, pc, prevRead, pipe, held>>

\* ECHILD, or nothing was piped: back to main()'s loop.
BackToPrompt == /\ pc = "collect"
                /\ Piped => \A k \in Stages : proc[k] = "none"
                /\ pc' = IF Exits THEN "exited" ELSE "prompt"
                /\ UNCHANGED <<line, i, prevRead, pipe, held, proc>>

-----------------------------------------------------------------------------

\* What is at the other side of a program's input and output.
InPipe(k) == {h.of : h \in {x \in held : x.who = k /\ x.end = "r"}}
OutPipe(k) == {h.of : h \in {x \in held : x.who = k /\ x.end = "w"}}
AtEndOfInput(k) == \A q \in InPipe(k) : Holders("w", q) = {}
NobodyReads(k) == \E q \in OutPipe(k) : Holders("r", q) = {}

\* A program ends, and with it its hold on every descriptor.
Ends(k) == /\ proc[k] = "runs"
           /\ proc' = [proc EXCEPT ![k] = "zombie"]
           /\ held' = {h \in held : h.who # k}
           /\ UNCHANGED <<line, i, pc, prevRead, pipe>>

\* cat: at the end of its input, or by SIGPIPE. yes into a pipe: by SIGPIPE.
Finishes(k) ==
    /\ k \in DOMAIN line
    /\ CASE line[k].what = "cat" -> AtEndOfInput(k) \/ NobodyReads(k)
         [] line[k].what = "yes" -> OutPipe(k) = {} \/ NobodyReads(k)
         [] OTHER -> TRUE
    /\ Ends(k)

\* Ctrl-C: the programs die of it, the shell has a handler that does nothing.
CtrlC == /\ \E k \in Stages : proc[k] = "runs"
         /\ proc' = [k \in Stages |-> IF proc[k] = "runs" THEN "zombie" ELSE proc[k]]
         /\ held' = {h \in held : h.who = Shell}
         /\ UNCHANGED <<line, i, pc, prevRead, pipe>>

ShellStep == \/ SyntaxError \/ MakePipe \/ PipeFails \/ NoPipe \/ OpenRedirects \/ NothingToRun
             \/ Builtin \/ NotFound \/ Spawn \/ SpawnFails \/ WaitForIt \/ CloseEnds
             \/ CollectOne \/ BackToPrompt
Next == ReadLine \/ ShellStep \/ CtrlC \/ \E k \in Stages : Finishes(k)

\* The shell is scheduled, and so are the programs, while the input and output
\* of a stage let it go on; nobody has to type anything.
Fairness == WF_vars(ShellStep) /\ \A k \in Stages : WF_vars(Finishes(k))

Spec == Init /\ [][Next]_vars /\ Fairness

-----------------------------------------------------------------------------

\* Back at the prompt the shell holds no end of a pipe, no redirected file and
\* no child that it would have to wait for, whatever stage of the line failed
\* (run_line, run_command).
NothingHeld ==
    pc \in {"prompt", "exited"} => held = {} /\ \A k \in Stages : proc[k] = "none"

\* A line whose programs end when their input does, or when nobody reads what
\* they write, comes back to the prompt: the shell does not keep an end of a
\* pipe that a stage, or the shell itself, then waits on ("Let go of both ends
\* or the reader never sees the end of the input").
PromptAgain == pc = "parse" ~> pc \in {"prompt", "exited"}

=============================================================================
