-------------------------------- MODULE Tools --------------------------------
(* The programs that run once, and the two halves of the shell's reading:  *)
(* one specification for all of them. They share nothing, so a behaviour   *)
(* is one of one of them.                                                  *)
EXTENDS HostTools, DeviceTools

CONSTANTS Typed, BufSize, MaxLine,                          \* readln_shell()
          CmdLines, MaxTokens                               \* parse_cmd()

D == INSTANCE Readln WITH
        Inputs <- Typed,
        input <- s1, buf <- s2, dropping <- s3, done <- s4, at <- s5, out <- s6, failed <- s7

W == INSTANCE ParseCmd WITH
        Lines <- CmdLines,
        pc <- s1, line <- s2, mem <- s3, p <- s4, cur <- s5, cmd <- s6, cmds <- s7

ASSUME ToolsAssumption == D!ReadlnAssumption /\ W!ParseAssumption

-----------------------------------------------------------------------------

Init == \/ tool = "readln" /\ D!Init /\ From8
        \/ tool = "parse" /\ W!Init /\ From8
        \/ tool = "line" /\ L!Init /\ From8
        \/ tool = "blkwak" /\ B!Init /\ From7
        \/ tool = "mtd" /\ M!Init /\ From9
        \/ tool = "resolv" /\ R!Init /\ From12
        \/ tool = "ping" /\ P!Init /\ From9
        \/ tool = "sntp" /\ Ntp!Init /\ From9
        \/ tool = "clock" /\ C!Init /\ From11
        \/ tool = "files" /\ F!Init /\ From12
        \/ tool = "keeper" /\ K!Init /\ From7
        \/ tool = "login" /\ G!Init

Next == /\ tool' = tool
        /\ \/ tool = "readln" /\ D!Next /\ Rest8
           \/ tool = "parse" /\ W!Next /\ Rest8
           \/ tool = "line" /\ L!Next /\ Rest8
           \/ tool = "blkwak" /\ B!Next /\ Rest7
           \/ tool = "mtd" /\ M!Next /\ Rest9
           \/ tool = "resolv" /\ R!Next /\ Rest12
           \/ tool = "ping" /\ P!Next /\ Rest9
           \/ tool = "sntp" /\ Ntp!Next /\ Rest9
           \/ tool = "clock" /\ C!Next /\ Rest11
           \/ tool = "files" /\ F!Next /\ Rest12
           \/ tool = "keeper" /\ K!Next /\ Rest7
           \/ tool = "login" /\ G!Next

\* The fairness of Pipeline, Resolv and Ping. Only one of them is in a behaviour,
\* so that one condition can stand for one of each.
Step == /\ tool' = tool
        /\ \/ tool = "line" /\ L!ShellStep /\ Rest8
           \/ tool = "resolv" /\ R!ResolvStep /\ Rest12
           \/ tool = "ping" /\ P!PingStep /\ Rest9
World(k) == /\ tool' = tool
            /\ \/ tool = "line" /\ L!Finishes(k) /\ Rest8
               \/ tool = "resolv" /\ k = 1 /\ R!Tick /\ Rest12
               \/ tool = "ping" /\ k = 1 /\ P!Tick /\ Rest9
Fairness == WF_vars(Step) /\ \A k \in 1..MaxStages : WF_vars(World(k))

Spec == Init /\ [][Next]_vars /\ Fairness

-----------------------------------------------------------------------------
(* Each property is the one of that name in the tool's own module.          *)

\* Every variable of every tool keeps its type, and no buffer overflows.
TypeOK ==
    /\ tool = "readln" => D!TypeOK
    /\ tool = "parse" => W!TypeOK
    /\ tool = "line" => L!TypeOK
    /\ tool = "blkwak" => B!TypeOK
    /\ tool = "mtd" => M!TypeOK
    /\ tool = "resolv" => R!TypeOK
    /\ tool = "ping" => P!TypeOK
    /\ tool = "sntp" => Ntp!TypeOK
    /\ tool = "clock" => C!TypeOK
    /\ tool = "files" => F!TypeOK
    /\ tool = "keeper" => K!TypeOK
    /\ tool = "login" => G!TypeOK

\* Every line comes out of readln_shell() once, in order, as it was meant.
ReadsLines == tool = "readln" => D!ReadsLines

\* parse_cmd() finds the commands a line spells out and does not spoil them.
WordsAsWritten == tool = "parse" => W!WordsAsWritten

\* Back at its prompt smolsh holds no pipe, no file and no child.
NothingHeld == tool = "line" => L!NothingHeld

\* A line whose stages can end brings smolsh back to its prompt.
PromptAgain == (tool = "line" /\ s1 = "parse") ~> (tool = "line" => s1 \in {"prompt", "exited"})

\* When blkwak reports success, image and device say the same.
ImageAndDevice == tool = "blkwak" => B!ImageAndDevice

\* When a flash tool reports success, the flash is as it was asked to be.
FlashAsAsked == tool = "mtd" => M!FlashAsAsked

\* The tools for NAND leave bad blocks alone.
BadLeftAlone == tool = "mtd" => M!BadLeftAlone

\* What resolv and ping report was said in answer to what they asked.
OwnAnswer == /\ tool = "resolv" => R!OwnAnswer
             /\ tool = "ping" => P!EachReplyOnce

\* However many packets keep coming, resolv and ping end.
WaitsEnd ==
    (<<tool, s1>> \in {<<"resolv", "connect">>, <<"ping", "send">>})
        ~> (tool \in {"resolv", "ping"} => s1 = "done")

\* No clock is set to another time than the one it was to be set to, and the
\* alarm that wakes the machine is for the second asked for.
ClocksRight == /\ tool = "clock" => C!ClocksAgree /\ C!AlarmAsAsked /\ C!SleepsWithAlarm
               /\ tool = "sntp" => Ntp!TimeMeant

\* cp, mv, cat and touch lose nothing, wherever they fail.
NothingLost == tool = "files" => F!NothingLost

\* keeper -r leaves alone what init keeps.
KeptLeftAlone == tool = "keeper" => K!KeptLeftAlone

\* Nothing stays on the seat after a login that ended by itself.
HardwareGoes == tool = "login" => G!HardwareGoes

=============================================================================
