----------------------------- MODULE SmoldProps -----------------------------
(* What init promises: the properties of Smold that TLC checks on small    *)
(* instances and SmoldProofs proves.                                       *)
EXTENDS Smold

Pcs == {"startup", "gettys", "minions", "check", "grace", "kill", "reboot", "down",
        "begin", "scan", "unlink", "run", "armed", "wait", "sleep", "home", "minion",
        "exited", "bootfail"}

File == [st : {"none", "partial", "full"}, when : Nat]
Ask  == [st : {"no", "open", "unlinked", "done"}, when : Nat]

\* Every variable stays within its type.
TypeOK ==
  /\ pc \in Pcs
  /\ todo \in SUBSET (Gettys \cup Minions \cup Jobs)
  /\ job \in Jobs \cup {NoJob} /\ (pc \in {"unlink", "run"} => job \in Jobs)
  /\ scan_now \in Nat /\ next \in Nat /\ until \in Nat
  /\ home \in [pid : Pids \cup {NoPid}, status : Statuses]
  /\ cmd \in Cmds \cup {"none"} /\ shutdown_cmd \in Cmds \cup {"none"}
  /\ wake \in Nat /\ alarm \in Nat
  /\ telnetd_port \in BOOLEAN
  /\ telnetd_pid \in Pids \cup {NoPid}
  /\ getty_pid \in [Gettys -> Pids \cup {NoPid}]
  /\ minion_pid \in [Minions -> Pids \cup {NoPid}]
  /\ started \in [Minions -> Nat]
  /\ proc \in [Pids -> {"free", "run"} \cup Statuses]
  /\ owner \in [Pids -> Owners]
  /\ ask \in [Pids \cup ByHand -> Ask]
  /\ later \in [Jobs -> File]
  /\ now \in Nat
  /\ down \in [Slots -> {"boot", "up", "failed", "gaveup", "insta"}]
  /\ dropped \in SUBSET Jobs
  /\ again \in SUBSET Pids

Is(p, who) == proc[p] # "free" /\ owner[p] = who

Alive(who) == \E p \in Pids : Is(p, who)

PidOf(s) == IF s \in Gettys THEN getty_pid[s]
            ELSE IF s \in Minions THEN minion_pid[s] ELSE telnetd_pid

\* Never two gettys on one tty, two telnetds or two copies of a minion, however
\* spawns fail and pids come round again.
OneEach == \A s \in Slots : \A p, q \in Pids : Is(p, s) /\ Is(q, s) => p = q

\* The child just reaped is about to be found in slot s.
Handling(s) == \/ pc = "home" /\ home.pid = PidOf(s)
               \/ pc = "minion" /\ s \in Minions /\ home.pid = PidOf(s)

\* Unless its last spawn failed, telnetd gave up or a minion died at once,
\* whatever init started is there, or being replaced at this moment: only a pid
\* that was handed out while another slot remembered it can be taken for that
\* slot's, and the process that has it go unreplaced.
Supervised ==
  \A s \in Slots : down[s] = "up" /\ PidOf(s) \notin again => Alive(s) \/ Handling(s)

\* A telnetd that gave up is not started again, whatever comes home, until the
\* very pid it had has been handed to another process.
LeftAloneTillReuse ==
  [][down[Telnetd] = "gaveup" /\ telnetd_pid \notin again =>
       down'[Telnetd] = "gaveup"]_vars

\* init says of a telnetd that gave up that it leaves it alone: it is never
\* started again.
LeftAlone == [][down[Telnetd] = "gaveup" => down'[Telnetd] = "gaveup"]_vars

\* The program of j still runs, or is not yet reaped, and has left its job:
\* its end will bring init round its loop once more.
WillWake(j) == \E p \in Pids : Is(p, j) /\ ask[p].st = "done"

Scanned == {"scan", "unlink", "run", "armed", "wait", "exited"}

\* A job init has gone past is one it will wake up for, or one whose asker will
\* still wake it: the file cannot appear behind init's back.
NoJobOverlooked ==
  \A j \in Jobs \ ByHand :
    pc \in Scanned /\ later[j].st = "full" /\ j \notin todo
      /\ ~(pc = "unlink" /\ j = job) =>
      \/ next # 0 /\ next <= later[j].when
      \/ WillWake(j)

\* When init returns, no job is waiting to be run: not from its loop, and before
\* that only when a getty could not be started at boot, with the jobs that the
\* programs startup left running have asked for.
NoJobLeftBehind ==
  pc \in {"exited", "bootfail"} /\ (\E j \in Jobs \ ByHand : later[j].st = "full") =>
    /\ pc = "bootfail"
    /\ \E g \in Gettys : down[g] = "failed"
    /\ \A s \in Minions \cup {Telnetd} : down[s] = "boot"

\* Who will see to it that job j is run again: its program before it asks, its
\* file, or init between removing the file and starting the program.
Holders(j) ==
  {p \in Pids : Unasked(p) /\ owner[p] = j}
    \cup {h \in {j} : later[j].st = "full"}
    \cup {h \in {NoJob} : pc = "run" /\ job = j}

\* A renewal is neither lost nor doubled: there is one holder of it until a
\* spawn fails or the program ends without asking, and none from then on.
OneRenewal ==
  \A j \in Jobs \ ByHand : IF j \in dropped THEN Holders(j) = {}
                           ELSE \E h \in Holders(j) : Holders(j) = {h}

\* init removes a job only once it is due, and nobody else does: what it
\* removes is what it read.
RemovedWhenDue ==
  [][\A j \in Jobs \ ByHand :
       later[j].st = "full" /\ later'[j].st # "full" =>
         later[j].when <= now /\ pc' = "run"]_vars

Running(who) == \E p \in Pids : proc[p] = "run" /\ owner[p] = who

\* A job that was left is run, or at least taken, as long as there is an init.
JobTaken == \A j \in Jobs \ ByHand : later[j].st = "full" ~> later[j].st # "full" \/ Stopped

\* A getty that ended comes back, unless the machine has no process to spare.
GettyBack == \A g \in Gettys : down[g] = "up" ~> Running(g) \/ down[g] = "failed" \/ Stopped

\* The shutdown names "just poke init and let it do the work": init does it.
ShutdownObeyed == (shutdown_cmd # "none") ~> (shutdown_cmd = "none" \/ Stopped)

=============================================================================
