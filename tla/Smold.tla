------------------------------- MODULE Smold -------------------------------
(***************************************************************************)
(* init (smold.c): it starts the gettys, telnetd and the minions, then     *)
(* loops: shut the machine down when a signal asked for it, run the jobs   *)
(* of LATER_DIR that are due, arm an alarm for the next one, wait() for a  *)
(* child and start again whatever the child was.                           *)
(*                                                                         *)
(* The other actors are the kernel (process table, clock, signals), the    *)
(* children, and the processes that leave a job for later (later.h).       *)
(***************************************************************************)
EXTENDS Naturals

CONSTANTS
  Gettys,      \* used entries of gettys[], as array indices
  Minions,     \* used entries of minions[], as array indices
  Telnetd,     \* the slot of the one telnetd
  WantTelnetd, \* does the command line ask for it?
  Jobs,        \* names of files LATER_DIR may hold
  Pids,        \* pids the kernel hands out
  NoPid,       \* a pid_t no child has: 0 or -1
  NoJob,
  Orphan,      \* a process init adopted and knows nothing of
  Cmds,        \* what the shutdown names may ask for: halt, poweroff, reboot
  ByHand,      \* jobs whose program is also run by hand, from a shell
  StaleReuse,  \* bound: may the kernel hand out a pid that init still remembers?
  Races,       \* may time pass and signals land between init's own steps?
  MaxAsk,      \* bound: the longest delay a job is asked for
  MaxTime      \* bound: the clock stops here

ASSUME SlotsAssumption ==
  /\ Gettys \subseteq Nat /\ Minions \subseteq Nat
  /\ Gettys \cap Minions = {}
  /\ Telnetd \notin Gettys \cup Minions
  /\ Jobs \cap (Gettys \cup Minions \cup {Telnetd}) = {}
  /\ Orphan \notin Gettys \cup Minions \cup {Telnetd} \cup Jobs

ASSUME IdleAssumption == NoPid \notin Pids /\ NoJob \notin Jobs \cup Pids /\ Pids \cap Jobs = {}

ASSUME EnvironmentAssumption ==
  /\ ByHand \subseteq Jobs
  /\ "none" \notin Cmds
  /\ WantTelnetd \in BOOLEAN /\ StaleReuse \in BOOLEAN /\ Races \in BOOLEAN
  /\ MaxAsk \in Nat /\ MaxTime \in Nat

VARIABLES
  pc,            \* where init is
  todo,          \* entries the current loop of init has still to visit
  job,           \* run_if_due: the name of the job just read
  scan_now,      \* due_state.now
  next,          \* due_state.next, 0 without have_next (a kept when is never 0)
  until,         \* seconds to the next job, 0 for none
  home,          \* what wait() returned, [pid, status]
  cmd,           \* do_shutdown's argument
  wake,          \* when the sleep() init is in ends
  shutdown_cmd,
  alarm,         \* when SIGALRM is due, 0 when no alarm is set
  telnetd_port,  \* is telnetd wanted?
  telnetd_pid, getty_pid, minion_pid, started,
  proc,          \* per pid: free, running, or how it exited while unreaped
  owner,         \* what the process really is
  ask,           \* how far an asker is in later_ask(), [st, when]
  later,         \* per job name its file, [st, when]
  now,           \* CLOCK_MONOTONIC, in seconds
  down,          \* history: why a slot's last process was not replaced
  again,         \* history: the pids init remembers that were handed out once more
  dropped        \* history: jobs nobody will ask for again

scanVars  == <<job, scan_now, next, until>>
sigVars   == <<shutdown_cmd, cmd, wake, alarm>>
tableVars == <<telnetd_port, telnetd_pid, getty_pid, minion_pid, started, down>>
procVars  == <<proc, owner, ask, again>>
jobVars   == <<later, dropped>>
vars == <<pc, todo, scanVars, home, sigVars, tableVars, procVars, jobVars, now>>

Slots    == Gettys \cup Minions \cup {Telnetd}
Owners   == Slots \cup Jobs \cup {Orphan}
Statuses == {"ok", "fail", "sig"}   \* WEXITSTATUS 0, non-zero, WIFSIGNALED
NoFile   == [st |-> "none", when |-> 0]
Nobody   == [pid |-> NoPid, status |-> "ok"]
NotAsked == [st |-> "no", when |-> 0]

Zombie(p) == proc[p] \in Statuses
NoKids    == \A p \in Pids : proc[p] = "free"
Stopped   == pc \in {"down", "exited", "bootfail"}

-----------------------------------------------------------------------------
(* Processes. A process of init's is a pid; one run by hand from a shell is *)
(* the shell's child, and named by the job it may ask for.                  *)

Remembered == {telnetd_pid} \cup {getty_pid[g] : g \in Gettys}
                            \cup {minion_pid[m] : m \in Minions}

\* __spawn(): a free pid now runs `who`. execve() failing is the child
\* exiting with a failure, which Exit allows at once.
Spawned(p, who) ==
  /\ proc[p] = "free"
  /\ StaleReuse \/ p \notin Remembered
  /\ proc' = [proc EXCEPT ![p] = "run"]
  /\ owner' = [owner EXCEPT ![p] = who]
  /\ ask' = [ask EXCEPT ![p] = NotAsked]
  /\ again' = (again \cup {p}) \cap Remembered

SpawnFailed == UNCHANGED procVars

\* The pid of a reaped process is free again.
Released(p) == /\ proc' = [proc EXCEPT ![p] = "free"]
               /\ owner' = [owner EXCEPT ![p] = Orphan]
               /\ ask' = [ask EXCEPT ![p] = NotAsked]
               /\ UNCHANGED again

\* Mutant: the pid of a getty started again is not kept.
SpawnGettyUnrecorded(g) ==
  /\ \/ \E p \in Pids : Spawned(p, g) /\ down' = [down EXCEPT ![g] = "up"]
     \/ SpawnFailed /\ down' = [down EXCEPT ![g] = "failed"]
  /\ UNCHANGED getty_pid

SpawnGetty(g) ==
  \/ \E p \in Pids : /\ Spawned(p, g)
                     /\ getty_pid' = [getty_pid EXCEPT ![g] = p]
                     /\ down' = [down EXCEPT ![g] = "up"]
  \/ /\ SpawnFailed
     /\ down' = [down EXCEPT ![g] = "failed"]
     /\ UNCHANGED getty_pid

SpawnTelnetd ==
  \/ \E p \in Pids : /\ Spawned(p, Telnetd)
                     /\ telnetd_pid' = p
                     /\ down' = [down EXCEPT ![Telnetd] = "up"]
  \/ /\ SpawnFailed
     /\ telnetd_pid' = NoPid
     /\ down' = [down EXCEPT ![Telnetd] = "failed"]

SpawnMinion(m) ==
  \/ \E p \in Pids : /\ Spawned(p, m)
                     /\ minion_pid' = [minion_pid EXCEPT ![m] = p]
                     /\ started' = [started EXCEPT ![m] = now]
                     /\ down' = [down EXCEPT ![m] = "up"]
  \/ /\ SpawnFailed
     /\ minion_pid' = [minion_pid EXCEPT ![m] = NoPid]
     /\ down' = [down EXCEPT ![m] = "failed"]
     /\ UNCHANGED started

-----------------------------------------------------------------------------
(* prog_init up to its loop *)

First(S) == {x \in S : \A y \in S : x <= y}

StartupDone ==
  /\ pc = "startup"
  /\ pc' = "gettys" /\ todo' = Gettys
  /\ UNCHANGED <<scanVars, home, sigVars, tableVars, procVars, jobVars, now>>

BootGetty(g) ==
  /\ pc = "gettys" /\ g \in First(todo)
  /\ SpawnGetty(g)
  /\ todo' = todo \ {g}
  /\ pc' = IF down'[g] = "failed" THEN "bootfail" ELSE "gettys"
  /\ UNCHANGED <<scanVars, home, sigVars, telnetd_port, telnetd_pid, minion_pid,
                 started, jobVars, now>>

\* No securetty, no telnet.
BootTelnetd ==
  /\ pc = "gettys" /\ todo = {}
  /\ pc' = "minions" /\ todo' = Minions
  /\ \/ telnetd_port /\ SpawnTelnetd /\ UNCHANGED telnetd_port
     \/ telnetd_port' = FALSE /\ UNCHANGED <<telnetd_pid, down, procVars>>
  /\ UNCHANGED <<scanVars, home, sigVars, getty_pid, minion_pid, started, jobVars,
                 now>>

BootMinion(m) ==
  /\ pc = "minions" /\ m \in First(todo)
  /\ SpawnMinion(m)
  /\ todo' = todo \ {m}
  /\ UNCHANGED <<pc, scanVars, home, sigVars, telnetd_port, telnetd_pid, getty_pid,
                 jobVars, now>>

BootDone ==
  /\ pc = "minions" /\ todo = {}
  /\ pc' = "check"
  /\ UNCHANGED <<todo, scanVars, home, sigVars, tableVars, procVars, jobVars, now>>

-----------------------------------------------------------------------------
(* do_shutdown *)

SHUTDOWN_GRACE == 2

\* The clock stops at MaxTime, and so a timer that would end later ends there.
Expired(t) == now >= t \/ now = MaxTime

NothingAsked ==
  /\ pc = "check" /\ shutdown_cmd = "none"
  /\ pc' = "begin"
  /\ UNCHANGED <<todo, scanVars, home, sigVars, tableVars, procVars, jobVars, now>>

\* kill(-1, SIGTERM): what it does to a process is up to the process, Exit.
Terminate ==
  /\ pc = "check" /\ shutdown_cmd # "none"
  /\ pc' = "grace" /\ cmd' = shutdown_cmd /\ wake' = now + SHUTDOWN_GRACE
  /\ UNCHANGED <<todo, scanVars, home, shutdown_cmd, alarm, tableVars, procVars,
                 jobVars, now>>

GraceOver ==
  /\ pc = "grace" /\ Expired(wake)
  /\ pc' = "kill" /\ wake' = 0
  /\ UNCHANGED <<todo, scanVars, home, shutdown_cmd, cmd, alarm, tableVars,
                 procVars, jobVars, now>>

\* Running processes of jobs that have not yet asked to be run again.
Unasked(p) == proc[p] = "run" /\ owner[p] \in Jobs /\ ask[p].st \in {"no", "open"}

KillAll ==
  /\ pc = "kill"
  /\ pc' = "reboot"
  /\ proc' = [p \in Pids |-> IF proc[p] = "run" THEN "sig" ELSE proc[p]]
  /\ dropped' = dropped \cup {owner[p] : p \in {q \in Pids : Unasked(q)}}
  /\ ask' = [a \in DOMAIN ask |-> IF a \in Pids THEN ask[a] ELSE NotAsked]
  /\ UNCHANGED <<todo, scanVars, home, sigVars, tableVars, owner, again, later, now>>

Reboot ==
  /\ pc = "reboot"
  /\ pc' = "down"
  /\ UNCHANGED <<todo, scanVars, home, sigVars, tableVars, procVars, jobVars, now>>

RebootFailed ==
  /\ pc = "reboot"
  /\ pc' = "begin" /\ shutdown_cmd' = "none" /\ cmd' = "none"
  /\ UNCHANGED <<todo, scanVars, home, wake, alarm, tableVars, procVars, jobVars,
                 now>>

-----------------------------------------------------------------------------
(* run_due_jobs and alarm() *)

BeginScan ==
  /\ pc = "begin"
  /\ pc' = "scan" /\ todo' = Jobs /\ scan_now' = now /\ next' = 0
  /\ UNCHANGED <<job, until, home, sigVars, tableVars, procVars, jobVars, now>>

\* later_read() fails: no such file, or not the size of a job (yet).
NotAJob(j) ==
  /\ pc = "scan" /\ j \in todo /\ later[j].st # "full"
  /\ todo' = todo \ {j}
  /\ UNCHANGED <<pc, scanVars, home, sigVars, tableVars, procVars, jobVars, now>>

\* Mutant: have_next is not looked at.
EarliestUnset(when) == IF when < next THEN when ELSE next

Earliest(when) == IF next = 0 \/ when < next THEN when ELSE next

\* Mutant: every job is run at once.
DueNowAlways(j) == TRUE

DueNow(j) == later[j].when <= scan_now

NotDue(j) ==
  /\ pc = "scan" /\ j \in todo /\ later[j].st = "full"
  /\ ~DueNow(j)
  /\ next' = Earliest(later[j].when)
  /\ todo' = todo \ {j}
  /\ UNCHANGED <<pc, job, scan_now, until, home, sigVars, tableVars, procVars,
                 jobVars, now>>

Due(j) ==
  /\ pc = "scan" /\ j \in todo /\ later[j].st = "full"
  /\ DueNow(j)
  /\ pc' = "unlink"
  /\ job' = j
  /\ todo' = todo \ {j}
  /\ UNCHANGED <<scan_now, next, until, home, sigVars, tableVars, procVars, jobVars,
                 now>>

Asker(a, j) == a = j \/ (a \in Pids /\ proc[a] = "run" /\ owner[a] = j)

\* Mutant: the job is run from a file that stays.
UnlinkedNot(j) == later

Unlinked(j) == [later EXCEPT ![j] = NoFile]

\* The name goes; an asker that has it open writes to a file nobody will read.
UnlinkJob ==
  /\ pc = "unlink"
  /\ pc' = "run"
  /\ later' = Unlinked(job)
  /\ ask' = [a \in DOMAIN ask |->
               IF Asker(a, job) /\ ask[a].st = "open"
               THEN [st |-> "unlinked", when |-> ask[a].when] ELSE ask[a]]
  /\ UNCHANGED <<todo, scanVars, home, sigVars, tableVars, proc, owner, again, dropped,
                 now>>

RunJob ==
  /\ pc = "run"
  /\ pc' = "scan" /\ job' = NoJob
  /\ \/ \E p \in Pids : Spawned(p, job) /\ UNCHANGED dropped
     \/ SpawnFailed /\ dropped' = dropped \cup {job}
  /\ UNCHANGED <<todo, scan_now, next, until, home, sigVars, tableVars, later, now>>

\* Mutant: have_next is not looked at.
SecondsUnchecked == next - scan_now

\* What run_due_jobs returns: alarm(0) would cancel, so a job there is never 0.
Seconds == IF next = 0 THEN 0 ELSE IF next > scan_now THEN next - scan_now ELSE 1

\* Mutant: alarm() is not called.
AlarmAtNever == 0

AlarmAt == IF Seconds = 0 THEN 0 ELSE now + Seconds

SetAlarm ==
  /\ pc = "scan" /\ todo = {}
  /\ pc' = "armed"
  /\ until' = Seconds
  /\ alarm' = AlarmAt
  /\ UNCHANGED <<todo, job, scan_now, next, home, shutdown_cmd, cmd, wake,
                 tableVars, procVars, jobVars, now>>

-----------------------------------------------------------------------------
(* wait() and what it returns *)

\* Blocked in wait(): it has children, and none to report.
Waiting == /\ pc = "wait"
           /\ \E p \in Pids : proc[p] = "run"
           /\ \A p \in Pids : ~Zombie(p)

CallWait ==
  /\ pc = "armed"
  /\ pc' = "wait"
  /\ UNCHANGED <<todo, scanVars, home, sigVars, tableVars, procVars, jobVars, now>>

Reap(p) ==
  /\ pc = "wait" /\ Zombie(p)
  /\ pc' = "home"
  /\ home' = [pid |-> p, status |-> proc[p]]
  /\ Released(p)
  /\ UNCHANGED <<todo, scanVars, sigVars, tableVars, jobVars, now>>

\* Mutant: the jobs are forgotten when the last child is gone.
NoJobToWaitForEver == TRUE

NoJobToWaitFor == until = 0

\* ECHILD with a job to wait for.
SleepForJob ==
  /\ pc = "wait" /\ NoKids /\ ~NoJobToWaitFor
  /\ pc' = "sleep" /\ wake' = now + until
  /\ UNCHANGED <<todo, scanVars, home, shutdown_cmd, cmd, alarm, tableVars,
                 procVars, jobVars, now>>

SleepOver ==
  /\ pc = "sleep" /\ Expired(wake)
  /\ pc' = "check" /\ wake' = 0
  /\ UNCHANGED <<todo, scanVars, home, shutdown_cmd, cmd, alarm, tableVars,
                 procVars, jobVars, now>>

\* ECHILD and nothing to wait for: init returns.
NoChildrenLeft ==
  /\ pc = "wait" /\ NoKids /\ NoJobToWaitFor
  /\ pc' = "exited"
  /\ UNCHANGED <<todo, scanVars, home, sigVars, tableVars, procVars, jobVars, now>>

\* Mutant: any child is taken for telnetd.
IsTelnetdAnyChild(pid) == telnetd_port

IsTelnetd(pid) == telnetd_port /\ pid = telnetd_pid

\* It exits non-zero only when it could not start at all.
GaveUp(status) == status = "fail"

TelnetdHome ==
  /\ pc = "home" /\ IsTelnetd(home.pid)
  /\ pc' = "check" /\ home' = Nobody
  /\ \/ /\ GaveUp(home.status)
        /\ down' = [down EXCEPT ![Telnetd] = "gaveup"]
        /\ UNCHANGED <<telnetd_pid, procVars>>
     \/ ~GaveUp(home.status) /\ SpawnTelnetd
  /\ UNCHANGED <<todo, scanVars, sigVars, telnetd_port, getty_pid, minion_pid,
                 started, jobVars, now>>

GettyHome(g) ==
  /\ pc = "home" /\ ~IsTelnetd(home.pid)
  /\ g \in First({h \in Gettys : getty_pid[h] = home.pid})
  /\ SpawnGetty(g)
  /\ pc' = "minion"
  /\ UNCHANGED <<todo, scanVars, home, sigVars, telnetd_port, telnetd_pid,
                 minion_pid, started, jobVars, now>>

NotAGetty ==
  /\ pc = "home" /\ ~IsTelnetd(home.pid)
  /\ \A g \in Gettys : getty_pid[g] # home.pid
  /\ pc' = "minion"
  /\ UNCHANGED <<todo, scanVars, home, sigVars, tableVars, procVars, jobVars, now>>

Restartable(m) == home.status = "sig" \/ now - started[m] >= 1

MinionHome(m) ==
  /\ pc = "minion"
  /\ m \in First({n \in Minions : minion_pid[n] = home.pid})
  /\ pc' = "check" /\ home' = Nobody
  /\ \/ Restartable(m) /\ SpawnMinion(m)
     \/ /\ ~Restartable(m)
        /\ minion_pid' = [minion_pid EXCEPT ![m] = NoPid]
        /\ down' = [down EXCEPT ![m] = "insta"]
        /\ UNCHANGED <<started, procVars>>
  /\ UNCHANGED <<todo, scanVars, sigVars, telnetd_port, telnetd_pid, getty_pid,
                 jobVars, now>>

NotAMinion ==
  /\ pc = "minion"
  /\ \A m \in Minions : minion_pid[m] # home.pid
  /\ pc' = "check" /\ home' = Nobody
  /\ UNCHANGED <<todo, scanVars, sigVars, tableVars, procVars, jobVars, now>>

-----------------------------------------------------------------------------
(* Signals and the clock *)

\* Mutant: the handlers are installed with SA_RESTART.
InterruptedNot == pc

\* A handler returns into wait() or sleep(), which then gives up.
Interrupted == IF pc = "sleep" \/ Waiting THEN "check"
               ELSE IF pc = "grace" THEN "kill" ELSE pc

\* Between reading shutdown_cmd and blocking, init looks at nothing.
Window == \/ pc \in {"begin", "scan", "unlink", "run", "armed"}
          \/ pc = "wait" /\ NoKids

\* handle_shutdown(). Before setup_signals() the kernel drops it: this is pid 1.
Signal(c) ==
  /\ ~Stopped /\ pc # "startup"
  /\ Races \/ ~Window
  /\ shutdown_cmd' = c
  /\ pc' = Interrupted /\ wake' = IF pc' = pc THEN wake ELSE 0
  /\ UNCHANGED <<todo, scanVars, home, cmd, alarm, tableVars, procVars, jobVars,
                 now>>

\* SIGALRM, whose handler does nothing.
AlarmFires ==
  /\ ~Stopped
  /\ alarm # 0 /\ Expired(alarm)
  /\ alarm' = 0
  /\ pc' = Interrupted /\ wake' = IF pc' = pc THEN wake ELSE 0
  /\ UNCHANGED <<todo, scanVars, home, shutdown_cmd, cmd, tableVars, procVars,
                 jobVars, now>>

Tick ==
  /\ ~Stopped /\ now < MaxTime
  /\ Races \/ ~Window
  /\ alarm = 0 \/ now < alarm
  /\ wake = 0 \/ now < wake
  /\ now' = now + 1
  /\ UNCHANGED <<pc, todo, scanVars, home, sigVars, tableVars, procVars, jobVars>>

-----------------------------------------------------------------------------
(* The other processes *)

\* A process ends. What it owed LATER_DIR it will not leave there any more.
Exit(p, status) ==
  /\ ~Stopped
  /\ proc[p] = "run"
  /\ proc' = [proc EXCEPT ![p] = status]
  /\ dropped' = IF Unasked(p) THEN dropped \cup {owner[p]} ELSE dropped
  /\ UNCHANGED <<pc, todo, scanVars, home, sigVars, tableVars, owner, ask, again, later,
                 now>>

\* startup waits for its dhcpc (CONFIG_DHCP_WAIT): init never sees that one.
StartupReaps(p) ==
  /\ pc = "startup" /\ Zombie(p)
  /\ Released(p)
  /\ UNCHANGED <<pc, todo, scanVars, home, sigVars, tableVars, jobVars, now>>

\* The parent of a process died and the kernel gives the process to init.
Adopt(p) ==
  /\ ~Stopped
  /\ \E q \in Pids : proc[q] = "run"
  /\ Spawned(p, Orphan)
  /\ UNCHANGED <<pc, todo, scanVars, home, sigVars, tableVars, jobVars, now>>

\* Somebody is there to run job j's program from a shell.
ShellFor(j) == j \in ByHand /\ pc # "startup" /\ \E q \in Pids : proc[q] = "run"

MayAsk(a, j) == /\ ~Stopped /\ Asker(a, j)
                /\ a \in Pids \/ ShellFor(j)

\* later_ask() up to write_file()'s open(): `when` is settled, the file is empty.
\* A name created while init reads the directory may or may not still turn up.
AskOpen(a, j) ==
  /\ MayAsk(a, j) /\ ask[a].st = "no"
  /\ \E secs \in 1..MaxAsk :
       /\ now + secs <= MaxTime
       /\ ask' = [ask EXCEPT ![a] = [st |-> "open", when |-> now + secs]]
  /\ later' = [later EXCEPT ![j] = [st |-> "partial", when |-> 0]]
  /\ \/ UNCHANGED todo
     \/ /\ pc \in {"scan", "unlink", "run"} /\ later[j].st = "none"
        /\ todo' = todo \cup {j}
  /\ UNCHANGED <<pc, scanVars, home, sigVars, tableVars, proc, owner, again, dropped,
                 now>>

\* write_file()'s write(). A process asks once and then ends; by hand it may
\* be started again.
AskWrite(a, j) ==
  /\ MayAsk(a, j) /\ ask[a].st \in {"open", "unlinked"}
  /\ ask' = [ask EXCEPT ![a] = IF a \in Pids THEN [st |-> "done", when |-> ask[a].when]
                                      ELSE NotAsked]
  /\ later' = IF ask[a].st = "open"
              THEN [later EXCEPT ![j] = [st |-> "full", when |-> ask[a].when]]
              ELSE later
  /\ UNCHANGED <<pc, todo, scanVars, home, sigVars, tableVars, proc, owner, again, dropped,
                 now>>

-----------------------------------------------------------------------------

\* init starts once the program of each job, started by startup, is under way.
Init ==
  /\ pc = "startup" /\ todo = {} /\ job = NoJob /\ home = Nobody
  /\ scan_now = 0 /\ next = 0 /\ until = 0 /\ wake = 0 /\ alarm = 0
  /\ shutdown_cmd = "none" /\ cmd = "none"
  /\ telnetd_port = WantTelnetd /\ telnetd_pid = NoPid
  /\ getty_pid = [g \in Gettys |-> NoPid]
  /\ minion_pid = [m \in Minions |-> NoPid]
  /\ started = [m \in Minions |-> 0]
  /\ \E pid \in [Jobs -> Pids] :
       /\ \A i, j \in Jobs : pid[i] = pid[j] => i = j
       /\ proc = [p \in Pids |-> IF \E j \in Jobs : pid[j] = p THEN "run" ELSE "free"]
       /\ owner = [p \in Pids |-> IF \E j \in Jobs : pid[j] = p
                                  THEN CHOOSE j \in Jobs : pid[j] = p ELSE Orphan]
  /\ ask = [a \in Pids \cup ByHand |-> NotAsked]
  /\ later = [j \in Jobs |-> NoFile]
  /\ down = [s \in Slots |-> "boot"] /\ again = {}
  /\ dropped = {}
  /\ now = 0

Boot == \/ StartupDone \/ BootTelnetd \/ BootDone
        \/ \E g \in Gettys : BootGetty(g)
        \/ \E m \in Minions : BootMinion(m)

Shutdown == NothingAsked \/ Terminate \/ GraceOver \/ KillAll \/ Reboot \/ RebootFailed

RunDueJobs == \/ BeginScan \/ UnlinkJob \/ RunJob \/ SetAlarm
              \/ \E j \in Jobs : NotAJob(j) \/ NotDue(j) \/ Due(j)

Wait == \/ CallWait \/ SleepForJob \/ SleepOver \/ NoChildrenLeft
        \/ \E p \in Pids : Reap(p)

CameHome == \/ TelnetdHome \/ NotAGetty \/ NotAMinion
            \/ \E g \in Gettys : GettyHome(g)
            \/ \E m \in Minions : MinionHome(m)

prog_init == Boot \/ Shutdown \/ RunDueJobs \/ Wait \/ CameHome

Outside == \/ AlarmFires \/ Tick
           \/ \E c \in Cmds : Signal(c)
           \/ \E p \in Pids : \/ StartupReaps(p) \/ Adopt(p)
                              \/ \E status \in Statuses : Exit(p, status)
           \/ \E j \in Jobs, a \in DOMAIN ask : AskOpen(a, j) \/ AskWrite(a, j)

\* The machine is off, or its init is gone.
Off == Stopped /\ UNCHANGED vars

Next == prog_init \/ Outside \/ Off

Spec == Init /\ [][Next]_vars

\* A program run for a job that has begun to ask gets to its end.
FinishAsking(p) == \/ \E j \in Jobs : AskWrite(p, j)
                   \/ ask[p].st = "done" /\ Exit(p, "ok")

\* init is scheduled, time passes, an alarm that is due goes off, wait() reports
\* the children in turn.
Fairness == /\ WF_vars(prog_init) /\ WF_vars(AlarmFires) /\ SF_vars(Tick)
            /\ \A p \in Pids : SF_vars(Reap(p)) /\ WF_vars(FinishAsking(p))

LiveSpec == Spec /\ Fairness

=============================================================================
