------------------------------- MODULE Dungeon -------------------------------
(* keeper.c and dungeon.h: one name in the dungeon, which init, somebody   *)
(* with keeper and somebody with keeper -r may all start a process for.    *)
(* What they know of each other is three files, written one by one.        *)
EXTENDS Naturals, FiniteSets

CONSTANTS Pids,
          MaxStarts     \* bound: how often anything is started or restarted

DungeonAssumption == 0 \notin Pids /\ MaxStarts \in Nat

VARIABLES file,         \* cmd, pid, keptby, as far as they can be read
          by,           \* who started the process of a pid; "" is no process
          act,          \* init, hand (keeper) and restart (keeper -r): pc, pid
          starts,
          spoilt,       \* history: what keeper -r has no defence against. A file
                        \* that could not even be opened for writing ("unsaid"),
                        \* and init and a keeper at it together ("crossed")
          stopped       \* history: the processes keeper -r has signalled, by whom

vars == <<file, by, act, starts, spoilt, stopped>>

Actors == {"init", "hand", "restart"}
Unread(f) == IF f = "pid" THEN 0 ELSE ""
Idle == [pc |-> "idle", pid |-> 0]

TypeOK ==
    /\ file \in [cmd : {"", "cmd"}, pid : Pids \cup {0}, keptby : {"", "init", "nobody"}]
    /\ by \in [Pids -> {"", "init", "keeper"}]
    /\ \A a \in Actors : act[a].pid \in Pids \cup {0}
    /\ starts \in 0..MaxStarts
    /\ spoilt \subseteq {"unsaid", "crossed"}

Init == /\ file = [cmd |-> "", pid |-> 0, keptby |-> ""]
        /\ by = [p \in Pids |-> ""]
        /\ act = [a \in Actors |-> Idle]
        /\ starts = 0 /\ spoilt = {} /\ stopped = {}

To(a, pc, p) == act' = [act EXCEPT ![a] = [pc |-> pc, pid |-> p]]
At(a, pc) == act[a].pc = pc
Files == UNCHANGED <<file, by, starts, spoilt, stopped>>

\* There is no lock: whoever begins may do so in the middle of another's steps.
Begins(a, pc) ==
    /\ At(a, "idle") /\ starts < MaxStarts
    /\ To(a, pc, 0)
    /\ starts' = starts + 1
    /\ spoilt' = spoilt \cup (IF \E b \in Actors : ~At(b, "idle") /\ "init" \in {a, b}
                              THEN {"crossed"} ELSE {})
    /\ UNCHANGED <<file, by, stopped>>

-----------------------------------------------------------------------------
(* Starting: dungeon_make_dir() and dungeon_spawn().                        *)

\* init has one process for the name; keeper starts another whatever there is.
BeginStart(a) ==
    /\ a # "restart" /\ Begins(a, "spawn")
    /\ a = "init" => \A p \in Pids : by[p] # "init"

\* No directory, no files for its output, no process.
StartFails(a) == At(a, "spawn") /\ To(a, "idle", 0) /\ Files

\* Any pid that no process has, though it is still in a file or in a hand.
Spawn(a) ==
    /\ At(a, "spawn")
    /\ \E p \in Pids :
         /\ by[p] = ""
         /\ by' = [by EXCEPT ![p] = IF a = "init" THEN "init" ELSE "keeper"]
         /\ To(a, "cmd", p)
    /\ UNCHANGED <<file, starts, spoilt, stopped>>

\* Mutant: who keeps it is written first.
NextFileOther == [cmd |-> "keptby", keptby |-> "pid", pid |-> "idle"]

\* The order in which the files are written.
NextFile == [cmd |-> "pid", pid |-> "keptby", keptby |-> "idle"]

Says(a, f) == CASE f = "cmd" -> "cmd"
                [] f = "pid" -> act[a].pid
                [] f = "keptby" -> IF a = "init" THEN "init" ELSE "nobody"

\* write_file(): opened and emptied, then written, or that fails; or not even
\* opened. A command too long for the buffer is not written at all.
WriteNext(a) ==
    /\ act[a].pc \in DOMAIN NextFile
    /\ LET f == act[a].pc
       IN /\ \/ file' = [file EXCEPT ![f] = Says(a, f)] /\ spoilt' = spoilt
             \/ file' = [file EXCEPT ![f] = Unread(f)] /\ spoilt' = spoilt
             \/ file' = file /\ spoilt' = spoilt \cup (IF f = "cmd" THEN {} ELSE {"unsaid"})
          /\ To(a, NextFile[f], IF NextFile[f] = "idle" THEN 0 ELSE act[a].pid)
    /\ UNCHANGED <<by, starts, stopped>>

\* keeper is killed between two of its steps.
Killed(a) == /\ a # "init" /\ ~At(a, "idle")
             /\ To(a, "idle", 0) /\ Files

-----------------------------------------------------------------------------
(* keeper -r: restart().                                                    *)

BeginRestart == Begins("restart", "read cmd")

ReadCmd == /\ At("restart", "read cmd")
           /\ To("restart", IF file.cmd = "" THEN "idle" ELSE "read keptby", 0)
           /\ Files

\* Somebody else keeps it, or nobody knows who does: leaving it alone.
ReadKeptby == /\ At("restart", "read keptby")
              /\ To("restart", IF file.keptby = "nobody" THEN "read pid" ELSE "idle", 0)
              /\ Files

ReadPid == /\ At("restart", "read pid")
           /\ IF file.pid = 0 THEN To("restart", "spawn", 0)
              ELSE To("restart", "alive", file.pid)
           /\ Files

Signalled(p) == stopped' = stopped \cup {by[p]}

\* dungeon_alive() is asked, and SIGTERM sent, to whatever has the pid now.
Terminate ==
    /\ At("restart", "alive")
    /\ LET p == act["restart"].pid
       IN IF by[p] = "" THEN To("restart", "spawn", 0) /\ stopped' = stopped
          ELSE To("restart", "stopping", p) /\ Signalled(p)
    /\ UNCHANGED <<file, by, starts, spoilt>>

\* kill() fails, the process having ended between the two calls.
TerminateFails == At("restart", "alive") /\ To("restart", "idle", 0) /\ Files

\* It is gone within two seconds, or gets SIGKILL and is not waited for.
Stopped ==
    /\ At("restart", "stopping")
    /\ LET p == act["restart"].pid
       IN IF by[p] = "" THEN stopped' = stopped ELSE Signalled(p)
    /\ To("restart", "spawn", 0)
    /\ UNCHANGED <<file, by, starts, spoilt>>

Dies(p) == /\ by[p] # ""
           /\ by' = [by EXCEPT ![p] = ""]
           /\ UNCHANGED <<file, act, starts, spoilt, stopped>>

Keeper == \/ BeginRestart \/ ReadCmd \/ ReadKeptby \/ ReadPid
          \/ Terminate \/ TerminateFails \/ Stopped
Next == \/ Keeper
        \/ \E a \in Actors : BeginStart(a) \/ StartFails(a) \/ Spawn(a) \/ WriteNext(a) \/ Killed(a)
        \/ \E p \in Pids : Dies(p)

Spec == Init /\ [][Next]_vars

-----------------------------------------------------------------------------

\* keeper -r signals a process that init keeps for two reasons and no other: a
\* file could not be opened for writing, or init and a keeper were at it at the
\* same time. Not though keepers race each other, not though they are killed
\* between two of the files, not though a file was emptied and then not written,
\* and not though a pid that is still in a file is handed out again, to a process
\* of init's or to another's: init has then said so before anybody reads it
\* (restart, dungeon_spawn: "leaving it alone").
KeptLeftAlone == spoilt = {} => "init" \notin stopped

=============================================================================
