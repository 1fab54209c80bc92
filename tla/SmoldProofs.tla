----------------------------- MODULE SmoldProofs -----------------------------
(* Proofs about Smold, for every number of gettys, minions, jobs and pids. *)
EXTENDS SmoldProps, TLAPS

(***************************************************************************)
(* The inductive invariant behind OneEach: a slot's entry names the        *)
(* slot's process as long as there is one.                                 *)
(***************************************************************************)
Tracked == \A s \in Slots : \A p \in Pids : Is(p, s) => PidOf(s) = p

\* No process yet of what the boot has still to start.
NotYet ==
  /\ pc = "startup" => \A s \in Slots : ~Alive(s)
  /\ pc = "gettys" => /\ todo \subseteq Gettys
                      /\ \A s \in todo \cup Minions \cup {Telnetd} : ~Alive(s)
  /\ pc = "minions" => todo \subseteq Minions /\ \A s \in todo : ~Alive(s)

\* The process just reaped is gone, though its pid may be an orphan's by now, or
\* the getty's that was started in its place.
Gone ==
  /\ pc = "home" => home.pid \in Pids /\ \A s \in Slots : ~Is(home.pid, s)
  /\ pc = "minion" => home.pid \in Pids /\ \A m \in Minions : ~Is(home.pid, m)

TableInv == Tracked /\ NotYet /\ Gone

(***************************************************************************)
(* Types                                                                   *)
(***************************************************************************)

\* What __spawn() does to the process table keeps its type.
LEMMA SpawnedType ==
  ASSUME TypeOK, NEW p \in Pids, NEW who \in Owners, Spawned(p, who)
  PROVE  /\ proc' \in [Pids -> {"free", "run"} \cup Statuses]
         /\ owner' \in [Pids -> Owners]
         /\ ask' \in [Pids \cup ByHand -> Ask]
         /\ again' \in SUBSET Pids
BY DEF TypeOK, Spawned, Ask, NotAsked, Statuses

LEMMA TypeInit == Init => TypeOK
<1> SUFFICES ASSUME Init PROVE TypeOK
  OBVIOUS
<1>1. /\ proc \in [Pids -> {"free", "run"} \cup Statuses]
      /\ owner \in [Pids -> Owners]
  <2>1. PICK pid \in [Jobs -> Pids] :
          /\ proc = [p \in Pids |-> IF \E j \in Jobs : pid[j] = p THEN "run" ELSE "free"]
          /\ owner = [p \in Pids |-> IF \E j \in Jobs : pid[j] = p
                                     THEN CHOOSE j \in Jobs : pid[j] = p ELSE Orphan]
    BY DEF Init
  <2>2. ASSUME NEW p \in Pids
        PROVE  (IF \E j \in Jobs : pid[j] = p
                THEN CHOOSE j \in Jobs : pid[j] = p ELSE Orphan) \in Owners
    BY DEF Owners
  <2>3. QED
    BY <2>1, <2>2
<1>2. QED
  BY <1>1, EnvironmentAssumption
     DEF Init, TypeOK, Pcs, Nobody, NotAsked, NoFile, Ask, File, Statuses, Slots

\* Every step of init and of the world around it keeps the types.
LEMMA TypeStep == TypeOK /\ [Next]_vars => TypeOK'
<1> SUFFICES ASSUME TypeOK, [Next]_vars PROVE TypeOK'
  OBVIOUS
<1> USE DEF TypeOK, scanVars, sigVars, tableVars, procVars, jobVars, Pcs, Statuses
<1>1. CASE StartupDone
  BY <1>1 DEF StartupDone
<1>2. CASE BootTelnetd
  <2>1. CASE SpawnTelnetd
    <3>1. ASSUME NEW p \in Pids, Spawned(p, Telnetd) PROVE TypeOK'
      BY <1>2, <2>1, <3>1, SpawnedType DEF BootTelnetd, SpawnTelnetd, Owners, Slots
    <3>2. CASE SpawnFailed
      BY <1>2, <2>1, <3>2 DEF BootTelnetd, SpawnTelnetd, SpawnFailed, Slots
    <3>3. QED
      BY <2>1, <3>1, <3>2 DEF SpawnTelnetd
  <2>2. CASE telnetd_port' = FALSE /\ UNCHANGED <<telnetd_pid, down, procVars>>
    BY <1>2, <2>2 DEF BootTelnetd
  <2>3. QED
    BY <1>2, <2>1, <2>2 DEF BootTelnetd
<1>3. CASE BootDone
  BY <1>3 DEF BootDone
<1>4. CASE NothingAsked
  BY <1>4 DEF NothingAsked
<1>5. CASE Terminate
  BY <1>5 DEF Terminate, SHUTDOWN_GRACE
<1>6. CASE GraceOver
  BY <1>6 DEF GraceOver
<1>7. CASE KillAll
  BY <1>7 DEF KillAll, Unasked, NotAsked, Ask
<1>8. CASE Reboot
  BY <1>8 DEF Reboot
<1>9. CASE RebootFailed
  BY <1>9 DEF RebootFailed
<1>10. CASE BeginScan
  BY <1>10 DEF BeginScan
<1>11. CASE UnlinkJob
  BY <1>11 DEF UnlinkJob, Unlinked, NoFile, File, Ask
<1>12. CASE RunJob
  BY <1>12, SpawnedType DEF RunJob, SpawnFailed, Owners, Slots
<1>13. CASE SetAlarm
  BY <1>13 DEF SetAlarm, Seconds, AlarmAt
<1>14. CASE CallWait
  BY <1>14 DEF CallWait
<1>15. CASE SleepForJob
  BY <1>15 DEF SleepForJob
<1>16. CASE SleepOver
  BY <1>16 DEF SleepOver
<1>17. CASE NoChildrenLeft
  BY <1>17 DEF NoChildrenLeft
<1>18. CASE TelnetdHome
  BY <1>18, SpawnedType DEF TelnetdHome, SpawnTelnetd, SpawnFailed, Nobody, Owners, Slots
<1>19. CASE NotAGetty
  BY <1>19 DEF NotAGetty
<1>20. CASE NotAMinion
  BY <1>20 DEF NotAMinion, Nobody
<1>21. CASE AlarmFires
  BY <1>21 DEF AlarmFires, Interrupted
<1>22. CASE Tick
  BY <1>22 DEF Tick
<1>23. ASSUME NEW g \in Gettys, BootGetty(g) PROVE TypeOK'
  BY <1>23, SpawnedType DEF BootGetty, SpawnGetty, SpawnFailed, First, Owners, Slots
<1>24. ASSUME NEW m \in Minions, BootMinion(m) PROVE TypeOK'
  BY <1>24, SpawnedType DEF BootMinion, SpawnMinion, SpawnFailed, First, Owners, Slots
<1>25. ASSUME NEW j \in Jobs, NotAJob(j) PROVE TypeOK'
  BY <1>25 DEF NotAJob
<1>26. ASSUME NEW j \in Jobs, NotDue(j) PROVE TypeOK'
  BY <1>26 DEF NotDue, Earliest, File
<1>27. ASSUME NEW j \in Jobs, Due(j) PROVE TypeOK'
  BY <1>27 DEF Due
<1>28. ASSUME NEW p \in Pids, Reap(p) PROVE TypeOK'
  BY <1>28 DEF Reap, Released, NotAsked, Ask, Owners, Zombie
<1>29. ASSUME NEW g \in Gettys, GettyHome(g) PROVE TypeOK'
  BY <1>29, SpawnedType DEF GettyHome, SpawnGetty, SpawnFailed, Owners, Slots
<1>30. ASSUME NEW m \in Minions, MinionHome(m) PROVE TypeOK'
  BY <1>30, SpawnedType DEF MinionHome, SpawnMinion, SpawnFailed, Nobody, Owners, Slots
<1>31. ASSUME NEW c \in Cmds, Signal(c) PROVE TypeOK'
  BY <1>31 DEF Signal, Interrupted
<1>32. ASSUME NEW p \in Pids, StartupReaps(p) PROVE TypeOK'
  BY <1>32 DEF StartupReaps, Released, NotAsked, Ask, Owners
<1>33. ASSUME NEW p \in Pids, Adopt(p) PROVE TypeOK'
  BY <1>33, SpawnedType DEF Adopt, Owners, Slots
<1>34. ASSUME NEW p \in Pids, NEW status \in Statuses, Exit(p, status) PROVE TypeOK'
  BY <1>34 DEF Exit, Unasked
<1>35. ASSUME NEW j \in Jobs, NEW a \in DOMAIN ask, AskOpen(a, j) PROVE TypeOK'
  BY <1>35 DEF AskOpen, File, Ask
<1>36. ASSUME NEW j \in Jobs, NEW a \in DOMAIN ask, AskWrite(a, j) PROVE TypeOK'
  BY <1>36 DEF AskWrite, File, Ask, NotAsked
<1>37. CASE UNCHANGED vars
  BY <1>37 DEF vars
<1>38. QED
  BY <1>1, <1>2, <1>3, <1>4, <1>5, <1>6, <1>7, <1>8, <1>9, <1>10, <1>11, <1>12, <1>13, <1>14, <1>15, <1>16, <1>17, <1>18, <1>19, <1>20, <1>21, <1>22, <1>23, <1>24, <1>25, <1>26, <1>27, <1>28, <1>29, <1>30, <1>31, <1>32, <1>33, <1>34, <1>35, <1>36, <1>37
     DEF Next, prog_init, Boot, Shutdown, RunDueJobs, Wait, CameHome, Outside, Off

\* Whatever the machine does, every variable of init's keeps its type.
THEOREM TypeCorrect == Spec => []TypeOK
  BY TypeInit, TypeStep, PTL DEF Spec

(***************************************************************************)
(* One process per slot                                                    *)
(***************************************************************************)

\* A spawn adds one process to those there are.
LEMMA SpawnedIs ==
  ASSUME TypeOK, NEW p \in Pids, NEW who \in Owners, Spawned(p, who)
  PROVE  \A q \in Pids, x \in Owners : Is(q, x)' <=> (Is(q, x) \/ (q = p /\ x = who))
BY DEF TypeOK, Spawned, Is

\* Reaping removes one.
LEMMA ReleasedIs ==
  ASSUME TypeOK, NEW p \in Pids, Released(p)
  PROVE  \A q \in Pids, x \in Owners : Is(q, x)' <=> (Is(q, x) /\ q # p)
BY DEF TypeOK, Released, Is

\* Who is there, and what the tables say of it, is as before.
Quiet == /\ UNCHANGED <<getty_pid, minion_pid, telnetd_pid, owner>>
         /\ \A p \in Pids : proc'[p] = "free" <=> proc[p] = "free"

LEMMA QuietSame ==
  ASSUME Quiet
  PROVE  /\ \A q \in Pids, x \in Owners : Is(q, x)' <=> Is(q, x)
         /\ \A x \in Owners : Alive(x)' <=> Alive(x)
         /\ \A s \in Slots : PidOf(s)' = PidOf(s)
<1>1. \A q \in Pids, x \in Owners : Is(q, x)' <=> Is(q, x)
  BY DEF Quiet, Is
<1>2. QED
  BY <1>1 DEF Quiet, Alive, PidOf

Steady == pc' \in {"startup", "gettys", "minions", "home", "minion"} =>
            pc' = pc /\ todo' = todo /\ home' = home

LEMMA QuietTable ==
  ASSUME TypeOK, TableInv, Quiet, Steady
  PROVE  TableInv'
<1>1. Slots \subseteq Owners
  BY DEF Owners
<1>2. Tracked'
  BY <1>1, QuietSame DEF TableInv, Tracked
<1>3. NotYet'
  BY <1>1, QuietSame DEF TableInv, NotYet, Steady, Slots
<1>4. Gone'
  BY <1>1, QuietSame DEF TableInv, Gone, Steady, Slots
<1>5. QED
  BY <1>2, <1>3, <1>4 DEF TableInv

\* Starting `who`, which is not running, in a slot that takes its pid.
LEMMA SlotSpawned ==
  ASSUME TypeOK, Tracked, NEW p \in Pids, NEW who \in Owners, Spawned(p, who),
         who \in Slots => ~Alive(who) /\ PidOf(who)' = p,
         \A s \in Slots \ {who} : PidOf(s)' = PidOf(s)
  PROVE  Tracked' /\ \A x \in Owners : Alive(x)' <=> (Alive(x) \/ x = who)
<1>1. Slots \subseteq Owners
  BY DEF Owners
<1>2. Tracked'
  BY <1>1, SpawnedIs DEF Tracked, Alive
<1>3. \A x \in Owners : Alive(x)' <=> (Alive(x) \/ x = who)
  BY SpawnedIs DEF Alive
<1>4. QED
  BY <1>2, <1>3

\* A slot that lost its process may forget it.
LEMMA SlotForgotten ==
  ASSUME TypeOK, Tracked, UNCHANGED procVars, NEW t \in Slots, ~Alive(t),
         \A s \in Slots \ {t} : PidOf(s)' = PidOf(s)
  PROVE  Tracked' /\ \A x \in Owners : Alive(x)' <=> Alive(x)
<1>1. \A q \in Pids, x \in Owners : Is(q, x)' <=> Is(q, x)
  BY DEF procVars, Is
<1>2. Tracked'
  BY <1>1 DEF Tracked, Alive, Owners
<1>3. QED
  BY <1>1, <1>2 DEF Alive

LEMMA SpawnGettyTracked ==
  ASSUME TypeOK, Tracked, NEW g \in Gettys, ~Alive(g), SpawnGetty(g),
         UNCHANGED <<minion_pid, telnetd_pid>>
  PROVE  Tracked' /\ \A x \in Owners : Alive(x)' => Alive(x) \/ x = g
<1>1. g \in Slots /\ g \in Owners
  BY DEF Slots, Owners
<1>2. \A s \in Slots \ {g} : PidOf(s)' = PidOf(s)
  BY DEF SpawnGetty, PidOf, TypeOK
<1>3. CASE \E p \in Pids : Spawned(p, g) /\ getty_pid' = [getty_pid EXCEPT ![g] = p]
  <2>1. PICK p \in Pids : Spawned(p, g) /\ getty_pid' = [getty_pid EXCEPT ![g] = p]
    BY <1>3
  <2>2. PidOf(g)' = p
    BY <2>1 DEF PidOf, TypeOK
  <2>3. QED
    BY <1>1, <1>2, <2>1, <2>2, SlotSpawned
<1>4. CASE SpawnFailed
  BY <1>1, <1>2, <1>4, SlotForgotten DEF SpawnFailed
<1>5. QED
  BY <1>3, <1>4 DEF SpawnGetty

LEMMA SpawnMinionTracked ==
  ASSUME TypeOK, Tracked, NEW m \in Minions, ~Alive(m), SpawnMinion(m),
         UNCHANGED <<getty_pid, telnetd_pid>>
  PROVE  Tracked' /\ \A x \in Owners : Alive(x)' => Alive(x) \/ x = m
<1>1. m \in Slots /\ m \in Owners /\ m \notin Gettys
  BY SlotsAssumption DEF Slots, Owners
<1>2. \A s \in Slots \ {m} : PidOf(s)' = PidOf(s)
  BY DEF SpawnMinion, PidOf, TypeOK
<1>3. CASE \E p \in Pids : Spawned(p, m) /\ minion_pid' = [minion_pid EXCEPT ![m] = p]
  <2>1. PICK p \in Pids : Spawned(p, m) /\ minion_pid' = [minion_pid EXCEPT ![m] = p]
    BY <1>3
  <2>2. PidOf(m)' = p
    BY <1>1, <2>1 DEF PidOf, TypeOK
  <2>3. QED
    BY <1>1, <1>2, <2>1, <2>2, SlotSpawned
<1>4. CASE SpawnFailed
  BY <1>1, <1>2, <1>4, SlotForgotten DEF SpawnFailed
<1>5. QED
  BY <1>3, <1>4 DEF SpawnMinion

LEMMA SpawnTelnetdTracked ==
  ASSUME TypeOK, Tracked, ~Alive(Telnetd), SpawnTelnetd,
         UNCHANGED <<getty_pid, minion_pid>>
  PROVE  Tracked' /\ \A x \in Owners : Alive(x)' => Alive(x) \/ x = Telnetd
<1>1. Telnetd \in Slots /\ Telnetd \in Owners /\ Telnetd \notin Gettys \cup Minions
  BY SlotsAssumption DEF Slots, Owners
<1>2. \A s \in Slots \ {Telnetd} : PidOf(s)' = PidOf(s)
  BY DEF PidOf, Slots
<1>3. CASE \E p \in Pids : Spawned(p, Telnetd) /\ telnetd_pid' = p
  <2>1. PICK p \in Pids : Spawned(p, Telnetd) /\ telnetd_pid' = p
    BY <1>3
  <2>2. PidOf(Telnetd)' = p
    BY <1>1, <2>1 DEF PidOf
  <2>3. QED
    BY <1>1, <1>2, <2>1, <2>2, SlotSpawned
<1>4. CASE SpawnFailed
  BY <1>1, <1>2, <1>4, SlotForgotten DEF SpawnFailed
<1>5. QED
  BY <1>3, <1>4 DEF SpawnTelnetd

\* Actions that start and reap nobody and leave the tables alone.
QuietAction ==
  \/ BootDone \/ NothingAsked \/ Terminate \/ GraceOver \/ KillAll \/ Reboot
  \/ RebootFailed \/ BeginScan \/ UnlinkJob \/ SetAlarm \/ CallWait \/ SleepForJob
  \/ SleepOver \/ NoChildrenLeft \/ NotAMinion \/ AlarmFires \/ Tick
  \/ \E j \in Jobs : NotAJob(j) \/ NotDue(j) \/ Due(j)
  \/ \E c \in Cmds : Signal(c)
  \/ \E p \in Pids, status \in Statuses : Exit(p, status)
  \/ \E j \in Jobs, a \in DOMAIN ask : AskOpen(a, j) \/ AskWrite(a, j)
  \/ UNCHANGED vars

LEMMA QuietActions == TypeOK /\ QuietAction => Quiet /\ Steady
<1> SUFFICES ASSUME TypeOK, QuietAction PROVE Quiet /\ Steady
  OBVIOUS
<1> USE DEF Quiet, Steady, tableVars, procVars
<1>1. CASE BootDone
  BY <1>1 DEF BootDone
<1>2. CASE NothingAsked
  BY <1>2 DEF NothingAsked
<1>3. CASE Terminate
  BY <1>3 DEF Terminate
<1>4. CASE GraceOver
  BY <1>4 DEF GraceOver
<1>5. CASE KillAll
  BY <1>5 DEF KillAll, TypeOK, Statuses
<1>6. CASE Reboot
  BY <1>6 DEF Reboot
<1>7. CASE RebootFailed
  BY <1>7 DEF RebootFailed
<1>8. CASE BeginScan
  BY <1>8 DEF BeginScan
<1>9. CASE UnlinkJob
  BY <1>9 DEF UnlinkJob
<1>10. CASE SetAlarm
  BY <1>10 DEF SetAlarm
<1>11. CASE CallWait
  BY <1>11 DEF CallWait
<1>12. CASE SleepForJob
  BY <1>12 DEF SleepForJob
<1>13. CASE SleepOver
  BY <1>13 DEF SleepOver
<1>14. CASE NoChildrenLeft
  BY <1>14 DEF NoChildrenLeft
<1>15. CASE NotAMinion
  BY <1>15 DEF NotAMinion
<1>16. CASE AlarmFires
  BY <1>16 DEF AlarmFires, Interrupted
<1>17. CASE Tick
  BY <1>17 DEF Tick
<1>18. CASE \E j \in Jobs : NotAJob(j)
  BY <1>18 DEF NotAJob
<1>19. CASE \E j \in Jobs : NotDue(j)
  BY <1>19 DEF NotDue
<1>20. CASE \E j \in Jobs : Due(j)
  BY <1>20 DEF Due
<1>21. CASE \E c \in Cmds : Signal(c)
  BY <1>21 DEF Signal, Interrupted
<1>22. CASE \E p \in Pids, status \in Statuses : Exit(p, status)
  BY <1>22 DEF Exit, TypeOK, Statuses
<1>23. CASE \E j \in Jobs, a \in DOMAIN ask : AskOpen(a, j)
  BY <1>23 DEF AskOpen
<1>24. CASE \E j \in Jobs, a \in DOMAIN ask : AskWrite(a, j)
  BY <1>24 DEF AskWrite
<1>25. CASE UNCHANGED vars
  BY <1>25 DEF vars
<1>26. QED
  BY <1>1, <1>2, <1>3, <1>4, <1>5, <1>6, <1>7, <1>8, <1>9, <1>10, <1>11, <1>12, <1>13, <1>14, <1>15, <1>16, <1>17, <1>18, <1>19, <1>20, <1>21, <1>22, <1>23, <1>24, <1>25 DEF QuietAction

LEMMA TableInit == Init => TableInv
<1> SUFFICES ASSUME Init PROVE TableInv
  OBVIOUS
<1>1. PICK pid \in [Jobs -> Pids] :
        /\ proc = [p \in Pids |-> IF \E j \in Jobs : pid[j] = p THEN "run" ELSE "free"]
        /\ owner = [p \in Pids |-> IF \E j \in Jobs : pid[j] = p
                                   THEN CHOOSE j \in Jobs : pid[j] = p ELSE Orphan]
  BY DEF Init
<1>2. \A p \in Pids : proc[p] # "free" => owner[p] \in Jobs
  BY <1>1
<1>3. \A s \in Slots, p \in Pids : ~Is(p, s)
  BY <1>2, SlotsAssumption DEF Is, Slots
<1>4. QED
  BY <1>3 DEF Init, TableInv, Tracked, NotYet, Gone, Alive

LEMMA TableStep == TypeOK /\ TableInv /\ [Next]_vars => TableInv'
<1> SUFFICES ASSUME TypeOK, TableInv, [Next]_vars PROVE TableInv'
  OBVIOUS
<1> USE DEF TableInv
<1>0. Slots \subseteq Owners
  BY DEF Owners
<1>1. CASE QuietAction
  BY <1>1, QuietActions, QuietTable
<1>2. CASE StartupDone
  <2>1. Quiet
    BY <1>2 DEF StartupDone, Quiet, tableVars, procVars
  <2>2. Tracked'
    BY <1>0, <2>1, QuietSame DEF Tracked
  <2>3. NotYet'
    BY <1>0, <1>2, <2>1, QuietSame DEF StartupDone, NotYet, Slots
  <2>4. QED
    BY <1>2, <2>2, <2>3 DEF StartupDone, Gone
<1>3. ASSUME NEW g \in Gettys, BootGetty(g) PROVE TableInv'
  <2>1. ~Alive(g)
    BY <1>3 DEF BootGetty, First, NotYet
  <2>2. Tracked' /\ \A x \in Owners : Alive(x)' => Alive(x) \/ x = g
    BY <1>3, <2>1, SpawnGettyTracked DEF BootGetty
  <2>3. NotYet'
    BY <1>0, <1>3, <2>2, SlotsAssumption DEF BootGetty, NotYet, Slots
  <2>4. QED
    BY <1>3, <2>2, <2>3 DEF BootGetty, Gone
<1>4. CASE BootTelnetd
  <2>1. ~Alive(Telnetd)
    BY <1>4 DEF BootTelnetd, NotYet
  <2>2. CASE SpawnTelnetd
    <3>1. Tracked' /\ \A x \in Owners : Alive(x)' => Alive(x) \/ x = Telnetd
      BY <1>4, <2>1, <2>2, SpawnTelnetdTracked DEF BootTelnetd
    <3>2. NotYet'
      BY <1>0, <1>4, <3>1, SlotsAssumption DEF BootTelnetd, NotYet, Slots
    <3>3. QED
      BY <1>4, <3>1, <3>2 DEF BootTelnetd, Gone
  <2>3. CASE UNCHANGED <<telnetd_pid, down, procVars>>
    <3>1. Quiet
      BY <1>4, <2>3 DEF BootTelnetd, Quiet, procVars
    <3>2. Tracked'
      BY <1>0, <3>1, QuietSame DEF Tracked
    <3>3. NotYet'
      BY <1>0, <1>4, <3>1, QuietSame DEF BootTelnetd, NotYet, Slots
    <3>4. QED
      BY <1>4, <3>2, <3>3 DEF BootTelnetd, Gone
  <2>4. QED
    BY <1>4, <2>2, <2>3 DEF BootTelnetd
<1>5. ASSUME NEW m \in Minions, BootMinion(m) PROVE TableInv'
  <2>1. ~Alive(m)
    BY <1>5 DEF BootMinion, First, NotYet
  <2>2. Tracked' /\ \A x \in Owners : Alive(x)' => Alive(x) \/ x = m
    BY <1>5, <2>1, SpawnMinionTracked DEF BootMinion
  <2>3. NotYet'
    BY <1>0, <1>5, <2>2, SlotsAssumption DEF BootMinion, NotYet, Slots
  <2>4. QED
    BY <1>5, <2>2, <2>3 DEF BootMinion, Gone
<1>6. ASSUME NEW p \in Pids, NEW x \in Jobs \cup {Orphan}, Spawned(p, x), Steady,
             UNCHANGED <<getty_pid, minion_pid, telnetd_pid>>
      PROVE  TableInv'
  <2>1. x \in Owners /\ x \notin Slots
    BY SlotsAssumption DEF Owners, Slots
  <2>2. \A s \in Slots : PidOf(s)' = PidOf(s)
    BY <1>6 DEF PidOf
  <2>3. Tracked' /\ \A y \in Owners : Alive(y)' <=> (Alive(y) \/ y = x)
    BY <1>6, <2>1, <2>2, SlotSpawned
  <2>4. NotYet'
    BY <1>0, <1>6, <2>1, <2>3 DEF NotYet, Steady, Slots
  <2>5. Gone'
    BY <1>0, <1>6, <2>1, SpawnedIs DEF Gone, Steady, Slots
  <2>6. QED
    BY <2>3, <2>4, <2>5
<1>7. CASE RunJob
  <2>1. Steady /\ job \in Jobs /\ UNCHANGED <<getty_pid, minion_pid, telnetd_pid>>
    BY <1>7 DEF RunJob, Steady, TypeOK, tableVars
  <2>2. CASE SpawnFailed
    BY <2>1, <2>2, QuietTable DEF SpawnFailed, Quiet, procVars
  <2>3. QED
    BY <1>6, <1>7, <2>1, <2>2 DEF RunJob
<1>8. ASSUME NEW p \in Pids, Adopt(p) PROVE TableInv'
  BY <1>6, <1>8 DEF Adopt, Steady, tableVars
<1>9. ASSUME NEW p \in Pids, Reap(p) PROVE TableInv'
  <2>1. \A q \in Pids, x \in Owners : Is(q, x)' <=> (Is(q, x) /\ q # p)
    BY <1>9, ReleasedIs DEF Reap
  <2>2. \A s \in Slots : PidOf(s)' = PidOf(s)
    BY <1>9 DEF Reap, PidOf, tableVars
  <2>3. Tracked'
    BY <1>0, <2>1, <2>2 DEF Tracked
  <2>4. NotYet'
    BY <1>9 DEF Reap, NotYet
  <2>5. Gone'
    BY <1>0, <1>9, <2>1 DEF Reap, Gone, Slots
  <2>6. QED
    BY <2>3, <2>4, <2>5
<1>10. ASSUME NEW p \in Pids, StartupReaps(p) PROVE TableInv'
  <2>1. \A q \in Pids, x \in Owners : Is(q, x)' <=> (Is(q, x) /\ q # p)
    BY <1>10, ReleasedIs DEF StartupReaps
  <2>2. \A s \in Slots : PidOf(s)' = PidOf(s)
    BY <1>10 DEF StartupReaps, PidOf, tableVars
  <2>3. Tracked'
    BY <1>0, <2>1, <2>2 DEF Tracked
  <2>4. NotYet'
    BY <1>0, <1>10, <2>1 DEF StartupReaps, NotYet, Alive
  <2>5. Gone'
    BY <1>10 DEF StartupReaps, Gone
  <2>6. QED
    BY <2>3, <2>4, <2>5
<1>11. CASE TelnetdHome
  <2>1. CASE SpawnTelnetd
    <3>1. Telnetd \in Slots /\ PidOf(Telnetd) = telnetd_pid
      BY SlotsAssumption DEF Slots, PidOf
    <3>2. ~Alive(Telnetd)
      BY <1>11, <3>1 DEF TelnetdHome, IsTelnetd, Gone, Tracked, Alive
    <3>3. Tracked'
      BY <1>11, <2>1, <3>2, SpawnTelnetdTracked DEF TelnetdHome
    <3>4. QED
      BY <1>11, <3>3 DEF TelnetdHome, NotYet, Gone
  <2>2. CASE UNCHANGED <<telnetd_pid, procVars>>
    BY <1>11, <2>2, QuietTable DEF TelnetdHome, Quiet, Steady, procVars
  <2>3. QED
    BY <1>11, <2>1, <2>2 DEF TelnetdHome
<1>12. ASSUME NEW g \in Gettys, GettyHome(g) PROVE TableInv'
  <2>1. g \in Slots /\ g \in Owners /\ PidOf(g) = home.pid /\ home.pid \in Pids
    BY <1>12 DEF GettyHome, First, Slots, Owners, PidOf, Gone
  <2>2. ~Alive(g)
    BY <1>12, <2>1 DEF GettyHome, Gone, Tracked, Alive
  <2>3. Tracked' /\ \A x \in Owners : Alive(x)' => Alive(x) \/ x = g
    BY <1>12, <2>2, SpawnGettyTracked DEF GettyHome
  <2>4. \A m \in Minions : ~Is(home.pid, m)'
    <3> SUFFICES ASSUME NEW m \in Minions PROVE ~Is(home.pid, m)'
      OBVIOUS
    <3>1. ~Is(home.pid, m) /\ m # g /\ m \in Owners
      BY <1>12, SlotsAssumption DEF GettyHome, Gone, Slots, Owners
    <3>2. CASE \E p \in Pids : Spawned(p, g)
      BY <1>12, <2>1, <3>1, <3>2, SpawnedIs DEF GettyHome
    <3>3. CASE SpawnFailed
      BY <1>12, <3>1, <3>3 DEF GettyHome, SpawnFailed, procVars, Is
    <3>4. QED
      BY <1>12, <3>2, <3>3 DEF GettyHome, SpawnGetty
  <2>5. QED
    BY <1>12, <2>1, <2>3, <2>4 DEF GettyHome, NotYet, Gone
<1>13. CASE NotAGetty
  <2>1. Quiet
    BY <1>13 DEF NotAGetty, Quiet, tableVars, procVars
  <2>2. Tracked'
    BY <1>0, <2>1, QuietSame DEF Tracked
  <2>3. Gone'
    BY <1>0, <1>13, <2>1, QuietSame DEF NotAGetty, Gone, Slots
  <2>4. QED
    BY <1>13, <2>2, <2>3 DEF NotAGetty, NotYet
<1>14. ASSUME NEW m \in Minions, MinionHome(m) PROVE TableInv'
  <2>1. m \in Slots /\ m \notin Gettys /\ PidOf(m) = home.pid /\ home.pid \in Pids
    BY <1>14, SlotsAssumption DEF MinionHome, First, Slots, PidOf, Gone
  <2>2. ~Alive(m)
    BY <1>14, <2>1 DEF MinionHome, Gone, Tracked, Alive
  <2>3. CASE SpawnMinion(m)
    BY <1>14, <2>2, <2>3, SpawnMinionTracked DEF MinionHome, NotYet, Gone
  <2>4. CASE /\ minion_pid' = [minion_pid EXCEPT ![m] = NoPid]
             /\ UNCHANGED <<started, procVars>>
    <3>1. \A s \in Slots \ {m} : PidOf(s)' = PidOf(s)
      BY <1>14, <2>4 DEF MinionHome, PidOf, TypeOK
    <3>2. Tracked'
      BY <2>1, <2>2, <2>4, <3>1, SlotForgotten
    <3>3. QED
      BY <1>14, <3>2 DEF MinionHome, NotYet, Gone
  <2>5. QED
    BY <1>14, <2>3, <2>4 DEF MinionHome
<1>15. QED
  BY <1>1, <1>2, <1>3, <1>4, <1>5, <1>7, <1>8, <1>9, <1>10, <1>11, <1>12, <1>13, <1>14
     DEF Next, prog_init, Boot, Shutdown, RunDueJobs, Wait, CameHome, Outside, Off,
         QuietAction

\* However spawns fail and pids come round again, init never has two gettys on a
\* tty, two telnetds or two copies of a minion.
THEOREM OneEachCorrect == Spec => []OneEach
<1>1. TableInv => OneEach
  BY DEF TableInv, Tracked, OneEach
<1>2. Spec => []TableInv
  BY TypeInit, TypeStep, TableInit, TableStep, PTL DEF Spec
<1>3. QED
  BY <1>1, <1>2, PTL

-----------------------------------------------------------------------------
(* The jobs left for later                                                  *)

(***************************************************************************)
(* The inductive invariant behind OneRenewal and RemovedWhenDue: what init *)
(* is about to remove is there, and due.                                   *)
(***************************************************************************)
DueHeld ==
  /\ scan_now <= now
  /\ pc = "unlink" /\ job \notin ByHand =>
       later[job].st = "full" /\ later[job].when <= scan_now

RenewalInv == OneRenewal /\ DueHeld

\* p still owes the program of job j its request.
Owes(p, j) == Unasked(p) /\ owner[p] = j

\* The three ways to hold a renewal.
LEMMA HolderIs ==
  ASSUME NEW j \in Jobs, NEW h
  PROVE  h \in Holders(j) <=> \/ h \in Pids /\ Owes(h, j)
                              \/ h = j /\ later[j].st = "full"
                              \/ h = NoJob /\ pc = "run" /\ job = j
BY DEF Holders, Owes

\* The same after the step.
LEMMA HolderIsNext ==
  ASSUME NEW j \in Jobs, NEW h
  PROVE  h \in Holders(j)' <=> \/ h \in Pids /\ Owes(h, j)'
                               \/ h = j /\ later'[j].st = "full"
                               \/ h = NoJob /\ pc' = "run" /\ job' = j
BY DEF Holders, Owes

\* A step that changes none of the three leaves the holders of j as they were.
LEMMA HoldersSame ==
  ASSUME NEW j \in Jobs,
         \A p \in Pids : Owes(p, j)' <=> Owes(p, j),
         later'[j].st = "full" <=> later[j].st = "full",
         pc' = "run" /\ job' = j <=> pc = "run" /\ job = j
  PROVE  Holders(j)' = Holders(j)
<1>1. \A h : h \in Holders(j)' <=> h \in Holders(j)
  BY HolderIs, HolderIsNext
<1>2. QED
  BY <1>1

\* Starting a process that is no job's program changes nothing about who owes what.
LEMMA SpawnedOwes ==
  ASSUME TypeOK, NEW p \in Pids, NEW who \in Owners \ Jobs, Spawned(p, who)
  PROVE  \A q \in Pids : \A j \in Jobs : Owes(q, j)' <=> Owes(q, j)
BY DEF TypeOK, Spawned, Owes, Unasked

\* Nor does reaping one.
LEMMA ReleasedOwes ==
  ASSUME TypeOK, NEW p \in Pids, Zombie(p), Released(p)
  PROVE  \A q \in Pids : \A j \in Jobs : Owes(q, j)' <=> Owes(q, j)
BY DEF TypeOK, Released, Zombie, Statuses, Owes, Unasked

\* Nothing that bears on a renewal changes.
Unmoved ==
  /\ UNCHANGED <<later, dropped>>
  /\ \A p \in Pids : \A j \in Jobs : Owes(p, j)' <=> Owes(p, j)
  /\ pc \in {"unlink", "run"} \/ pc' \in {"unlink", "run"} => UNCHANGED <<pc, job>>
  /\ pc \in {"unlink", "run"} => UNCHANGED scan_now
  /\ scan_now' <= now'

LEMMA UnmovedRenewal ==
  ASSUME TypeOK, RenewalInv, Unmoved
  PROVE  RenewalInv'
<1>1. \A j \in Jobs : Holders(j)' = Holders(j)
  BY HoldersSame DEF Unmoved
<1>2. OneRenewal'
  BY <1>1 DEF RenewalInv, OneRenewal, Unmoved
<1>3. DueHeld'
  BY DEF RenewalInv, DueHeld, Unmoved
<1>4. QED
  BY <1>2, <1>3 DEF RenewalInv

\* The actions that leave every renewal where it is.
UnmovedAction ==
  \/ Boot \/ NothingAsked \/ Terminate \/ GraceOver \/ Reboot \/ RebootFailed
  \/ BeginScan \/ SetAlarm \/ Wait \/ CameHome \/ AlarmFires \/ Tick
  \/ \E j \in Jobs : NotAJob(j) \/ NotDue(j)
  \/ \E c \in Cmds : Signal(c)
  \/ \E p \in Pids : StartupReaps(p) \/ Adopt(p)
  \/ \E p \in Pids, status \in Statuses : Exit(p, status) /\ ~Unasked(p)
  \/ UNCHANGED vars

LEMMA UnmovedActions == TypeOK /\ DueHeld /\ UnmovedAction => Unmoved
<1> SUFFICES ASSUME TypeOK, DueHeld, UnmovedAction PROVE Unmoved
  OBVIOUS
<1> USE DEF DueHeld, scanVars, sigVars, jobVars
<1>1. Gettys \cup Minions \cup {Telnetd, Orphan} \subseteq Owners \ Jobs
  BY SlotsAssumption DEF Owners, Slots
<1>2. UNCHANGED procVars => \A p \in Pids : \A j \in Jobs : Owes(p, j)' <=> Owes(p, j)
  BY DEF procVars, Owes, Unasked
<1>3. CASE StartupDone \/ BootDone \/ NothingAsked \/ Terminate \/ GraceOver \/ Reboot
  BY <1>2, <1>3 DEF StartupDone, BootDone, NothingAsked, Terminate, GraceOver, Reboot, Unmoved
<1>4. CASE RebootFailed \/ SetAlarm \/ CallWait \/ SleepForJob \/ SleepOver \/ NoChildrenLeft
  BY <1>2, <1>4 DEF RebootFailed, SetAlarm, CallWait, SleepForJob, SleepOver, NoChildrenLeft,
                    Unmoved
<1>5. CASE BeginScan \/ Tick \/ NotAGetty \/ NotAMinion
  BY <1>2, <1>5 DEF BeginScan, Tick, NotAGetty, NotAMinion, Unmoved, TypeOK
<1>6. CASE AlarmFires \/ \E c \in Cmds : Signal(c)
  BY <1>2, <1>6 DEF AlarmFires, Signal, Interrupted, Waiting, Unmoved
<1>7. CASE \E j \in Jobs : NotAJob(j) \/ NotDue(j)
  BY <1>2, <1>7 DEF NotAJob, NotDue, Unmoved
<1>8. CASE UNCHANGED vars
  BY <1>2, <1>8 DEF vars, procVars, Unmoved
<1>9. ASSUME NEW p \in Pids, Reap(p) \/ StartupReaps(p) PROVE Unmoved
  BY <1>9, ReleasedOwes DEF Reap, StartupReaps, Unmoved
<1>10. ASSUME NEW p \in Pids, Adopt(p) PROVE Unmoved
  BY <1>1, <1>10, SpawnedOwes DEF Adopt, Unmoved
<1>11. ASSUME NEW p \in Pids, NEW status \in Statuses, Exit(p, status), ~Unasked(p)
       PROVE  Unmoved
  <2>1. \A q \in Pids : \A j \in Jobs : Owes(q, j)' <=> Owes(q, j)
    BY <1>11 DEF Exit, Owes, Unasked, TypeOK, Statuses
  <2>2. UNCHANGED <<later, dropped>>
    BY <1>11 DEF Exit
  <2>3. QED
    BY <1>11, <2>1, <2>2 DEF Exit, Unmoved
<1>12. ASSUME NEW g \in Gettys, SpawnGetty(g)
       PROVE  \A p \in Pids : \A j \in Jobs : Owes(p, j)' <=> Owes(p, j)
  BY <1>1, <1>2, <1>12, SpawnedOwes DEF SpawnGetty, SpawnFailed
<1>13. ASSUME NEW m \in Minions, SpawnMinion(m)
       PROVE  \A p \in Pids : \A j \in Jobs : Owes(p, j)' <=> Owes(p, j)
  BY <1>1, <1>2, <1>13, SpawnedOwes DEF SpawnMinion, SpawnFailed
<1>14. ASSUME SpawnTelnetd
       PROVE  \A p \in Pids : \A j \in Jobs : Owes(p, j)' <=> Owes(p, j)
  BY <1>1, <1>2, <1>14, SpawnedOwes DEF SpawnTelnetd, SpawnFailed
<1>15. ASSUME NEW g \in Gettys, BootGetty(g) \/ GettyHome(g) PROVE Unmoved
  BY <1>12, <1>15 DEF BootGetty, GettyHome, Unmoved
<1>16. ASSUME NEW m \in Minions, BootMinion(m) \/ MinionHome(m) PROVE Unmoved
  BY <1>2, <1>13, <1>16 DEF BootMinion, MinionHome, Unmoved
<1>17. CASE BootTelnetd \/ TelnetdHome
  BY <1>2, <1>14, <1>17 DEF BootTelnetd, TelnetdHome, Unmoved
<1>18. QED
  BY <1>3, <1>4, <1>5, <1>6, <1>7, <1>8, <1>9, <1>10, <1>11, <1>15, <1>16, <1>17
     DEF UnmovedAction, Boot, Wait, CameHome

\* A job that gets full is full because its asker wrote it, and nobody else held it.
LEMMA NobodyElse ==
  ASSUME TypeOK, RenewalInv, NEW j \in Jobs \ ByHand, NEW h, NEW k,
         h \in Holders(j), k \in Holders(j)
  PROVE  h = k /\ j \notin dropped
BY DEF RenewalInv, OneRenewal

LEMMA DueRenewal ==
  ASSUME TypeOK, RenewalInv, NEW i \in Jobs, Due(i)
  PROVE  RenewalInv'
<1>1. \A j \in Jobs : Holders(j)' = Holders(j)
  <2>1. \A j \in Jobs, p \in Pids : Owes(p, j)' <=> Owes(p, j)
    BY DEF Due, procVars, Owes, Unasked
  <2>2. QED
    BY <2>1, HoldersSame DEF Due, jobVars
<1>2. OneRenewal'
  BY <1>1 DEF RenewalInv, OneRenewal, Due, jobVars
<1>3. DueHeld'
  BY DEF RenewalInv, DueHeld, Due, DueNow, jobVars
<1>4. QED
  BY <1>2, <1>3 DEF RenewalInv

LEMMA KillAllRenewal ==
  ASSUME TypeOK, RenewalInv, KillAll
  PROVE  RenewalInv'
<1>1. \A j \in Jobs, p \in Pids : ~Owes(p, j)'
  BY DEF KillAll, TypeOK, Owes, Unasked
<1>2. OneRenewal'
  <2> SUFFICES ASSUME NEW j \in Jobs \ ByHand
               PROVE  IF j \in dropped' THEN Holders(j)' = {}
                      ELSE \E h \in Holders(j)' : Holders(j)' = {h}
    BY DEF OneRenewal
  <2>1. \A h : h \in Holders(j)' <=> h = j /\ later[j].st = "full"
    BY <1>1, HolderIsNext DEF KillAll
  <2>2. later[j].st = "full" => j \notin dropped' /\ j \in Holders(j)'
    <3> SUFFICES ASSUME later[j].st = "full" PROVE j \notin dropped'
      BY <2>1
    <3>1. j \in Holders(j) /\ j \notin Pids
      BY HolderIs, IdleAssumption
    <3>2. j \notin dropped
      BY <3>1, NobodyElse
    <3>3. \A p \in Pids : ~Owes(p, j)
      BY <3>1, HolderIs, NobodyElse
    <3>4. QED
      BY <3>2, <3>3 DEF KillAll, Owes
  <2>3. CASE j \in dropped'
    BY <2>1, <2>2, <2>3
  <2>4. CASE j \notin dropped'
    <3>1. j \notin dropped /\ \A p \in Pids : ~Owes(p, j)
      BY <2>4 DEF KillAll, Owes
    <3>2. PICK h : h \in Holders(j)
      BY <3>1 DEF RenewalInv, OneRenewal
    <3>3. later[j].st = "full"
      BY <3>1, <3>2, HolderIs DEF KillAll
    <3>4. Holders(j)' = {j}
      BY <2>1, <3>3
    <3>5. QED
      BY <2>4, <3>4
  <2>5. QED
    BY <2>3, <2>4
<1>3. DueHeld'
  BY DEF RenewalInv, DueHeld, KillAll, scanVars
<1>4. QED
  BY <1>2, <1>3 DEF RenewalInv

LEMMA UnlinkJobRenewal ==
  ASSUME TypeOK, RenewalInv, UnlinkJob
  PROVE  RenewalInv'
<1>1. job \in Jobs /\ job \notin Pids
  BY IdleAssumption DEF UnlinkJob, TypeOK
<1>2. later' = [later EXCEPT ![job] = NoFile]
  BY DEF UnlinkJob, Unlinked
<1>3. ASSUME NEW j \in Jobs \ ByHand, j # job
      PROVE  Holders(j)' = Holders(j)
  <2>1. \A p \in Pids : Owes(p, j)' <=> Owes(p, j)
    BY <1>1, <1>3 DEF UnlinkJob, Asker, Owes, Unasked, TypeOK
  <2>2. QED
    BY <1>1, <1>2, <1>3, <2>1, HoldersSame DEF UnlinkJob, TypeOK, scanVars
<1>4. ASSUME NEW j \in Jobs \ ByHand, j = job
      PROVE  j \notin dropped /\ Holders(j)' = {NoJob}
  <2>1. later[j].st = "full" /\ j \in Holders(j)
    BY <1>4, HolderIs DEF RenewalInv, DueHeld, UnlinkJob
  <2>2. j \notin dropped /\ \A p \in Pids : ~Owes(p, j)
    BY <1>1, <1>4, <2>1, HolderIs, NobodyElse
  <2>3. \A p \in Pids : ~Owes(p, j)'
    BY <2>2 DEF UnlinkJob, Owes, Unasked, TypeOK
  <2>4. later'[j].st # "full"
    BY <1>2, <1>4 DEF NoFile, TypeOK
  <2>5. \A h : h \in Holders(j)' <=> h = NoJob
    BY <1>4, <2>3, <2>4, HolderIsNext DEF UnlinkJob, scanVars
  <2>6. QED
    BY <2>2, <2>5
<1>5. OneRenewal'
  <2> SUFFICES ASSUME NEW j \in Jobs \ ByHand
               PROVE  IF j \in dropped' THEN Holders(j)' = {}
                      ELSE \E h \in Holders(j)' : Holders(j)' = {h}
    BY DEF OneRenewal
  <2>1. CASE j = job
    BY <1>4, <2>1 DEF UnlinkJob
  <2>2. CASE j # job
    BY <1>3, <2>2 DEF RenewalInv, OneRenewal, UnlinkJob
  <2>3. QED
    BY <2>1, <2>2
<1>6. DueHeld'
  BY DEF RenewalInv, DueHeld, UnlinkJob, scanVars
<1>7. QED
  BY <1>5, <1>6 DEF RenewalInv

LEMMA RunJobRenewal ==
  ASSUME TypeOK, RenewalInv, RunJob
  PROVE  RenewalInv'
<1>1. job \in Jobs /\ job \in Owners /\ NoJob \notin Jobs \cup Pids
  BY IdleAssumption DEF RunJob, TypeOK, Owners
<1>2. DueHeld'
  BY DEF RenewalInv, DueHeld, RunJob
<1>3. ASSUME NEW j \in Jobs \ ByHand, j = job
      PROVE  /\ j \notin dropped /\ later[j].st # "full"
             /\ \A p \in Pids : ~Owes(p, j)
  <2>1. NoJob \in Holders(j)
    BY <1>3, HolderIs DEF RunJob
  <2>2. j \notin Holders(j) /\ \A p \in Pids : p \notin Holders(j)
    BY <1>1, <2>1, NobodyElse
  <2>3. QED
    BY <1>1, <2>1, <2>2, HolderIs, NobodyElse
<1>4. CASE \E p \in Pids : Spawned(p, job) /\ UNCHANGED dropped
  <2>1. PICK p \in Pids : Spawned(p, job) /\ UNCHANGED dropped
    BY <1>4
  <2>2. \A q \in Pids, j \in Jobs : Owes(q, j)' <=> Owes(q, j) \/ (q = p /\ j = job)
    BY <1>1, <2>1 DEF Spawned, NotAsked, Owes, Unasked, TypeOK
  <2>3. ASSUME NEW j \in Jobs \ ByHand, j # job PROVE Holders(j)' = Holders(j)
    BY <1>1, <2>2, <2>3, HoldersSame DEF RunJob
  <2>4. ASSUME NEW j \in Jobs \ ByHand, j = job PROVE Holders(j)' = {p}
    <3>1. \A h : h \in Holders(j)' <=> h = p
      BY <1>1, <1>3, <2>2, <2>4, HolderIsNext DEF RunJob
    <3>2. QED
      BY <3>1
  <2>5. OneRenewal'
    BY <1>1, <1>3, <2>1, <2>3, <2>4 DEF RenewalInv, OneRenewal
  <2>6. QED
    BY <1>2, <2>5 DEF RenewalInv
<1>5. CASE SpawnFailed /\ dropped' = dropped \cup {job}
  <2>1. \A q \in Pids, j \in Jobs : Owes(q, j)' <=> Owes(q, j)
    BY <1>5 DEF SpawnFailed, procVars, Owes, Unasked
  <2>2. ASSUME NEW j \in Jobs \ ByHand, j # job PROVE Holders(j)' = Holders(j)
    BY <1>1, <2>1, <2>2, HoldersSame DEF RunJob
  <2>3. ASSUME NEW j \in Jobs \ ByHand, j = job PROVE Holders(j)' = {}
    <3>1. \A h : h \notin Holders(j)'
      BY <1>1, <1>3, <2>1, <2>3, HolderIsNext DEF RunJob
    <3>2. QED
      BY <3>1
  <2>4. OneRenewal'
    BY <1>5, <2>2, <2>3 DEF RenewalInv, OneRenewal
  <2>5. QED
    BY <1>2, <2>4 DEF RenewalInv
<1>6. QED
  BY <1>4, <1>5 DEF RunJob

LEMMA AskOpenRenewal ==
  ASSUME TypeOK, RenewalInv, NEW i \in Jobs, NEW a \in DOMAIN ask, AskOpen(a, i)
  PROVE  /\ RenewalInv'
         /\ i \notin ByHand => later[i].st # "full"
<1>1. \A j \in Jobs : \A p \in Pids : Owes(p, j)' <=> Owes(p, j)
  BY DEF AskOpen, Owes, Unasked, TypeOK
<1>2. i \notin ByHand => later[i].st # "full"
  <2> SUFFICES ASSUME i \notin ByHand, later[i].st = "full" PROVE FALSE
    OBVIOUS
  <2>1. a \in Pids /\ Owes(a, i)
    BY IdleAssumption DEF AskOpen, MayAsk, Asker, ShellFor, Owes, Unasked, TypeOK
  <2>2. a \in Holders(i) /\ i \in Holders(i) /\ i \notin Pids
    BY <2>1, HolderIs, IdleAssumption
  <2>3. QED
    BY <2>1, <2>2, NobodyElse
<1>3. \A j \in Jobs \ ByHand : later'[j].st = "full" <=> later[j].st = "full"
  BY <1>2 DEF AskOpen, TypeOK
<1>4. \A j \in Jobs \ ByHand : Holders(j)' = Holders(j)
  BY <1>1, <1>3, HoldersSame DEF AskOpen, scanVars
<1>5. OneRenewal'
  BY <1>4 DEF RenewalInv, OneRenewal, AskOpen
<1>6. DueHeld'
  BY <1>2 DEF RenewalInv, DueHeld, AskOpen, scanVars, TypeOK
<1>7. QED
  BY <1>2, <1>5, <1>6 DEF RenewalInv

LEMMA AskWriteRenewal ==
  ASSUME TypeOK, RenewalInv, NEW i \in Jobs, NEW a \in DOMAIN ask, AskWrite(a, i)
  PROVE  /\ RenewalInv'
         /\ \A j \in Jobs \ ByHand : later[j].st = "full" => later'[j] = later[j]
<1>1. ASSUME i \notin ByHand PROVE a \in Pids /\ a \notin Jobs /\ owner[a] = i
  BY <1>1, IdleAssumption DEF AskWrite, MayAsk, Asker, ShellFor, TypeOK
<1>2. ASSUME ask[a].st = "open", i \notin ByHand
      PROVE  Owes(a, i) /\ later[i].st # "full"
  <2>1. Owes(a, i)
    BY <1>1, <1>2 DEF AskWrite, MayAsk, Asker, Owes, Unasked
  <2>2. QED
    BY <1>1, <1>2, <2>1, HolderIs, NobodyElse
<1>3. \A j \in Jobs \ ByHand : later[j].st = "full" => later'[j] = later[j]
  BY <1>2 DEF AskWrite, TypeOK
<1>4. ASSUME NEW j \in Jobs \ ByHand, j # i \/ ask[a].st # "open"
      PROVE  Holders(j)' = Holders(j)
  <2>1. \A p \in Pids : Owes(p, j)' <=> Owes(p, j)
    BY <1>1, <1>4, IdleAssumption
       DEF AskWrite, MayAsk, Asker, ShellFor, Owes, Unasked, NotAsked, TypeOK
  <2>2. later'[j].st = "full" <=> later[j].st = "full"
    BY <1>4 DEF AskWrite, TypeOK
  <2>3. QED
    BY <2>1, <2>2, HoldersSame DEF AskWrite, scanVars
<1>5. ASSUME i \notin ByHand, ask[a].st = "open"
      PROVE  i \notin dropped /\ Holders(i)' = {i}
  <2>1. a \in Pids /\ a \in Holders(i)
    BY <1>1, <1>2, <1>5, HolderIs
  <2>2. i \notin dropped /\ \A p \in Pids : Owes(p, i) => p = a
    BY <1>5, <2>1, HolderIs, NobodyElse
  <2>3. \A p \in Pids : ~Owes(p, i)'
    BY <2>1, <2>2 DEF AskWrite, Owes, Unasked, TypeOK
  <2>4. ~(pc = "run" /\ job = i)
    BY <1>5, <2>1, HolderIs, NobodyElse, IdleAssumption
  <2>5. later'[i].st = "full"
    BY <1>5 DEF AskWrite, TypeOK
  <2>6. \A h : h \in Holders(i)' <=> h = i
    BY <2>3, <2>4, <2>5, HolderIsNext DEF AskWrite, scanVars
  <2>7. QED
    BY <2>2, <2>6
<1>6. OneRenewal'
  <2> SUFFICES ASSUME NEW j \in Jobs \ ByHand
               PROVE  IF j \in dropped' THEN Holders(j)' = {}
                      ELSE \E h \in Holders(j)' : Holders(j)' = {h}
    BY DEF OneRenewal
  <2>1. CASE j = i /\ ask[a].st = "open"
    BY <1>5, <2>1 DEF AskWrite
  <2>2. CASE j # i \/ ask[a].st # "open"
    BY <1>4, <2>2 DEF RenewalInv, OneRenewal, AskWrite
  <2>3. QED
    BY <2>1, <2>2
<1>7. DueHeld'
  BY <1>3 DEF RenewalInv, DueHeld, AskWrite, scanVars, TypeOK
<1>8. QED
  BY <1>3, <1>6, <1>7 DEF RenewalInv

LEMMA ExitRenewal ==
  ASSUME TypeOK, RenewalInv, NEW p \in Pids, NEW status \in Statuses, Exit(p, status),
         Unasked(p)
  PROVE  RenewalInv'
<1>1. owner[p] \in Jobs /\ Owes(p, owner[p])
  BY DEF Unasked, Owes
<1>2. \A j \in Jobs, q \in Pids : Owes(q, j)' <=> Owes(q, j) /\ q # p
  BY DEF Exit, Owes, Unasked, Statuses, TypeOK
<1>3. ASSUME NEW j \in Jobs \ ByHand, j # owner[p] PROVE Holders(j)' = Holders(j)
  <2>1. \A q \in Pids : Owes(q, j)' <=> Owes(q, j)
    BY <1>2, <1>3 DEF Owes
  <2>2. QED
    BY <2>1, HoldersSame DEF Exit, scanVars
<1>4. ASSUME NEW j \in Jobs \ ByHand, j = owner[p] PROVE Holders(j)' = {}
  <2>1. p \in Holders(j)
    BY <1>1, <1>4, HolderIs
  <2>2. \A h : h \in Holders(j) => h = p
    BY <2>1, NobodyElse
  <2>3. \A h : h \notin Holders(j)'
    BY <1>2, <2>2, HolderIs, HolderIsNext, IdleAssumption DEF Exit, scanVars
  <2>4. QED
    BY <2>3
<1>5. OneRenewal'
  <2> SUFFICES ASSUME NEW j \in Jobs \ ByHand
               PROVE  IF j \in dropped' THEN Holders(j)' = {}
                      ELSE \E h \in Holders(j)' : Holders(j)' = {h}
    BY DEF OneRenewal
  <2>1. dropped' = dropped \cup {owner[p]}
    BY DEF Exit
  <2>2. CASE j = owner[p]
    BY <1>4, <2>1, <2>2
  <2>3. CASE j # owner[p]
    BY <1>3, <2>1, <2>3 DEF RenewalInv, OneRenewal
  <2>4. QED
    BY <2>2, <2>3
<1>6. DueHeld'
  BY DEF RenewalInv, DueHeld, Exit, scanVars
<1>7. QED
  BY <1>5, <1>6 DEF RenewalInv

LEMMA RenewalInit == Init => RenewalInv
<1> SUFFICES ASSUME Init PROVE RenewalInv
  OBVIOUS
<1>1. PICK pid \in [Jobs -> Pids] :
        /\ \A i, j \in Jobs : pid[i] = pid[j] => i = j
        /\ proc = [p \in Pids |-> IF \E j \in Jobs : pid[j] = p THEN "run" ELSE "free"]
        /\ owner = [p \in Pids |-> IF \E j \in Jobs : pid[j] = p
                                   THEN CHOOSE j \in Jobs : pid[j] = p ELSE Orphan]
  BY DEF Init
<1>2. ASSUME NEW j \in Jobs PROVE \A p \in Pids : Owes(p, j) <=> p = pid[j]
  <2>1. (CHOOSE i \in Jobs : pid[i] = pid[j]) = j
    BY <1>1
  <2>2. owner[pid[j]] = j /\ proc[pid[j]] = "run"
    BY <1>1, <2>1
  <2>3. \A p \in Pids : proc[p] = "run" => \E i \in Jobs : pid[i] = p /\ owner[p] = i
    BY <1>1
  <2>4. \A p \in Pids : ask[p].st = "no"
    BY DEF Init, NotAsked
  <2>5. QED
    BY <1>1, <2>2, <2>3, <2>4 DEF Owes, Unasked
<1>3. ASSUME NEW j \in Jobs PROVE Holders(j) = {pid[j]}
  <2>1. \A h : h \in Holders(j) <=> h = pid[j]
    BY <1>1, <1>2, HolderIs DEF Init, NoFile
  <2>2. QED
    BY <2>1
<1>4. dropped = {}
  BY DEF Init
<1>5. OneRenewal
  BY <1>3, <1>4 DEF OneRenewal
<1>6. DueHeld
  BY DEF Init, DueHeld
<1>7. QED
  BY <1>5, <1>6 DEF RenewalInv

LEMMA RenewalStep == TypeOK /\ RenewalInv /\ [Next]_vars => RenewalInv'
<1> SUFFICES ASSUME TypeOK, RenewalInv, [Next]_vars PROVE RenewalInv'
  OBVIOUS
<1>1. CASE UnmovedAction
  BY <1>1, UnmovedActions, UnmovedRenewal DEF RenewalInv
<1>2. CASE \E j \in Jobs : Due(j)
  BY <1>2, DueRenewal
<1>3. CASE KillAll
  BY <1>3, KillAllRenewal
<1>4. CASE UnlinkJob
  BY <1>4, UnlinkJobRenewal
<1>5. CASE RunJob
  BY <1>5, RunJobRenewal
<1>6. CASE \E j \in Jobs, a \in DOMAIN ask : AskOpen(a, j)
  BY <1>6, AskOpenRenewal
<1>7. CASE \E j \in Jobs, a \in DOMAIN ask : AskWrite(a, j)
  BY <1>7, AskWriteRenewal
<1>8. CASE \E p \in Pids, status \in Statuses : Exit(p, status) /\ Unasked(p)
  BY <1>8, ExitRenewal
<1>9. QED
  BY <1>1, <1>2, <1>3, <1>4, <1>5, <1>6, <1>7, <1>8
     DEF Next, prog_init, Shutdown, RunDueJobs, Outside, Off, UnmovedAction

LEMMA RenewalCorrect == Spec => [](TypeOK /\ RenewalInv)
  BY TypeInit, TypeStep, RenewalInit, RenewalStep, PTL DEF Spec

\* However its file is truncated, written, read and removed, and whatever is
\* killed, the request to run a program again is neither lost nor doubled.
THEOREM OneRenewalCorrect == Spec => []OneRenewal
<1>1. RenewalInv => OneRenewal
  BY DEF RenewalInv
<1>2. QED
  BY <1>1, RenewalCorrect, PTL

LEMMA RemovalStep ==
  ASSUME TypeOK, RenewalInv, [Next]_vars,
         NEW j \in Jobs \ ByHand, later[j].st = "full", later'[j].st # "full"
  PROVE  later[j].when <= now /\ pc' = "run"
<1>1. CASE UnmovedAction
  BY <1>1, UnmovedActions DEF RenewalInv, Unmoved
<1>2. CASE (\E i \in Jobs : Due(i)) \/ KillAll \/ RunJob
  BY <1>2 DEF Due, KillAll, RunJob, jobVars
<1>3. CASE \E p \in Pids, status \in Statuses : Exit(p, status)
  BY <1>3 DEF Exit
<1>4. CASE UnlinkJob
  BY <1>4 DEF UnlinkJob, Unlinked, RenewalInv, DueHeld, TypeOK, File
<1>5. CASE \E i \in Jobs, a \in DOMAIN ask : AskOpen(a, i)
  <2>1. PICK i \in Jobs, a \in DOMAIN ask : AskOpen(a, i)
    BY <1>5
  <2>2. j # i
    BY <2>1, AskOpenRenewal
  <2>3. QED
    BY <2>1, <2>2 DEF AskOpen, TypeOK
<1>6. CASE \E i \in Jobs, a \in DOMAIN ask : AskWrite(a, i)
  BY <1>6, AskWriteRenewal
<1>7. QED
  BY <1>1, <1>2, <1>3, <1>4, <1>5, <1>6
     DEF Next, prog_init, Shutdown, RunDueJobs, Outside, Off, UnmovedAction

\* A job that nobody asks for by hand is removed only by init, once it is due.
THEOREM RemovedWhenDueCorrect == Spec => RemovedWhenDue
<1>1. TypeOK /\ RenewalInv /\ [Next]_vars =>
        [\A j \in Jobs \ ByHand :
           later[j].st = "full" /\ later'[j].st # "full" =>
             later[j].when <= now /\ pc' = "run"]_vars
  BY RemovalStep
<1>2. QED
  BY <1>1, RenewalCorrect, PTL DEF Spec, RemovedWhenDue

(***************************************************************************)
(* Behind NoJobOverlooked and NoJobLeftBehind: between the scan and the    *)
(* end of wait() the result of the scan stands.                            *)
(***************************************************************************)
ScanKept ==
  pc \in {"armed", "wait"} => todo = {} /\ (until = 0 => next = 0)

\* What is left when init leaves its loop.
NoneWaiting == pc = "exited" => \A j \in Jobs \ ByHand : later[j].st # "full"

ScanInv == NoJobOverlooked /\ NoneWaiting /\ ScanKept

\* Outside the scan and the wait that follows it nothing is claimed.
LEMMA NotScanned ==
  ASSUME pc' \notin Scanned
  PROVE  ScanInv'
BY DEF Scanned, ScanInv, NoJobOverlooked, NoneWaiting, ScanKept

\* An asker that is done stays so until it is reaped.
LEMMA SpawnedWillWake ==
  ASSUME TypeOK, NEW p \in Pids, NEW who \in Owners, Spawned(p, who),
         NEW j \in Jobs, WillWake(j)
  PROVE  WillWake(j)'
BY DEF TypeOK, Spawned, WillWake, Is

\* A step that leaves the result of the scan, the jobs and their askers alone.
Rested ==
  /\ UNCHANGED <<todo, next, until, later>>
  /\ pc' \in Scanned => UNCHANGED pc
  /\ pc = "unlink" => UNCHANGED job
  /\ \A j \in Jobs : WillWake(j) => WillWake(j)'

LEMMA RestedScan ==
  ASSUME ScanInv, Rested
  PROVE  ScanInv'
<1>1. NoJobOverlooked'
  BY DEF ScanInv, NoJobOverlooked, Rested
<1>2. NoneWaiting' /\ ScanKept'
  BY DEF ScanInv, NoneWaiting, ScanKept, Rested, Scanned
<1>3. QED
  BY <1>1, <1>2 DEF ScanInv

\* Whatever job the scan has passed and left is one it will come back for.
LEMMA WaitScan ==
  ASSUME TypeOK, ScanInv, SetAlarm \/ CallWait \/ NoChildrenLeft
  PROVE  ScanInv'
<1>1. \A j \in Jobs : WillWake(j)' <=> WillWake(j)
  BY DEF SetAlarm, CallWait, NoChildrenLeft, procVars, WillWake, Is
<1>2. NoJobOverlooked'
  BY <1>1 DEF ScanInv, NoJobOverlooked, Scanned, SetAlarm, CallWait, NoChildrenLeft,
              scanVars, jobVars
<1>3. ScanKept'
  <2>1. CASE SetAlarm
    BY <2>1 DEF ScanKept, SetAlarm, Seconds, TypeOK
  <2>2. CASE CallWait \/ NoChildrenLeft
    BY <2>2 DEF ScanInv, ScanKept, CallWait, NoChildrenLeft, scanVars
  <2>3. QED
    BY <2>1, <2>2
<1>4. NoneWaiting'
  <2>1. CASE NoChildrenLeft
    <3>1. todo = {} /\ next = 0 /\ \A j \in Jobs : ~WillWake(j)
      BY <2>1 DEF NoChildrenLeft, NoJobToWaitFor, NoKids, ScanInv, ScanKept, WillWake, Is
    <3>2. \A j \in Jobs \ ByHand : later[j].st # "full"
      BY <2>1, <3>1 DEF NoChildrenLeft, ScanInv, NoJobOverlooked, Scanned
    <3>3. QED
      BY <2>1, <3>2 DEF NoChildrenLeft, NoneWaiting, jobVars
  <2>2. CASE SetAlarm \/ CallWait
    BY <2>2 DEF SetAlarm, CallWait, NoneWaiting
  <2>3. QED
    BY <2>1, <2>2
<1>5. QED
  BY <1>2, <1>3, <1>4 DEF ScanInv

LEMMA EntryScan ==
  ASSUME TypeOK, ScanInv, NEW i \in Jobs, NotAJob(i) \/ NotDue(i) \/ Due(i)
  PROVE  ScanInv'
<1>1. \A j \in Jobs : WillWake(j)' <=> WillWake(j)
  BY DEF NotAJob, NotDue, Due, procVars, WillWake, Is
<1>2. \A j \in Jobs : later[j].when \in Nat
  BY DEF TypeOK, File
<1>3. NoJobOverlooked'
  <2>1. CASE NotAJob(i)
    BY <1>1, <2>1 DEF ScanInv, NoJobOverlooked, Scanned, NotAJob, scanVars, jobVars
  <2>2. CASE NotDue(i)
    <3>1. next' \in Nat /\ next' # 0 /\ next' <= later[i].when /\ (next # 0 => next' <= next)
      BY <1>2, <2>2 DEF NotDue, DueNow, Earliest, TypeOK
    <3>2. ASSUME NEW j \in Jobs \ ByHand, later[j].st = "full", j \notin todo'
          PROVE  next' <= later[j].when \/ WillWake(j)
      <4>1. CASE j = i
        BY <3>1, <4>1
      <4>2. CASE j # i
        <5>1. (next # 0 /\ next <= later[j].when) \/ WillWake(j)
          BY <2>2, <3>2, <4>2 DEF ScanInv, NoJobOverlooked, Scanned, NotDue
        <5>2. QED
          BY <1>2, <3>1, <5>1 DEF TypeOK
      <4>3. QED
        BY <4>1, <4>2
    <3>3. QED
      BY <1>1, <2>2, <3>1, <3>2 DEF NoJobOverlooked, NotDue, jobVars
  <2>3. CASE Due(i)
    BY <1>1, <2>3 DEF ScanInv, NoJobOverlooked, Scanned, Due, scanVars, jobVars
  <2>4. QED
    BY <2>1, <2>2, <2>3
<1>4. NoneWaiting' /\ ScanKept'
  BY DEF NotAJob, NotDue, Due, NoneWaiting, ScanKept
<1>5. QED
  BY <1>3, <1>4 DEF ScanInv

LEMMA TakenScan ==
  ASSUME TypeOK, ScanInv, UnlinkJob \/ RunJob
  PROVE  ScanInv'
<1>1. job \in Jobs /\ job \in Owners
  BY DEF UnlinkJob, RunJob, TypeOK, Owners
<1>2. \A j \in Jobs : WillWake(j) => WillWake(j)'
  <2>1. CASE UnlinkJob
    BY <2>1 DEF UnlinkJob, WillWake, Is, TypeOK
  <2>2. CASE RunJob
    BY <1>1, <2>2, SpawnedWillWake DEF RunJob, SpawnFailed, procVars, WillWake, Is
  <2>3. QED
    BY <2>1, <2>2
<1>3. NoJobOverlooked'
  <2>1. CASE UnlinkJob
    <3>1. \A j \in Jobs : later'[j].st = "full" => j # job /\ later'[j] = later[j]
      BY <1>1, <2>1 DEF UnlinkJob, Unlinked, NoFile, TypeOK
    <3>2. QED
      BY <1>2, <2>1, <3>1 DEF UnlinkJob, ScanInv, NoJobOverlooked, Scanned, scanVars
  <2>2. CASE RunJob
    BY <1>2, <2>2 DEF RunJob, ScanInv, NoJobOverlooked, Scanned
  <2>3. QED
    BY <2>1, <2>2
<1>4. NoneWaiting' /\ ScanKept'
  BY DEF UnlinkJob, RunJob, NoneWaiting, ScanKept
<1>5. QED
  BY <1>3, <1>4 DEF ScanInv

LEMMA AskScan ==
  ASSUME TypeOK, RenewalInv, ScanInv, NEW i \in Jobs, NEW a \in DOMAIN ask,
         AskOpen(a, i) \/ AskWrite(a, i)
  PROVE  ScanInv'
<1>1. \A j \in Jobs : WillWake(j) => WillWake(j)'
  BY DEF AskOpen, AskWrite, WillWake, Is, TypeOK
<1>2. pc' = pc /\ next' = next /\ until' = until /\ job' = job
  BY DEF AskOpen, AskWrite, scanVars
<1>3. todo \subseteq todo' /\ (pc \in {"armed", "wait"} => todo' = todo)
  BY DEF AskOpen, AskWrite
<1>4. ASSUME NEW j \in Jobs \ ByHand, later'[j].st = "full"
      PROVE  later'[j] = later[j] \/ WillWake(j)'
  <2>1. CASE AskOpen(a, i)
    BY <1>4, <2>1 DEF AskOpen, TypeOK
  <2>2. CASE AskWrite(a, i) /\ j # i
    BY <2>2 DEF AskWrite, TypeOK
  <2>3. CASE AskWrite(a, i) /\ j = i
    <3>1. a \in Pids /\ proc[a] = "run" /\ owner[a] = j
      BY <2>3, IdleAssumption DEF AskWrite, MayAsk, Asker, ShellFor
    <3>2. ask'[a].st = "done"
      BY <2>3, <3>1 DEF AskWrite, TypeOK
    <3>3. QED
      BY <2>3, <3>1, <3>2 DEF AskWrite, WillWake, Is
  <2>4. QED
    BY <2>1, <2>2, <2>3
<1>5. NoJobOverlooked'
  BY <1>1, <1>2, <1>3, <1>4 DEF ScanInv, NoJobOverlooked
<1>6. NoneWaiting' /\ ScanKept'
  BY <1>2, <1>3
     DEF AskOpen, AskWrite, MayAsk, Stopped, ScanInv, NoneWaiting, ScanKept
<1>7. QED
  BY <1>5, <1>6 DEF ScanInv

\* What goes on around init while it scans and waits.
RestedAction ==
  \/ AlarmFires \/ Tick \/ UNCHANGED vars
  \/ \E c \in Cmds : Signal(c)
  \/ \E p \in Pids : Adopt(p) \/ \E status \in Statuses : Exit(p, status)

LEMMA RestedActions == TypeOK /\ RestedAction => Rested
<1> SUFFICES ASSUME TypeOK, RestedAction PROVE Rested
  OBVIOUS
<1> USE DEF scanVars, jobVars
<1>1. CASE UNCHANGED <<procVars, todo, scanVars, later>> /\ pc' \in {pc, "check", "kill"}
  BY <1>1 DEF procVars, WillWake, Is, Rested, Scanned
<1>2. CASE AlarmFires \/ \E c \in Cmds : Signal(c)
  BY <1>1, <1>2 DEF AlarmFires, Signal, Interrupted
<1>3. CASE Tick \/ UNCHANGED vars
  BY <1>1, <1>3 DEF Tick, vars
<1>4. ASSUME NEW p \in Pids, Adopt(p) PROVE Rested
  BY <1>4, SpawnedWillWake DEF Adopt, Rested, Owners
<1>5. ASSUME NEW p \in Pids, NEW status \in Statuses, Exit(p, status) PROVE Rested
  <2>1. \A j \in Jobs : WillWake(j) => WillWake(j)'
    BY <1>5 DEF Exit, WillWake, Is, Statuses, TypeOK
  <2>2. QED
    BY <1>5, <2>1 DEF Exit, Rested
<1>6. QED
  BY <1>2, <1>3, <1>4, <1>5 DEF RestedAction

\* Steps that end outside the scan and the wait.
ElsewhereAction ==
  \/ Boot \/ Shutdown \/ SleepForJob \/ SleepOver \/ CameHome
  \/ \E p \in Pids : Reap(p) \/ StartupReaps(p)

LEMMA ElsewhereActions == ElsewhereAction => pc' \notin Scanned
<1> SUFFICES ASSUME ElsewhereAction PROVE pc' \notin Scanned
  OBVIOUS
<1> USE DEF Scanned
<1>1. CASE Boot
  BY <1>1 DEF Boot, StartupDone, BootTelnetd, BootDone, BootGetty, BootMinion
<1>2. CASE Shutdown
  BY <1>2 DEF Shutdown, NothingAsked, Terminate, GraceOver, KillAll, Reboot, RebootFailed
<1>3. CASE CameHome
  BY <1>3 DEF CameHome, TelnetdHome, NotAGetty, NotAMinion, GettyHome, MinionHome
<1>4. CASE SleepForJob \/ SleepOver \/ \E p \in Pids : Reap(p) \/ StartupReaps(p)
  BY <1>4 DEF SleepForJob, SleepOver, Reap, StartupReaps
<1>5. QED
  BY <1>1, <1>2, <1>3, <1>4 DEF ElsewhereAction

LEMMA ScanStep == TypeOK /\ RenewalInv /\ ScanInv /\ [Next]_vars => ScanInv'
<1> SUFFICES ASSUME TypeOK, RenewalInv, ScanInv, [Next]_vars PROVE ScanInv'
  OBVIOUS
<1>1. CASE ElsewhereAction
  BY <1>1, ElsewhereActions, NotScanned
<1>2. CASE RestedAction
  BY <1>2, RestedActions, RestedScan
<1>3. CASE BeginScan
  BY <1>3 DEF BeginScan, ScanInv, NoJobOverlooked, NoneWaiting, ScanKept
<1>4. CASE SetAlarm \/ CallWait \/ NoChildrenLeft
  BY <1>4, WaitScan
<1>5. CASE UnlinkJob \/ RunJob
  BY <1>5, TakenScan
<1>6. CASE \E j \in Jobs : NotAJob(j) \/ NotDue(j) \/ Due(j)
  BY <1>6, EntryScan
<1>7. CASE \E j \in Jobs, a \in DOMAIN ask : AskOpen(a, j) \/ AskWrite(a, j)
  BY <1>7, AskScan
<1>8. QED
  BY <1>1, <1>2, <1>3, <1>4, <1>5, <1>6, <1>7
     DEF Next, prog_init, RunDueJobs, Wait, Outside, Off, RestedAction, ElsewhereAction

LEMMA ScanCorrect == Spec => []ScanInv
<1>1. Init => ScanInv
  BY DEF Init, ScanInv, NoJobOverlooked, NoneWaiting, ScanKept, Scanned
<1>2. QED
  BY <1>1, ScanStep, RenewalCorrect, PTL DEF Spec

\* A job init has gone past is one it, or the end of its asker, comes back for.
THEOREM NoJobOverlookedCorrect == Spec => []NoJobOverlooked
<1>1. ScanInv => NoJobOverlooked
  BY DEF ScanInv
<1>2. QED
  BY <1>1, ScanCorrect, PTL

\* Up to the last getty nothing else has been started, and init only stops
\* there for a getty that could not be.
BootKept ==
  /\ pc \in {"startup", "gettys", "bootfail"} =>
       \A s \in Minions \cup {Telnetd} : down[s] = "boot"
  /\ pc = "bootfail" => \E g \in Gettys : down[g] = "failed"

\* init gets to the end of its boot by starting a getty only.
LEMMA BootPlaces ==
  ASSUME TypeOK, [Next]_vars, pc' \in {"startup", "gettys", "bootfail"}
  PROVE  \/ \E g \in Gettys : BootGetty(g)
         \/ UNCHANGED down /\ pc \in {"startup", "gettys", "bootfail"}
              /\ (pc' = "bootfail" => pc = "bootfail")
<1> USE DEF tableVars
<1>1. CASE Boot
  BY <1>1 DEF Boot, StartupDone, BootTelnetd, BootDone, BootGetty, BootMinion
<1>2. CASE Shutdown
  BY <1>2 DEF Shutdown, NothingAsked, Terminate, GraceOver, KillAll, Reboot, RebootFailed
<1>3. CASE CameHome
  BY <1>3 DEF CameHome, TelnetdHome, NotAGetty, NotAMinion, GettyHome, MinionHome
<1>4. CASE RunDueJobs
  BY <1>4 DEF RunDueJobs, BeginScan, NotAJob, NotDue, Due, UnlinkJob, RunJob, SetAlarm
<1>5. CASE Wait
  BY <1>5 DEF Wait, CallWait, Reap, SleepForJob, SleepOver, NoChildrenLeft
<1>6. CASE Outside \/ Off \/ UNCHANGED vars
  BY <1>6 DEF Outside, Off, vars, Signal, AlarmFires, Interrupted, Waiting, Stopped, Tick,
              Exit, StartupReaps, Adopt, AskOpen, AskWrite
<1>7. QED
  BY <1>1, <1>2, <1>3, <1>4, <1>5, <1>6 DEF Next, prog_init

LEMMA BootStep == TypeOK /\ BootKept /\ [Next]_vars => BootKept'
<1> SUFFICES ASSUME TypeOK, BootKept, [Next]_vars,
                    pc' \in {"startup", "gettys", "bootfail"}
             PROVE  BootKept'
  BY DEF BootKept
<1>1. ASSUME NEW g \in Gettys, BootGetty(g) PROVE BootKept'
  <2>1. g \notin Minions \cup {Telnetd} /\ g \in Slots
    BY SlotsAssumption DEF Slots
  <2>2. \A s \in Slots \ {g} : down'[s] = down[s]
    BY <1>1 DEF BootGetty, SpawnGetty, TypeOK
  <2>3. \A s \in Minions \cup {Telnetd} : down'[s] = "boot"
    BY <1>1, <2>1, <2>2 DEF BootKept, BootGetty, Slots
  <2>4. QED
    BY <1>1, <2>3 DEF BootKept, BootGetty
<1>2. QED
  BY <1>1, BootPlaces DEF BootKept

LEMMA BootCorrect == Spec => []BootKept
<1>1. Init => BootKept
  BY DEF Init, BootKept, Slots
<1>2. QED
  BY <1>1, BootStep, TypeCorrect, PTL DEF Spec

\* init does not return and leave a job behind, unless a getty could not be
\* started at boot.
THEOREM NoJobLeftBehindCorrect == Spec => []NoJobLeftBehind
<1>1. NoneWaiting /\ BootKept => NoJobLeftBehind
  BY DEF NoneWaiting, BootKept, NoJobLeftBehind
<1>2. ScanInv => NoneWaiting
  BY DEF ScanInv
<1>3. QED
  BY <1>1, <1>2, ScanCorrect, BootCorrect, PTL

-----------------------------------------------------------------------------
(* What init promises of every pid that the kernel has not handed out while *)
(* init still remembered it.                                                *)

\* Only such a pid is in two entries.
Distinct ==
  \A s, t \in Slots : PidOf(s) = PidOf(t) => s = t \/ PidOf(s) \in again \cup {NoPid}

\* telnetd is only started when it is wanted, and after the gettys.
Wanted ==
  /\ pc \in {"startup", "gettys"} => down[Telnetd] = "boot"
  /\ down[Telnetd] = "up" => telnetd_port

\* A telnetd that gave up left a pid nobody has, until it is handed out again.
Buried ==
  telnetd_pid \notin again =>
    /\ down[Telnetd] = "gaveup" \/ (pc = "home" /\ home.pid = telnetd_pid) =>
         \A p \in Pids : p = telnetd_pid => proc[p] = "free"
    /\ down[Telnetd] = "gaveup" /\ pc = "home" => home.pid # telnetd_pid

FreshInv == Distinct /\ Wanted /\ Buried /\ Supervised

\* A new process has a pid no entry holds, or one that is handed out again, as
\* are those that were before.
LEMMA SpawnedFresh ==
  ASSUME TypeOK, NEW p \in Pids, NEW who, Spawned(p, who)
  PROVE  /\ \A s \in Slots : PidOf(s) = p \/ PidOf(s) \in again => PidOf(s) \in again'
         /\ telnetd_pid = p \/ telnetd_pid \in again => telnetd_pid \in again'
<1>1. telnetd_pid \in Remembered /\ \A s \in Slots : PidOf(s) \in Remembered
  BY DEF Remembered, PidOf, Slots
<1>2. QED
  BY <1>1 DEF Spawned

\* What boot, and what came home, do to slot s: it has a process when they say
\* so, and nothing else changes.
Refilled(s) ==
  /\ Distinct'
  /\ \A x \in Owners : Alive(x) => Alive(x)'
  /\ down'[s] = "up" => Alive(s)'
  /\ \A t \in Slots \ {s} : down'[t] = down[t] /\ PidOf(t)' = PidOf(t)
  /\ \A t \in Slots : PidOf(t) \in again => PidOf(t) \in again'
  /\ telnetd_pid \in again => telnetd_pid \in again'
  /\ \A p \in Pids : p = telnetd_pid /\ p \notin again' =>
                       (proc'[p] = "free" <=> proc[p] = "free")

LEMMA SlotTaken ==
  ASSUME TypeOK, Distinct, NEW s \in Slots, NEW p \in Pids,
         Spawned(p, s), PidOf(s)' = p, \A t \in Slots \ {s} : PidOf(t)' = PidOf(t),
         down' = [down EXCEPT ![s] = "up"]
  PROVE  Refilled(s)
<1>1. s \in Owners
  BY DEF Owners
<1>2. \A q \in Pids, x \in Owners : Is(q, x)' <=> (Is(q, x) \/ (q = p /\ x = s))
  BY <1>1, SpawnedIs
<1>3. Distinct'
  BY SpawnedFresh DEF Distinct
<1>4. /\ \A x \in Owners : Alive(x) => Alive(x)'
      /\ Alive(s)'
  BY <1>1, <1>2 DEF Alive
<1>5. \A q \in Pids : q = telnetd_pid /\ q \notin again' =>
                         (proc'[q] = "free" <=> proc[q] = "free")
  BY SpawnedFresh DEF Spawned, TypeOK
<1>6. QED
  BY <1>3, <1>4, <1>5, SpawnedFresh DEF Refilled, TypeOK

LEMMA SlotLeft ==
  ASSUME TypeOK, Distinct, NEW s \in Slots, UNCHANGED procVars,
         PidOf(s)' \in {PidOf(s), NoPid}, \A t \in Slots \ {s} : PidOf(t)' = PidOf(t),
         NEW why \in {"failed", "gaveup", "insta"}, down' = [down EXCEPT ![s] = why]
  PROVE  Refilled(s)
<1>1. Distinct'
  BY DEF Distinct, procVars
<1>2. \A x \in Owners : Alive(x) => Alive(x)'
  BY DEF procVars, Alive, Is
<1>3. QED
  BY <1>1, <1>2 DEF Refilled, TypeOK, procVars

LEMMA GettyRefilled ==
  ASSUME TypeOK, Distinct, NEW g \in Gettys, SpawnGetty(g),
         UNCHANGED <<minion_pid, telnetd_pid>>
  PROVE  Refilled(g)
<1>1. g \in Slots
  BY DEF Slots
<1>2. \A s \in Slots \ {g} : PidOf(s)' = PidOf(s)
  BY DEF SpawnGetty, PidOf, TypeOK
<1>3. ASSUME NEW p \in Pids, Spawned(p, g), getty_pid' = [getty_pid EXCEPT ![g] = p],
             down' = [down EXCEPT ![g] = "up"]
      PROVE  Refilled(g)
  <2>1. PidOf(g)' = p
    BY <1>3 DEF PidOf, TypeOK
  <2>2. QED
    BY <1>1, <1>2, <1>3, <2>1, SlotTaken
<1>4. CASE SpawnFailed /\ down' = [down EXCEPT ![g] = "failed"] /\ UNCHANGED getty_pid
  <2>1. PidOf(g)' = PidOf(g)
    BY <1>4 DEF PidOf
  <2>2. QED
    BY <1>1, <1>2, <1>4, <2>1, SlotLeft DEF SpawnFailed
<1>5. QED
  BY <1>3, <1>4 DEF SpawnGetty

LEMMA MinionRefilled ==
  ASSUME TypeOK, Distinct, NEW m \in Minions,
         UNCHANGED <<getty_pid, telnetd_pid>>,
         \/ SpawnMinion(m)
         \/ /\ minion_pid' = [minion_pid EXCEPT ![m] = NoPid]
            /\ down' = [down EXCEPT ![m] = "insta"]
            /\ UNCHANGED procVars
  PROVE  Refilled(m)
<1>1. m \in Slots /\ m \notin Gettys
  BY SlotsAssumption DEF Slots
<1>2. \A s \in Slots \ {m} : PidOf(s)' = PidOf(s)
  BY DEF SpawnMinion, PidOf, TypeOK
<1>3. ASSUME NEW p \in Pids, Spawned(p, m), minion_pid' = [minion_pid EXCEPT ![m] = p],
             down' = [down EXCEPT ![m] = "up"]
      PROVE  Refilled(m)
  <2>1. PidOf(m)' = p
    BY <1>1, <1>3 DEF PidOf, TypeOK
  <2>2. QED
    BY <1>1, <1>2, <1>3, <2>1, SlotTaken
<1>4. ASSUME NEW why \in {"failed", "insta"}, UNCHANGED procVars,
             minion_pid' = [minion_pid EXCEPT ![m] = NoPid],
             down' = [down EXCEPT ![m] = why]
      PROVE  Refilled(m)
  <2>1. PidOf(m)' = NoPid
    BY <1>1, <1>4 DEF PidOf, TypeOK
  <2>2. QED
    BY <1>1, <1>2, <1>4, <2>1, SlotLeft
<1>5. QED
  BY <1>3, <1>4 DEF SpawnMinion, SpawnFailed

LEMMA TelnetdRefilled ==
  ASSUME TypeOK, Distinct, UNCHANGED <<getty_pid, minion_pid>>,
         \/ SpawnTelnetd
         \/ /\ down' = [down EXCEPT ![Telnetd] = "gaveup"]
            /\ UNCHANGED <<telnetd_pid, procVars>>
  PROVE  Refilled(Telnetd)
<1>1. Telnetd \in Slots /\ Telnetd \notin Gettys \cup Minions
  BY SlotsAssumption DEF Slots
<1>2. \A s \in Slots \ {Telnetd} : PidOf(s)' = PidOf(s)
  BY DEF PidOf, Slots
<1>3. PidOf(Telnetd)' = telnetd_pid' /\ PidOf(Telnetd) = telnetd_pid
  BY <1>1 DEF PidOf
<1>4. ASSUME NEW p \in Pids, Spawned(p, Telnetd), telnetd_pid' = p,
             down' = [down EXCEPT ![Telnetd] = "up"]
      PROVE  Refilled(Telnetd)
  BY <1>1, <1>2, <1>3, <1>4, SlotTaken
<1>5. ASSUME NEW why \in {"failed", "gaveup"}, UNCHANGED procVars,
             telnetd_pid' \in {telnetd_pid, NoPid}, down' = [down EXCEPT ![Telnetd] = why]
      PROVE  Refilled(Telnetd)
  BY <1>1, <1>2, <1>3, <1>5, SlotLeft
<1>6. QED
  BY <1>4, <1>5 DEF SpawnTelnetd, SpawnFailed, procVars

\* Refilling the slot of what came home leaves no slot silently empty.
LEMMA RefilledSupervised ==
  ASSUME Gone, Distinct, Supervised, NEW s \in Slots, Refilled(s),
         pc \in {"home", "minion"} => home.pid = PidOf(s)
  PROVE  Supervised'
<1> SUFFICES ASSUME NEW t \in Slots, down'[t] = "up", PidOf(t)' \notin again' PROVE Alive(t)'
  BY DEF Supervised
<1>1. CASE t = s
  BY <1>1 DEF Refilled
<1>2. CASE t # s
  <2>0. PidOf(t) \notin again /\ down[t] = "up"
    BY <1>2 DEF Refilled
  <2>1. Alive(t) \/ Handling(t)
    BY <2>0 DEF Supervised
  <2>2. ~Handling(t)
    BY <1>2, <2>0, IdleAssumption DEF Handling, Distinct, Gone
  <2>3. QED
    BY <2>1, <2>2 DEF Refilled, Owners
<1>3. QED
  BY <1>1, <1>2

\* What is quiet for the tables is quiet for the history too, and does not take
\* init away from what came home.
LEMMA QuietHome ==
  ASSUME TypeOK, QuietAction
  PROVE  /\ UNCHANGED <<down, telnetd_port, again>>
         /\ pc = "home" => pc' = "home" /\ home' = home
         /\ pc = "minion" => \/ pc' = "minion" /\ home' = home
                             \/ \A m \in Minions : minion_pid[m] # home.pid
<1> USE DEF tableVars, procVars
<1>1. CASE BootDone \/ NothingAsked \/ Terminate \/ GraceOver \/ KillAll \/ Reboot
  BY <1>1 DEF BootDone, NothingAsked, Terminate, GraceOver, KillAll, Reboot
<1>2. CASE RebootFailed \/ BeginScan \/ UnlinkJob \/ SetAlarm \/ CallWait \/ SleepForJob
  BY <1>2 DEF RebootFailed, BeginScan, UnlinkJob, SetAlarm, CallWait, SleepForJob
<1>3. CASE SleepOver \/ NoChildrenLeft \/ NotAMinion \/ Tick \/ UNCHANGED vars
  BY <1>3 DEF SleepOver, NoChildrenLeft, NotAMinion, Tick, vars
<1>4. CASE AlarmFires \/ \E c \in Cmds : Signal(c)
  BY <1>4 DEF AlarmFires, Signal, Interrupted, Waiting
<1>5. CASE \E j \in Jobs : NotAJob(j) \/ NotDue(j) \/ Due(j)
  BY <1>5 DEF NotAJob, NotDue, Due
<1>6. CASE \E p \in Pids, status \in Statuses : Exit(p, status)
  BY <1>6 DEF Exit
<1>7. CASE \E j \in Jobs, a \in DOMAIN ask : AskOpen(a, j) \/ AskWrite(a, j)
  BY <1>7 DEF AskOpen, AskWrite
<1>8. QED
  BY <1>1, <1>2, <1>3, <1>4, <1>5, <1>6, <1>7 DEF QuietAction

LEMMA QuietFresh ==
  ASSUME TypeOK, TableInv, FreshInv, QuietAction
  PROVE  FreshInv'
<1>1. Quiet /\ Steady
  BY QuietActions
<1>2. Slots \subseteq Owners
  BY DEF Owners
<1>3. Distinct'
  BY <1>1, QuietSame, QuietHome DEF FreshInv, Distinct
<1>4. Wanted'
  BY <1>1, QuietHome DEF FreshInv, Wanted, Steady
<1>5. Buried'
  BY <1>1, QuietHome DEF FreshInv, Buried, Quiet, Steady
<1>6. Supervised'
  <2> SUFFICES ASSUME NEW s \in Slots, down'[s] = "up", PidOf(s)' \notin again'
               PROVE  Alive(s)' \/ Handling(s)'
    BY DEF Supervised
  <2>2. PidOf(s)' = PidOf(s) /\ (Alive(s) => Alive(s)')
    BY <1>1, <1>2, QuietSame
  <2>1. Alive(s) \/ Handling(s)
    BY <2>2, QuietHome DEF FreshInv, Supervised
  <2>3. Handling(s) => Handling(s)'
    BY <2>2, QuietHome, SlotsAssumption DEF Handling, PidOf
  <2>4. QED
    BY <2>1, <2>2, <2>3
<1>7. QED
  BY <1>3, <1>4, <1>5, <1>6 DEF FreshInv

\* A new process that no slot waits for.
LEMMA StrangerFresh ==
  ASSUME TypeOK, FreshInv, NEW p \in Pids,
         NEW x \in Jobs \cup {Orphan}, Spawned(p, x), Steady, UNCHANGED tableVars,
         pc \in {"home", "minion"} => UNCHANGED <<pc, home>>
  PROVE  FreshInv'
<1>1. \A s \in Slots : PidOf(s)' = PidOf(s) /\ (Alive(s) => Alive(s)')
  BY SpawnedIs DEF tableVars, PidOf, Alive, Owners
<1>2. Distinct' /\ Wanted'
  BY <1>1, SpawnedFresh DEF FreshInv, Distinct, Wanted, tableVars, Steady
<1>3. Buried'
  BY SpawnedFresh DEF FreshInv, Buried, tableVars, Steady, Spawned, TypeOK
<1>4. Supervised'
  BY <1>1, SpawnedFresh DEF FreshInv, Supervised, Handling, tableVars
<1>5. QED
  BY <1>2, <1>3, <1>4 DEF FreshInv

LEMMA FreshStep ==
  ASSUME TypeOK, TableInv, FreshInv, [Next]_vars
  PROVE  FreshInv'
<1> USE DEF FreshInv
<1>0. Slots \subseteq Owners /\ Telnetd \in Slots /\ Telnetd \notin Gettys \cup Minions
  BY SlotsAssumption DEF Owners, Slots
<1>1. CASE QuietAction
  BY <1>1, QuietFresh
<1>2. CASE StartupDone \/ NotAGetty
  <2>1. \A s \in Slots : PidOf(s)' = PidOf(s) /\ (Alive(s)' <=> Alive(s))
    BY <1>2 DEF StartupDone, NotAGetty, tableVars, procVars, PidOf, Alive, Is
  <2>2. Distinct' /\ Wanted'
    BY <1>2, <2>1 DEF Distinct, Wanted, StartupDone, NotAGetty, tableVars, procVars
  <2>3. Buried'
    BY <1>2 DEF Buried, StartupDone, NotAGetty, tableVars, procVars
  <2>4. Supervised'
    <3>1. CASE StartupDone
      BY <2>1, <3>1 DEF Supervised, Handling, StartupDone, tableVars, procVars
    <3>2. CASE NotAGetty
      <4> SUFFICES ASSUME NEW s \in Slots, down[s] = "up", PidOf(s) \notin again, ~Alive(s)
                   PROVE  Handling(s)'
        BY <2>1, <3>2 DEF Supervised, NotAGetty, tableVars, procVars
      <4>1. home.pid = PidOf(s)
        BY <3>2 DEF Supervised, Handling, NotAGetty
      <4>2. s \in Minions
        BY <1>0, <3>2, <4>1 DEF NotAGetty, PidOf, Slots, IsTelnetd, Wanted
      <4>3. QED
        BY <2>1, <3>2, <4>1, <4>2 DEF Handling, NotAGetty
    <3>3. QED
      BY <1>2, <3>1, <3>2
  <2>5. QED
    BY <2>2, <2>3, <2>4
<1>3. ASSUME NEW g \in Gettys, BootGetty(g) PROVE FreshInv'
  <2>1. Refilled(g) /\ g \in Slots /\ g # Telnetd
    BY <1>0, <1>3, GettyRefilled DEF BootGetty, Slots
  <2>2. Supervised'
    BY <1>3, <2>1, RefilledSupervised DEF BootGetty, TableInv
  <2>3. QED
    BY <1>0, <1>3, <2>1, <2>2 DEF BootGetty, Refilled, Wanted, Buried
<1>4. CASE BootTelnetd
  <2>1. CASE telnetd_port /\ SpawnTelnetd /\ UNCHANGED telnetd_port
    <3>1. Refilled(Telnetd)
      BY <1>4, <2>1, TelnetdRefilled DEF BootTelnetd
    <3>2. Supervised'
      BY <1>0, <1>4, <3>1, RefilledSupervised DEF BootTelnetd, TableInv
    <3>3. Wanted' /\ Buried'
      BY <1>0, <1>4, <2>1 DEF BootTelnetd, SpawnTelnetd, Wanted, Buried, TypeOK
    <3>4. QED
      BY <3>1, <3>2, <3>3 DEF Refilled
  <2>2. CASE telnetd_port' = FALSE /\ UNCHANGED <<telnetd_pid, down, procVars>>
    <3>1. \A s \in Slots : PidOf(s)' = PidOf(s) /\ (Alive(s)' <=> Alive(s))
      BY <1>4, <2>2 DEF BootTelnetd, procVars, PidOf, Alive, Is
    <3>2. Distinct' /\ Wanted' /\ Buried'
      BY <1>0, <1>4, <2>2, <3>1 DEF BootTelnetd, Distinct, Wanted, Buried, procVars
    <3>3. Supervised'
      BY <1>4, <2>2, <3>1 DEF BootTelnetd, Supervised, Handling, procVars
    <3>4. QED
      BY <3>2, <3>3
  <2>3. QED
    BY <1>4, <2>1, <2>2 DEF BootTelnetd
<1>5. ASSUME NEW m \in Minions, BootMinion(m) PROVE FreshInv'
  <2>1. Refilled(m) /\ m \in Slots /\ m # Telnetd
    BY <1>0, <1>5, MinionRefilled DEF BootMinion, Slots
  <2>2. Supervised'
    BY <1>5, <2>1, RefilledSupervised DEF BootMinion, TableInv
  <2>3. QED
    BY <1>0, <1>5, <2>1, <2>2 DEF BootMinion, Refilled, Wanted, Buried
<1>6. CASE RunJob
  <2>1. CASE \E p \in Pids : Spawned(p, job)
    BY <1>6, <2>1, StrangerFresh DEF RunJob, Steady, TypeOK
  <2>2. CASE SpawnFailed
    <3>1. \A s \in Slots : PidOf(s)' = PidOf(s) /\ (Alive(s)' <=> Alive(s))
      BY <1>6, <2>2 DEF RunJob, SpawnFailed, tableVars, procVars, PidOf, Alive, Is
    <3>2. QED
      BY <1>6, <2>2, <3>1 DEF RunJob, SpawnFailed, tableVars, procVars, Distinct, Wanted,
                             Buried, Supervised, Handling
  <2>3. QED
    BY <1>6, <2>1, <2>2 DEF RunJob
<1>7. ASSUME NEW p \in Pids, Adopt(p) PROVE FreshInv'
  BY <1>7, StrangerFresh DEF Adopt, Steady
<1>8. ASSUME NEW p \in Pids, Reap(p) PROVE FreshInv'
  <2>1. \A q \in Pids, x \in Owners : Is(q, x)' <=> (Is(q, x) /\ q # p)
    BY <1>8, ReleasedIs DEF Reap
  <2>2. \A s \in Slots : PidOf(s)' = PidOf(s)
    BY <1>8 DEF Reap, PidOf, tableVars
  <2>3. Distinct' /\ Wanted'
    BY <1>8, <2>2 DEF Reap, Released, Distinct, Wanted, tableVars
  <2>4. Buried'
    BY <1>8 DEF Reap, Released, Zombie, Statuses, Buried, tableVars, TypeOK
  <2>5. Supervised'
    <3> SUFFICES ASSUME NEW s \in Slots, down[s] = "up", PidOf(s) \notin again
                 PROVE  Alive(s)' \/ Handling(s)'
      BY <1>8, <2>2 DEF Supervised, Reap, Released, tableVars
    <3>1. PICK q \in Pids : Is(q, s)
      BY <1>8 DEF Reap, Supervised, Handling, Alive
    <3>2. CASE q = p
      BY <1>8, <2>2, <3>1, <3>2 DEF Reap, Handling, TableInv, Tracked
    <3>3. CASE q # p
      BY <1>0, <2>1, <3>1, <3>3 DEF Alive
    <3>4. QED
      BY <3>2, <3>3
  <2>6. QED
    BY <2>3, <2>4, <2>5
<1>9. ASSUME NEW p \in Pids, StartupReaps(p) PROVE FreshInv'
  <2>1. \A s \in Slots : ~Alive(s)
    BY <1>9 DEF StartupReaps, TableInv, NotYet
  <2>2. \A s \in Slots : PidOf(s)' = PidOf(s)
    BY <1>9 DEF StartupReaps, PidOf, tableVars
  <2>3. Distinct' /\ Wanted'
    BY <1>9, <2>2 DEF StartupReaps, Released, Distinct, Wanted, tableVars
  <2>4. Buried'
    BY <1>9 DEF StartupReaps, Released, Buried, tableVars, TypeOK
  <2>5. Supervised'
    BY <1>9, <2>1, <2>2 DEF StartupReaps, Released, Supervised, Handling, tableVars
  <2>6. QED
    BY <2>3, <2>4, <2>5
<1>10. CASE TelnetdHome
  <2>1. PidOf(Telnetd) = telnetd_pid
    BY <1>0 DEF PidOf
  <2>2. Refilled(Telnetd)
    BY <1>10, TelnetdRefilled DEF TelnetdHome
  <2>3. Supervised'
    BY <1>0, <1>10, <2>1, <2>2, RefilledSupervised DEF TelnetdHome, IsTelnetd, TableInv
  <2>4. Wanted'
    BY <1>10 DEF TelnetdHome, IsTelnetd, Wanted
  <2>5. Buried'
    BY <1>0, <1>10 DEF TelnetdHome, IsTelnetd, SpawnTelnetd, Buried, procVars, TypeOK
  <2>6. QED
    BY <2>2, <2>3, <2>4, <2>5 DEF Refilled
<1>11. ASSUME NEW g \in Gettys, GettyHome(g) PROVE FreshInv'
  <2>1. Refilled(g) /\ g \in Slots /\ g # Telnetd /\ PidOf(g) = home.pid
    BY <1>0, <1>11, GettyRefilled DEF GettyHome, First, Slots, PidOf
  <2>2. Supervised'
    BY <1>11, <2>1, RefilledSupervised DEF GettyHome, TableInv
  <2>3. Wanted' /\ Buried'
    BY <1>0, <1>11, <2>1 DEF GettyHome, Refilled, Wanted, Buried
  <2>4. QED
    BY <2>1, <2>2, <2>3 DEF Refilled
<1>12. ASSUME NEW m \in Minions, MinionHome(m) PROVE FreshInv'
  <2>1. Refilled(m) /\ m \in Slots /\ m # Telnetd /\ PidOf(m) = home.pid
    BY <1>0, <1>12, MinionRefilled, SlotsAssumption DEF MinionHome, First, Slots, PidOf
  <2>2. Supervised'
    BY <1>12, <2>1, RefilledSupervised DEF MinionHome, TableInv
  <2>3. Wanted' /\ Buried'
    BY <1>0, <1>12, <2>1 DEF MinionHome, Refilled, Wanted, Buried
  <2>4. QED
    BY <2>1, <2>2, <2>3 DEF Refilled
<1>13. QED
  BY <1>1, <1>2, <1>3, <1>4, <1>5, <1>6, <1>7, <1>8, <1>9, <1>10, <1>11, <1>12
     DEF Next, prog_init, Boot, Shutdown, RunDueJobs, Wait, CameHome, Outside, Off,
         QuietAction

LEMMA FreshInit == Init => FreshInv
<1> SUFFICES ASSUME Init PROVE FreshInv
  OBVIOUS
<1>1. Telnetd \in Slots /\ \A s \in Slots : down[s] = "boot" /\ PidOf(s) = NoPid
  BY DEF Init, PidOf, Slots
<1>2. QED
  BY <1>1 DEF Init, FreshInv, Distinct, Wanted, Buried, Supervised

LEMMA FreshCorrect == Spec => [](TypeOK /\ TableInv /\ FreshInv)
<1>1. TypeOK /\ TableInv /\ FreshInv /\ [Next]_vars => (TypeOK /\ TableInv /\ FreshInv)'
  BY TypeStep, TableStep, FreshStep
<1>2. QED
  BY <1>1, TypeInit, TableInit, FreshInit, PTL DEF Spec

\* Unless its last start failed, or it gave up or died at once, or its pid was
\* handed out while another slot remembered it, whatever init started is there,
\* or is being replaced.
THEOREM SupervisedCorrect == Spec => []Supervised
<1>1. FreshInv => Supervised
  BY DEF FreshInv
<1>2. QED
  BY <1>1, FreshCorrect, PTL

\* A telnetd that gave up is left alone until its very pid is handed out again,
\* whatever else comes home and however pids come round: the counterexample of
\* SmoldStalePid is the only kind there is.
THEOREM LeftAloneTillReuseCorrect == Spec => LeftAloneTillReuse
<1>1. TypeOK /\ TableInv /\ FreshInv /\ [Next]_vars =>
        [down[Telnetd] = "gaveup" /\ telnetd_pid \notin again =>
           down'[Telnetd] = "gaveup"]_vars
  <2> SUFFICES ASSUME TypeOK, TableInv, FreshInv, [Next]_vars, down[Telnetd] = "gaveup",
                      telnetd_pid \notin again
               PROVE  down'[Telnetd] = "gaveup"
    OBVIOUS
  <2> USE DEF FreshInv, tableVars
  <2>1. Telnetd \in Slots /\ Telnetd \notin Gettys \cup Minions
    BY SlotsAssumption DEF Slots
  <2>2. CASE QuietAction
    BY <2>2, QuietHome
  <2>3. CASE StartupDone \/ NotAGetty \/ RunJob
    BY <2>3 DEF StartupDone, NotAGetty, RunJob
  <2>4. CASE BootTelnetd
    BY <2>4 DEF BootTelnetd, Wanted
  <2>5. CASE TelnetdHome
    BY <2>5 DEF TelnetdHome, IsTelnetd, Buried
  <2>6. CASE \E g \in Gettys : BootGetty(g) \/ GettyHome(g)
    BY <2>1, <2>6 DEF BootGetty, GettyHome, SpawnGetty, TypeOK
  <2>7. CASE \E m \in Minions : BootMinion(m) \/ MinionHome(m)
    BY <2>1, <2>7 DEF BootMinion, MinionHome, SpawnMinion, TypeOK
  <2>8. CASE \E p \in Pids : Reap(p) \/ StartupReaps(p) \/ Adopt(p)
    BY <2>8 DEF Reap, StartupReaps, Adopt
  <2>9. QED
    BY <2>2, <2>3, <2>4, <2>5, <2>6, <2>7, <2>8
       DEF Next, prog_init, Boot, Shutdown, RunDueJobs, Wait, CameHome, Outside, Off,
           QuietAction
<1>2. QED
  BY <1>1, FreshCorrect, PTL DEF Spec, LeftAloneTillReuse

=============================================================================
