-------------------------------- MODULE Clock --------------------------------
(* rtc.c: hwclock and rtcwake, each a few calls between two clocks that go *)
(* on meanwhile: the system's, a number of seconds, and the RTC, a date.   *)
EXTENDS Date

CONSTANTS Half,         \* time_t is from -Half to Half - 1
          Jobs,         \* what is run, and how the clocks stand
          MaxTicks      \* bound: seconds that pass

(* A job: what ("show", hwclock's "s" and "w", or rtcwake's mode: "alarm", *)
(* "disable", "no", "mem"), seconds and epoch as -s and -t give them, each *)
(* 0 when not given, sys and rtc. The chip's years end before a time_t that *)
(* has wrapped is positive again; only hwclock -w asks whether the system's *)
(* clock is before 1970.                                                   *)
ClockAssumption ==
    /\ {Minute, Hour, Day, Half} \subseteq Nat \ {0} /\ MaxTicks \in Nat
    /\ Hour % Minute = 0 /\ Day % Hour = 0
    /\ \A j \in Jobs : /\ j.what \in {"show", "s", "w", "alarm", "disable", "no", "mem"}
                       /\ {j.seconds, j.epoch} \subseteq 0..(2 * Half - 1)
                       /\ j.rtc \in Dates /\ Valid(j.rtc) /\ Elapsed(j.rtc) + MaxTicks < 2 * Half
                       /\ j.sys \in -Half..(Half - 1 - MaxTicks) /\ (j.what # "w" => j.sys >= 0)

VARIABLES job,
          sys,          \* the system clock
          rtc,          \* the RTC
          alarm,        \* its alarm
          pc,
          t,            \* rtc_now, or what hwclock has read
          when,
          lag,          \* history: seconds that passed since then
          exit,
          ticks

vars == <<job, sys, rtc, alarm, pc, t, when, lag, exit, ticks>>

\* As a time_t keeps it.
Time(x) == ((x + Half) % (2 * Half)) - Half

Init == /\ job \in Jobs
        /\ sys = job.sys /\ rtc = job.rtc
        /\ alarm = [on |-> job.what \in {"alarm", "disable"}, time |-> NextSecond(job.rtc)]
        /\ pc = "start" /\ t = 0 /\ when = 0 /\ lag = 0 /\ exit = "" /\ ticks = 0

End(how) == pc' = "done" /\ exit' = how
Goes(next) == pc' = next /\ exit' = exit

Wakes == job.what \in {"no", "mem"}       \* mode >= MODE_NO

\* rtcwake needs to be told when, once; with two answers it does nothing.
Refused == \/ job.seconds # 0 /\ job.epoch # 0
           \/ Wakes /\ job.seconds = 0 /\ job.epoch = 0

Refuse == /\ pc = "start" /\ Refused
          /\ End("usage")
          /\ UNCHANGED <<job, sys, rtc, alarm, t, when, lag, ticks>>

\* The RTC is opened; hwclock -w and two of rtcwake's modes do not read it.
Open == /\ pc = "start" /\ ~Refused
        /\ Goes(CASE job.what = "w" -> "read sys"
                  [] job.what = "disable" -> "disable"
                  [] job.what = "alarm" -> "show"
                  [] OTHER -> "read rtc")
        /\ UNCHANGED <<job, sys, rtc, alarm, t, when, lag, ticks>>

\* Any of the calls fails, and what was done stays done.
Fails == /\ pc \notin {"done", "asleep", "choose"}
         /\ End("failed")
         /\ UNCHANGED <<job, sys, rtc, alarm, t, when, lag, ticks>>

\* show_alarm() reads and prints; RTC_AIE_OFF.
ShowAlarm == /\ pc = "show" /\ End("ok")
             /\ UNCHANGED <<job, sys, rtc, alarm, t, when, lag, ticks>>

DisableAlarm == /\ pc = "disable" /\ End("ok")
                /\ alarm' = [alarm EXCEPT !.on = FALSE]
                /\ UNCHANGED <<job, sys, rtc, t, when, lag, ticks>>

-----------------------------------------------------------------------------
(* hwclock.                                                                 *)

\* read_rtc(), and rtc_to_epoch() of what it says.
ReadRtc == /\ pc = "read rtc"
           /\ t' = Time(DateToEpoch(rtc)) /\ lag' = 0
           /\ CASE job.what = "show" -> End("ok")
                [] job.what = "s" -> Goes("set sys")
                [] Wakes -> Goes("choose")
           /\ UNCHANGED <<job, sys, rtc, alarm, when, ticks>>

\* hctosys(): the kernel does not take a time before 1970.
SetSystem == /\ pc = "set sys" /\ t >= 0
             /\ sys' = t /\ End("ok")
             /\ UNCHANGED <<job, rtc, alarm, t, when, lag, ticks>>

\* systohc(): the chip cannot say a time before 1970.
ReadSystem == /\ pc = "read sys"
              /\ t' = sys /\ lag' = 0
              /\ IF sys < 0 THEN End("data") ELSE Goes("set rtc")
              /\ UNCHANGED <<job, sys, rtc, alarm, when, ticks>>

SetRtc == /\ pc = "set rtc" /\ Valid(DateFromEpoch(t))
          /\ rtc' = DateFromEpoch(t) /\ End("ok")
          /\ UNCHANGED <<job, sys, alarm, t, when, lag, ticks>>

-----------------------------------------------------------------------------
(* rtcwake.                                                                 *)

\* Mutant: the alarm is compared with the system clock.
AlarmTimeOfSystem == IF job.seconds # 0 THEN Time(t + job.seconds) ELSE Time(job.epoch)

\* The alarm goes by the RTC: a time of the system clock is moved by what lies
\* between the two.
AlarmTime == IF job.seconds # 0 THEN Time(t + job.seconds)
             ELSE Time(job.epoch - sys + t)

Choose == /\ pc = "choose"
          /\ when' = AlarmTime
          /\ IF AlarmTime <= t THEN End("past") ELSE Goes("arm")
          /\ UNCHANGED <<job, sys, rtc, alarm, t, lag, ticks>>

\* set_alarm(): one that is not in the future any more goes off at once.
SetAlarm ==
    /\ pc = "arm" /\ Valid(DateFromEpoch(when))
    /\ LET a == DateFromEpoch(when)
       IN alarm' = [on |-> Elapsed(a) > Elapsed(rtc), time |-> a]
    /\ IF job.what = "no" THEN End("ok") ELSE Goes("suspend")
    /\ UNCHANGED <<job, sys, rtc, t, when, lag, ticks>>

\* POWER_STATE_PATH is written to; the write returns when the machine wakes up.
Suspend == /\ pc = "suspend"
           /\ Goes("asleep")
           /\ UNCHANGED <<job, sys, rtc, alarm, t, when, lag, ticks>>

\* A second passes for both clocks. The alarm goes off once, and wakes.
Tick ==
    /\ ticks < MaxTicks
    /\ ticks' = ticks + 1
    /\ sys' = sys + 1
    /\ rtc' = NextSecond(rtc)
    /\ lag' = IF pc \in {"asleep", "done"} THEN lag ELSE lag + 1
    /\ LET off == alarm.on /\ rtc' = alarm.time
       IN /\ alarm' = [alarm EXCEPT !.on = @ /\ ~off]
          /\ IF off /\ pc = "asleep" THEN End("ok") ELSE UNCHANGED <<pc, exit>>
    /\ UNCHANGED <<job, t, when>>

RtcStep == \/ Refuse \/ Open \/ Fails \/ ShowAlarm \/ DisableAlarm \/ ReadRtc \/ SetSystem
           \/ ReadSystem \/ SetRtc \/ Choose \/ SetAlarm \/ Suspend
Next == RtcStep \/ Tick

-----------------------------------------------------------------------------

TypeOK ==
    /\ sys \in Int /\ t \in -Half..(Half - 1) /\ when \in -Half..(Half - 1)
    /\ Valid(rtc) /\ Valid(alarm.time) /\ alarm.on \in BOOLEAN
    /\ pc \in {"start", "show", "disable", "read rtc", "set sys", "read sys", "set rtc",
               "choose", "arm", "suspend", "asleep", "done"}

\* hwclock leaves the clocks no further apart than the seconds it took between
\* reading one and setting the other, on any date (date.h), and never sets one
\* to what does not fit a time_t.
ClocksAgree ==
    exit = "ok" => /\ job.what = "s" => Elapsed(rtc) - sys = lag
                   /\ job.what = "w" => sys - Elapsed(rtc) = lag

\* The RTC says what a time_t can hold; with one of 32 bits that ends in 2038.
InRange == Elapsed(rtc) < Half

\* rtcwake's alarm is for the second that was asked for: counted from now, or,
\* by the system clock, no more early than rtcwake took. It says that the time
\* is past only when it is, or is beyond what a time_t holds.
AlarmAsAsked ==
    InRange =>
    /\ alarm.on /\ Wakes =>
         IF job.seconds # 0 THEN Elapsed(alarm.time) = t + job.seconds
         ELSE job.epoch - (sys + Elapsed(alarm.time) - Elapsed(rtc)) \in 0..lag
    /\ exit = "past" => \/ job.seconds = 0 /\ job.epoch <= sys
                        \/ t + job.seconds >= Half
                        \/ t + (job.epoch - sys) >= Half - MaxTicks

\* A machine that rtcwake puts to sleep has something that wakes it up, unless
\* rtcwake itself took as long as it was to sleep.
SleepsWithAlarm == InRange /\ pc = "asleep" => alarm.on \/ t + lag >= when

=============================================================================
