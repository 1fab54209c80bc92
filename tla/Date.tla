-------------------------------- MODULE Date --------------------------------
(* date.h: dates of the Gregorian calendar and seconds since 1970, both    *)
(* ways, and the calendar itself to hold them against. The day of the week *)
(* is left out.                                                            *)
EXTENDS Integers, FiniteSets

CONSTANTS Minute, Hour, Day     \* 60, 3600 and 86400 seconds

\* C's / and %, which round towards zero.
CDiv(a, b) == IF a >= 0 THEN a \div b ELSE -((-a) \div b)
CMod(a, b) == a - b * CDiv(a, b)

\* The division by 400 rounds down for years before 0 too, as \div does.
DaysFromCivil(year, m, d) ==
    LET y == IF m <= 2 THEN year - 1 ELSE year
        era == y \div 400
        yoe == y - era * 400
        doy == (153 * (IF m > 2 THEN m - 3 ELSE m + 9) + 2) \div 5 + d - 1
        doe == yoe * 365 + yoe \div 4 - yoe \div 100 + doy
    IN era * 146097 + doe - 719468

\* Mutant: the last day of four hundred years begins the next year.
YearOfEraShort(doe) == (doe - doe \div 1460 + doe \div 36524) \div 365

YearOfEra(doe) == (doe - doe \div 1460 + doe \div 36524 - doe \div 146096) \div 365

CivilFromDays(days) ==
    LET z == days + 719468
        era == z \div 146097
        doe == z - era * 146097
        yoe == YearOfEra(doe)
        doy == doe - (365 * yoe + yoe \div 4 - yoe \div 100)
        mp == (5 * doy + 2) \div 153
        m == IF mp < 10 THEN mp + 3 ELSE mp - 9
    IN [year |-> yoe + era * 400 + (IF m <= 2 THEN 1 ELSE 0),
        mon |-> m, mday |-> doy - (153 * mp + 2) \div 5 + 1]

DateToEpoch(t) == DaysFromCivil(t.year, t.mon, t.mday) * Day + t.hour * Hour + t.min * Minute + t.sec

DateFromEpoch(s) ==
    LET civil == CivilFromDays(CDiv(s, Day))
        rem == CMod(s, Day)
    IN [year |-> civil.year, mon |-> civil.mon, mday |-> civil.mday,
        hour |-> CDiv(rem, Hour), min |-> CDiv(CMod(rem, Hour), Minute), sec |-> CMod(rem, Minute)]

-----------------------------------------------------------------------------
(* The calendar, which the clock chip keeps.                                *)

Leap(y) == y % 4 = 0 /\ (y % 100 # 0 \/ y % 400 = 0)

\* What a date is made of.
Dates == [year : Nat, mon : 1..12, mday : 1..31, hour : Nat, min : Nat, sec : Nat]

DaysIn(y, m) == CASE m = 2 -> IF Leap(y) THEN 29 ELSE 28
                  [] m \in {4, 6, 9, 11} -> 30
                  [] OTHER -> 31

\* What the kernel takes for a time of the chip's.
Valid(t) == /\ t.year >= 1970 /\ t.mon \in 1..12 /\ t.mday \in 1..DaysIn(t.year, t.mon)
            /\ t.hour \in 0..(Day \div Hour - 1) /\ t.min \in 0..(Hour \div Minute - 1)
            /\ t.sec \in 0..(Minute - 1)

NextDay(t) ==
    CASE t.mday < DaysIn(t.year, t.mon) -> [t EXCEPT !.mday = @ + 1]
      [] t.mday = DaysIn(t.year, t.mon) /\ t.mon < 12 -> [t EXCEPT !.mday = 1, !.mon = @ + 1]
      [] OTHER -> [t EXCEPT !.mday = 1, !.mon = 1, !.year = @ + 1]

NextSecond(t) ==
    CASE t.sec < Minute - 1 -> [t EXCEPT !.sec = @ + 1]
      [] t.sec = Minute - 1 /\ t.min < Hour \div Minute - 1 -> [t EXCEPT !.sec = 0, !.min = @ + 1]
      [] t.min = Hour \div Minute - 1 /\ t.sec = Minute - 1 /\ t.hour < Day \div Hour - 1 ->
           [t EXCEPT !.sec = 0, !.min = 0, !.hour = @ + 1]
      [] OTHER -> NextDay([t EXCEPT !.sec = 0, !.min = 0, !.hour = 0])

\* The days of a year before its month m.
DaysBefore(y, m) == <<0, 31, 59, 90, 120, 151, 181, 212, 243, 273, 304, 334>>[m]
                        + IF m > 2 /\ Leap(y) THEN 1 ELSE 0

\* Seconds since 1970, counted year by year.
Elapsed(t) ==
    LET leaps == Cardinality({y \in 1970..(t.year - 1) : Leap(y)})
    IN ((t.year - 1970) * 365 + leaps + DaysBefore(t.year, t.mon) + t.mday - 1) * Day
           + t.hour * Hour + t.min * Minute + t.sec

=============================================================================
