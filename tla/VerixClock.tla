----------------------------- MODULE VerixClock -----------------------------
(***************************************************************************)
(* verixCurrentTime: the terminal's clock, read as text, turned into a     *)
(* Julian day number with the integer arithmetic of C.                     *)
(***************************************************************************)
EXTENDS Integers, Sequences

CONSTANTS
    LastYear,   \* bound: the clock stops at the end of year 20<LastYear>
    MaxDays,    \* bound: it is read again at most so many days later
    Times       \* the times of day that are tried, in order

TimeOfDay == [hour : 0 .. 23, minute : 0 .. 59, second : 0 .. 59]

\* What the theorem about the clock assumes of them.
ClockAssumption ==
    /\ LastYear \in 0 .. 99
    /\ MaxDays \in Nat
    /\ Times \in Seq(TimeOfDay)
    /\ Len(Times) > 0

VARIABLES
    year,       \* what read_clock shows: the last two digits of the year
    month,
    day,
    time,       \* index in Times
    prNow,      \* what the last call of verixCurrentTime has returned
    read        \* history: the day and the time of that call

clockVars == <<year, month, day, time, prNow, read>>

NoReading == [day |-> 0, time |-> 0]

-----------------------------------------------------------------------------
(* The clock.                                                              *)

MonthDays == <<31, 28, 31, 30, 31, 30, 31, 31, 30, 31, 30, 31>>

\* Years 2000 to 2099: every fourth one is a leap year.
Leap(yy) == yy % 4 = 0
DaysIn(yy, mm) == MonthDays[mm] + IF mm = 2 /\ Leap(yy) THEN 1 ELSE 0

\* Reference: days counted from the noon of 1 January 2000, which begins
\* Julian day 2451545.
DaysBefore == <<0, 31, 59, 90, 120, 151, 181, 212, 243, 273, 304, 334>>

JulianDay(yy, mm, dd) ==
    2451545 + 365 * yy + (yy + 3) \div 4 + DaysBefore[mm]
            + (IF mm > 2 /\ Leap(yy) THEN 1 ELSE 0) + dd - 1

ClockInit ==
    /\ year = 0 /\ month = 1 /\ day = 1
    /\ time = 1
    /\ prNow = 0 /\ read = NoReading

NextDay ==
    \/ /\ day < DaysIn(year, month)
       /\ day' = day + 1
       /\ UNCHANGED <<year, month>>
    \/ /\ day = DaysIn(year, month) /\ month < 12
       /\ day' = 1 /\ month' = month + 1
       /\ UNCHANGED year
    \/ /\ day = DaysIn(year, month) /\ month = 12 /\ year < LastYear
       /\ day' = 1 /\ month' = 1 /\ year' = year + 1

ClockTick ==
    /\ read = NoReading \/ JulianDay(year, month, day) - read.day < MaxDays
    /\ \/ /\ time < Len(Times)
          /\ time' = time + 1
          /\ UNCHANGED <<year, month, day>>
       \/ time = Len(Times) /\ time' = 1 /\ NextDay
    /\ UNCHANGED <<prNow, read>>

-----------------------------------------------------------------------------
(* The conversion.                                                         *)

\* Division of C rounds towards zero.
CDiv(a, b) == IF a >= 0 THEN a \div b ELSE -((-a) \div b)

jdn(yy, mm, dd) ==
    LET a == CDiv(14 - mm, 12)
        y == yy + 4800 - a
        m == mm + 12 * a - 3
    IN  dd + CDiv(153 * m + 2, 5) + 365 * y + CDiv(y, 4) - CDiv(y, 100)
            + CDiv(y, 400) - 32045

\* Each of the three quotients is an int before it is added.
dayFraction(hour, minute, second) ==
    CDiv(hour - 12, 24) + CDiv(minute, 1440) + CDiv(second, 86400)

\* The sum is a whole number.
verixCurrentTime ==
    /\ LET t == Times[time]
       IN  prNow' = jdn(year, month, day)
                    + dayFraction(t.hour, t.minute, t.second)
    /\ read' = [day |-> JulianDay(year, month, day), time |-> time]
    /\ UNCHANGED <<year, month, day, time>>

ClockNext == ClockTick \/ verixCurrentTime

ClockSpec == ClockInit /\ [][ClockNext]_clockVars

-----------------------------------------------------------------------------
(* Properties.                                                             *)

(* Of two readings the later one never returns less, and if they are made  *)
(* at the same time of day, the difference is the number of days between   *)
(* them, over leap years and the ends of all months: what SQLite's date    *)
(* functions compute from two values of "now" is right to the day.         *)
DaysCounted ==
    [][read # NoReading /\ read' # read =>
           /\ prNow' >= prNow
           /\ read'.time = read.time =>
                  prNow' - prNow = read'.day - read.day]_clockVars

SecondOfDay(t) == 3600 * t.hour + 60 * t.minute + t.second

(* verixCurrentTime is to "write the current time and date as a Julian Day *)
(* number into *prNow".  A Julian day begins at noon, so that a whole      *)
(* number can be right only at a noon.                                     *)
JulianDayNumber ==
    read # NoReading =>
        LET s == SecondOfDay(Times[read.time]) - 43200
        IN  s % 86400 = 0 /\ prNow = read.day + s \div 86400
=============================================================================
