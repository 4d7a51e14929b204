------------------------- MODULE VerixClock_proofs -------------------------
(***************************************************************************)
(* verixCurrentTime numbers the days of 2000 to 2099 without a gap or a    *)
(* jump, for every time of day.                                            *)
(***************************************************************************)
EXTENDS VerixClock, TLAPS

\* Days in the 2000 years that the two-digit year leaves out.
MissingDays == 730485

\* The date is one of the century, the time one of those tried, and the last
\* reading is that of a day that has come, always too small by MissingDays.
ClockInv ==
    /\ year \in 0 .. 99 /\ month \in 1 .. 12
    /\ day \in 1 .. DaysIn(year, month)
    /\ time \in 1 .. Len(Times)
    /\ read # NoReading =>
           /\ prNow \in Int /\ read.day = prNow + MissingDays
           /\ read.day <= JulianDay(year, month, day)

(* The quotients of the time of day are all zero: the hours before noon    *)
(* because C rounds towards zero.                                          *)
LEMMA NoFraction ==
    ASSUME NEW hour \in 0 .. 23, NEW minute \in 0 .. 59, NEW second \in 0 .. 59
    PROVE  dayFraction(hour, minute, second) = 0
  <1>1. CDiv(hour - 12, 24) = 0
    BY DEF CDiv
  <1>2. CDiv(minute, 1440) = 0
    BY DEF CDiv
  <1>3. CDiv(second, 86400) = 0
    BY DEF CDiv
  <1> QED
    BY <1>1, <1>2, <1>3 DEF dayFraction

(* The formula of verixCurrentTime against the count of days by a table.   *)
LEMMA CalendarExact ==
    ASSUME NEW yy \in 0 .. 99, NEW mm \in 1 .. 12, NEW dd \in Int
    PROVE  /\ jdn(yy, mm, dd) \in Int
           /\ jdn(yy, mm, dd) + MissingDays = JulianDay(yy, mm, dd)
  <1> DEFINE a == IF mm <= 2 THEN 1 ELSE 0
             y == yy + 4800 - a
             m == mm + 12 * a - 3
  <1>1. CDiv(14 - mm, 12) = a
    BY DEF CDiv
  <1>2. y \in 4799 .. 4899 /\ m \in 0 .. 11
    OBVIOUS
  <1>3. y \in Nat /\ 153 * m + 2 \in Nat
    BY <1>2
  <1> HIDE DEF y, m
  <1>4. CDiv(y, 4) = y \div 4
    BY <1>3 DEF CDiv
  <1>5. CDiv(y, 100) = y \div 100 /\ CDiv(y, 400) = y \div 400
    BY <1>3 DEF CDiv
  <1>6. CDiv(153 * m + 2, 5) = (153 * m + 2) \div 5
    BY <1>3 DEF CDiv
  <1>7. jdn(yy, mm, dd) =
            dd + CDiv(153 * m + 2, 5) + 365 * y + CDiv(y, 4) - CDiv(y, 100)
                + CDiv(y, 400) - 32045
    BY <1>1 DEF jdn, y, m
  <1>8. (153 * m + 2) \div 5 =
            IF mm <= 2 THEN DaysBefore[mm] + 306 ELSE DaysBefore[mm] - 59
    BY DEF DaysBefore, m
  <1>9. /\ y \div 100 = (IF y = 4799 THEN 47 ELSE 48)
        /\ y \div 400 = (IF y = 4799 THEN 11 ELSE 12)
    BY <1>2
  <1>10. DaysBefore[mm] \in Int
    BY DEF DaysBefore
  <1>11. y \div 4 = 1200 + (yy - a) \div 4
    BY DEF y
  <1>12. (yy + 3) \div 4 =
             (yy - a) \div 4 +
                 (IF mm <= 2 THEN 1 ELSE IF Leap(yy) THEN 0 ELSE 1)
    BY DEF Leap
  <1>13. jdn(yy, mm, dd) =
             dd + (153 * m + 2) \div 5 + 365 * y + y \div 4 - y \div 100
                + y \div 400 - 32045
    BY <1>4, <1>5, <1>6, <1>7
  <1> QED
    BY <1>8, <1>9, <1>10, <1>11, <1>12, <1>13
       DEF JulianDay, MissingDays, Leap, y

LEMMA MonthLength ==
    ASSUME NEW yy \in 0 .. 99, NEW mm \in 1 .. 12
    PROVE  DaysIn(yy, mm) \in 28 .. 31
BY DEF DaysIn, MonthDays, Leap

LEMMA JulianDayInt ==
    ASSUME NEW yy \in 0 .. 99, NEW mm \in 1 .. 12, NEW dd \in Int
    PROVE  JulianDay(yy, mm, dd) \in Int
<1>1. DaysBefore[mm] \in Int
  BY DEF DaysBefore
<1> QED  BY <1>1, SMT DEF JulianDay

(* What the invariant says of the date.                                    *)
LEMMA DateOf ==
    ASSUME ClockInv
    PROVE  /\ year \in 0 .. 99 /\ month \in 1 .. 12 /\ day \in Int
           /\ DaysIn(year, month) \in Int
           /\ JulianDay(year, month, day) \in Int
<1>1. year \in 0 .. 99 /\ month \in 1 .. 12
      /\ day \in 1 .. DaysIn(year, month)
  BY DEF ClockInv
<1>2. DaysIn(year, month) \in 28 .. 31
  BY <1>1, MonthLength
<1>3. day \in Int /\ DaysIn(year, month) \in Int
  BY <1>1, <1>2
<1> QED  BY <1>1, <1>3, JulianDayInt

(* The table of days goes on by one from each day to the next.            *)
LEMMA DayAfterDay ==
    ASSUME ClockAssumption, ClockInv, NextDay
    PROVE  /\ year' \in 0 .. 99 /\ month' \in 1 .. 12
           /\ day' \in 1 .. DaysIn(year', month')
           /\ JulianDay(year', month', day') = JulianDay(year, month, day) + 1
<1>1. /\ year \in 0 .. 99 /\ month \in 1 .. 12
      /\ day \in 1 .. DaysIn(year, month)
  BY DEF ClockInv
<1>2. \A yy \in 0 .. 99, mm \in 1 .. 12 : DaysIn(yy, mm) \in 28 .. 31
  BY MonthLength
<1>3. CASE day < DaysIn(year, month) /\ day' = day + 1
           /\ UNCHANGED <<year, month>>
  <2>1. DaysBefore[month] \in Int
    BY <1>1 DEF DaysBefore
  <2>2. DaysIn(year, month) \in 28 .. 31 /\ day \in Int
    BY <1>1, <1>2
  <2>3. day + 1 \in 1 .. DaysIn(year, month)
    BY <1>1, <1>3, <2>2
  <2>4. JulianDay(year, month, day + 1) = JulianDay(year, month, day) + 1
    BY <1>1, <2>1, <2>2, SMT DEF JulianDay
  <2>5. year' = year /\ month' = month /\ day' = day + 1
    BY <1>3
  <2> QED  BY <1>1, <2>3, <2>4, <2>5
<1>4. CASE day = DaysIn(year, month) /\ month < 12 /\ day' = 1
           /\ month' = month + 1 /\ UNCHANGED year
  <2>1. month' \in 1 .. 12 /\ 1 \in 1 .. DaysIn(year, month')
    BY <1>1, <1>2, <1>4
  <2>2. /\ DaysBefore[month] \in Int /\ MonthDays[month] \in Int
        /\ DaysBefore[month + 1] = DaysBefore[month] + MonthDays[month]
    BY <1>1, <1>4 DEF DaysBefore, MonthDays
  <2>3. /\ (year + 3) \div 4 \in Int
        /\ (IF month + 1 > 2 /\ Leap(year) THEN 1 ELSE 0) =
               (IF month > 2 /\ Leap(year) THEN 1 ELSE 0)
                   + (IF month = 2 /\ Leap(year) THEN 1 ELSE 0)
    BY <1>1 DEF Leap
  <2> DEFINE d == DaysIn(year, month)
  <2>4. d = MonthDays[month] + (IF month = 2 /\ Leap(year) THEN 1 ELSE 0)
    BY DEF DaysIn
  <2> HIDE DEF d
  <2>5. JulianDay(year, month + 1, 1) = JulianDay(year, month, d) + 1
    BY <2>2, <2>3, <2>4, <1>1, SMT DEF JulianDay
  <2>6. year' = year /\ month' = month + 1 /\ day' = 1 /\ day = d
    BY <1>4 DEF d
  <2>7. JulianDay(year', month', day') = JulianDay(year, month, day) + 1
    BY <2>5, <2>6
  <2>8. day' \in 1 .. DaysIn(year', month')
    BY <2>1, <2>6
  <2> QED  BY <1>1, <2>1, <2>6, <2>7, <2>8
<1>5. CASE day = DaysIn(year, month) /\ month = 12 /\ year < LastYear
           /\ day' = 1 /\ month' = 1 /\ year' = year + 1
  <2>1. year' \in 0 .. 99
    BY <1>1, <1>5 DEF ClockAssumption
  <2>2. 1 \in 1 .. DaysIn(year', 1)
    BY <1>2, <2>1
  <2>3. DaysIn(year, 12) = 31 /\ DaysBefore[12] = 334 /\ DaysBefore[1] = 0
    BY DEF DaysIn, MonthDays, DaysBefore
  <2>4. (year + 4) \div 4 = (year + 3) \div 4 + IF Leap(year) THEN 1 ELSE 0
    BY <1>1 DEF Leap
  <2> QED  BY <1>1, <1>5, <2>1, <2>2, <2>3, <2>4, SMT DEF JulianDay
<1> QED  BY <1>3, <1>4, <1>5 DEF NextDay

(* What a reading returns.                                                 *)
LEMMA Reading ==
    ASSUME ClockAssumption, ClockInv, verixCurrentTime
    PROVE  /\ prNow' \in Int
           /\ prNow' + MissingDays = JulianDay(year, month, day)
           /\ read' = [day |-> JulianDay(year, month, day), time |-> time]
           /\ UNCHANGED <<year, month, day, time>>
<1> DEFINE t == Times[time]
<1>1. t \in TimeOfDay
  BY DEF ClockAssumption, ClockInv
<1>2. dayFraction(t.hour, t.minute, t.second) = 0
  BY <1>1, NoFraction DEF TimeOfDay
<1>3. /\ jdn(year, month, day) \in Int
      /\ jdn(year, month, day) + MissingDays = JulianDay(year, month, day)
  BY DateOf, CalendarExact
<1>4. prNow' = jdn(year, month, day)
  BY <1>2, <1>3 DEF verixCurrentTime
<1> QED  BY <1>3, <1>4 DEF verixCurrentTime

(* Whatever days of 2000 to 2099 two readings are made on, and however     *)
(* far apart, the later one is not smaller, and at the same time of day    *)
(* they differ by the days between them, for every set of times of day.    *)
THEOREM ClockDays ==
    ASSUME ClockAssumption
    PROVE  ClockSpec => DaysCounted
<1> DEFINE Counted ==
        read # NoReading /\ read' # read =>
            /\ prNow' >= prNow
            /\ read'.time = read.time =>
                   prNow' - prNow = read'.day - read.day
<1>1. ClockInit => ClockInv
  BY DEF ClockAssumption, ClockInit, ClockInv, DaysIn, MonthDays, Leap
<1>2. ClockInv /\ [ClockNext]_clockVars => ClockInv' /\ Counted
  <2> SUFFICES ASSUME ClockInv, [ClockNext]_clockVars
               PROVE  ClockInv' /\ Counted
    OBVIOUS
  <2>0. MissingDays \in Int /\ JulianDay(year, month, day) \in Int
    <3>1. MissingDays \in Int
      BY SMT DEF MissingDays
    <3> QED  BY <3>1, DateOf
  <2>1. CASE ClockTick
    <3>1. UNCHANGED <<prNow, read>>
      BY <2>1 DEF ClockTick
    <3>2. time' \in 1 .. Len(Times)
      BY <2>1 DEF ClockAssumption, ClockTick, ClockInv
    <3>3. /\ year' \in 0 .. 99 /\ month' \in 1 .. 12
          /\ day' \in 1 .. DaysIn(year', month')
          /\ \/ JulianDay(year', month', day') = JulianDay(year, month, day)
             \/ JulianDay(year', month', day') =
                    JulianDay(year, month, day) + 1
      <4>1. CASE UNCHANGED <<year, month, day>>
        BY <4>1 DEF ClockInv
      <4>2. CASE NextDay
        BY <4>2, DayAfterDay
      <4> QED  BY <2>1, <4>1, <4>2 DEF ClockTick
    <3>4. read # NoReading =>
              /\ prNow \in Int /\ read.day = prNow + MissingDays
              /\ read.day <= JulianDay(year', month', day')
      BY <2>0, <3>3 DEF ClockInv
    <3> QED  BY <3>1, <3>2, <3>3, <3>4 DEF ClockInv
  <2>2. CASE verixCurrentTime
    <3>1. /\ prNow' \in Int
          /\ read'.day = prNow' + MissingDays
          /\ read'.day = JulianDay(year, month, day)
          /\ UNCHANGED <<year, month, day, time>>
      BY <2>2, Reading
    <3>2. ClockInv'
      BY <2>0, <3>1 DEF ClockInv
    <3>3. Counted
      BY <2>0, <3>1 DEF ClockInv
    <3> QED  BY <3>2, <3>3
  <2>3. CASE UNCHANGED clockVars
    BY <2>3 DEF clockVars, ClockInv
  <2> QED  BY <2>1, <2>2, <2>3 DEF ClockNext
<1>3. ClockInv /\ [ClockNext]_clockVars => [Counted]_clockVars
  BY <1>2
<1> QED  BY <1>1, <1>2, <1>3, PTL DEF ClockSpec, DaysCounted
=============================================================================
