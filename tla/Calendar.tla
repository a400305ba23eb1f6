------------------------------ MODULE Calendar ------------------------------
(***************************************************************************)
(* Dates and UTC times: src/base/Date.{h,cc} and the two UTC conversions   *)
(* of src/base/TimeZone.cc.  A Date is a Julian day number; the year, the  *)
(* month and the day are computed from it and it from them in integers.    *)
(*                                                                         *)
(* An application steps a Date through a year, one day at a time, beside a *)
(* calendar on the wall that only knows how long each month is and which   *)
(* years are leap years.                                                   *)
(***************************************************************************)
EXTENDS Integers

CONSTANTS
    Years,      \* the years whose days are stepped through
    Moments,    \* the seconds of the day at which times are converted
    MaxDays     \* times further than this from 1970 leave 32 bits

kSecondsPerDay == 24 * 60 * 60

\* The years and the seconds of a day that the calendar on the wall knows.
CivilYears == 1 .. 9999
SecondsOfDay == 0 .. kSecondsPerDay - 1

ASSUME CalendarAssumption ==
    /\ Years \subseteq CivilYears
    /\ Moments \subseteq SecondsOfDay
    /\ MaxDays \in Nat

VARIABLES
    date,       \* Date::julianDayNumber_
    wall        \* the calendar on the wall: year, month, day, wday, yday

dateVars == <<date, wall>>

-----------------------------------------------------------------------------
(* The calendar on the wall *)

IsLeap(y) == y % 4 = 0 /\ (y % 100 # 0 \/ y % 400 = 0)
YearLength(y) == IF IsLeap(y) THEN 366 ELSE 365
MonthLength(y, m) ==
    CASE m = 2 -> IF IsLeap(y) THEN 29 ELSE 28
      [] m \in {4, 6, 9, 11} -> 30
      [] OTHER -> 31

\* The days from 1970-01-01, a Thursday, to the first day of a year.
NewYear[y \in CivilYears] ==
    IF y = 1970 THEN 0
    ELSE IF y > 1970 THEN NewYear[y - 1] + YearLength(y - 1)
    ELSE NewYear[y + 1] - YearLength(y)
Thursday == 4

NextDay(w) ==
    LET last == w.day = MonthLength(w.year, w.month) IN
    [w EXCEPT !.day = IF last THEN 1 ELSE @ + 1,
              !.month = IF last THEN @ + 1 ELSE @,
              !.wday = (@ + 1) % 7,
              !.yday = @ + 1]

-----------------------------------------------------------------------------
(* Date *)

\* Every operand of the divisions below is positive for the years 1 to 9999.
getJulianDayNumber(year, month, day) ==
    LET a == (14 - month) \div 12
        y == year + 4800 - a
        m == month + 12 * a - 3
    IN  day + (153 * m + 2) \div 5 + y * 365
            + y \div 4 - y \div 100 + y \div 400 - 32045

\* Variant of getYearMonthDay: a division is not rounded up.
getYearMonthDayUnrounded(julianDayNumber) ==
    LET a == julianDayNumber + 32044
        b == (4 * a) \div 146097
        c == a - (b * 146097) \div 4
        d == (4 * c + 3) \div 1461
        e == c - (1461 * d) \div 4
        m == (5 * e + 2) \div 153
    IN  [year  |-> b * 100 + d - 4800 + m \div 10,
         month |-> m + 3 - 12 * (m \div 10),
         day   |-> e - (153 * m + 2) \div 5 + 1]

getYearMonthDay(julianDayNumber) ==
    LET a == julianDayNumber + 32044
        b == (4 * a + 3) \div 146097
        c == a - (b * 146097) \div 4
        d == (4 * c + 3) \div 1461
        e == c - (1461 * d) \div 4
        m == (5 * e + 2) \div 153
    IN  [year  |-> b * 100 + d - 4800 + m \div 10,
         month |-> m + 3 - 12 * (m \div 10),
         day   |-> e - (153 * m + 2) \div 5 + 1]

kJulianDayOf1970_01_01 == getJulianDayNumber(1970, 1, 1)
weekDay(julianDayNumber) == (julianDayNumber + 1) % 7

-----------------------------------------------------------------------------
(* UTC *)

\* C divides towards zero; the remainder takes the sign of the dividend.
CQuotient(a, b) == IF a < 0 /\ a % b # 0 THEN a \div b + 1 ELSE a \div b
CRemainder(a, b) == a - b * CQuotient(a, b)

fillHMS(seconds) ==
    [hour |-> (seconds \div 60) \div 60, min |-> (seconds \div 60) % 60, sec |-> seconds % 60]

\* TimeZone::toUtcTime with the day of the year asked for.
toUtcTime(secondsSinceEpoch) ==
    LET remainder == CRemainder(secondsSinceEpoch, kSecondsPerDay)
        quotient == CQuotient(secondsSinceEpoch, kSecondsPerDay)
        seconds == IF remainder < 0 THEN remainder + kSecondsPerDay ELSE remainder
        days == IF remainder < 0 THEN quotient - 1 ELSE quotient
        julian == days + kJulianDayOf1970_01_01
        ymd == getYearMonthDay(julian)
    IN  [ymd |-> ymd, hms |-> fillHMS(seconds), wday |-> weekDay(julian),
         yday |-> julian - getJulianDayNumber(ymd.year, 1, 1)]

fromUtcTime(utc) ==
    LET days == getJulianDayNumber(utc.ymd.year, utc.ymd.month, utc.ymd.day)
                    - kJulianDayOf1970_01_01
    IN  days * kSecondsPerDay + utc.hms.hour * 3600 + utc.hms.min * 60 + utc.hms.sec

-----------------------------------------------------------------------------
DateInit ==
    \E y \in Years :
        /\ date = getJulianDayNumber(y, 1, 1)
        /\ wall = [year |-> y, month |-> 1, day |-> 1,
                   wday |-> (Thursday + NewYear[y]) % 7, yday |-> 0]

\* Date(date.julianDayNumber() + 1), up to the last day of the year.
Tomorrow ==
    /\ ~ (wall.month = 12 /\ wall.day = 31)
    /\ date' = date + 1
    /\ wall' = NextDay(wall)

DateSpec == DateInit /\ [][Tomorrow]_dateVars

\* The Date of the same day, made from year, month and day.
Remade == getJulianDayNumber(wall.year, wall.month, wall.day)

\* The days since 1970-01-01, counted on the wall.
DaysSinceEpoch == NewYear[wall.year] + wall.yday

UtcAgrees(s) ==
    LET t == DaysSinceEpoch * kSecondsPerDay + s
        utc == toUtcTime(t)
    IN  /\ utc.ymd = [year |-> wall.year, month |-> wall.month, day |-> wall.day]
        /\ utc.wday = wall.wday
        /\ utc.yday = wall.yday
        /\ utc.hms.hour * 3600 + utc.hms.min * 60 + utc.hms.sec = s
        /\ utc.hms.min \in 0..59 /\ utc.hms.sec \in 0..59
        /\ fromUtcTime(utc) = t

(* A Date stepped day by day and a Date made from the civil date are the   *)
(* same day, its year, month, day and week day are the calendar's, in leap *)
(* years and over the ends of centuries; and a UTC time on that day, before *)
(* 1970 too, breaks down to it and comes back unchanged: Date.cc's integer *)
(* formulas and the negative remainders of TimeZone::toUtcTime.            *)
DatesAreGregorian ==
    /\ date = Remade
    /\ date = kJulianDayOf1970_01_01 + DaysSinceEpoch
    /\ getYearMonthDay(date) = [year |-> wall.year, month |-> wall.month, day |-> wall.day]
    /\ weekDay(date) = wall.wday
    /\ DaysSinceEpoch \in -MaxDays .. MaxDays => \A s \in Moments : UtcAgrees(s)
=============================================================================
