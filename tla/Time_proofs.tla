---------------------------- MODULE Time_proofs -----------------------------
(***************************************************************************)
(* Proofs about what keeps time: Calendar, for any years and moments of    *)
(* the day, TimeZone, for any zone files and offsets, and TimerQueue, for  *)
(* any timers, delays and settings of the wall clock.                      *)
(***************************************************************************)
EXTENDS Calendar, TimeZone, TimerQueue, SequenceLemmas

------------------------------------------------------------------------------
(* The years.                                                              *)

EpochYear == 1970

\* The days from 1970 to a year, without counting them year by year.
DaysBefore(y) == 365 * (y - 1970) + (y - 1) \div 4 - (y - 1) \div 100 + (y - 1) \div 400 - 477

\* A multiple of 400 is one of 100, and one of 100 is one of 4.
LEMMA MultipleOf ==
    ASSUME NEW y \in Int
    PROVE  (y % 400 = 0 => y % 100 = 0) /\ (y % 100 = 0 => y % 4 = 0)
  <1> DEFINE a == y \div 400
             b == y \div 100
  <1>1. a \in Int /\ b \in Int /\ (y % 400 = 0 => y = 400 * a) /\ (y % 100 = 0 => y = 100 * b)
    OBVIOUS
  <1> HIDE DEF a, b
  <1>2. ASSUME y % 400 = 0 PROVE y % 100 = 0
    <2>1. y = 100 * (4 * a)
      BY <1>1, <1>2
    <2> QED
      BY <1>1, <2>1
  <1>3. ASSUME y % 100 = 0 PROVE y % 4 = 0
    <2>1. y = 4 * (25 * b)
      BY <1>1, <1>3
    <2> QED
      BY <1>1, <2>1
  <1> QED
    BY <1>2, <1>3

\* From a year to the next, the closed formula grows by the days of the year.
LEMMA LeapSteps ==
    ASSUME NEW y \in CivilYears, NEW z, z = y + 1
    PROVE  DaysBefore(z) = DaysBefore(y) + YearLength(y)
  <1> DEFINE a == (y - 1) \div 4
             b == (y - 1) \div 100
             c == (y - 1) \div 400
  <1>1. y \in Int /\ y > 0 /\ z - 1 = y
    BY DEF CivilYears
  <1>2. a \in Int /\ b \in Int /\ c \in Int
    BY <1>1
  <1>3. y \div 4 = IF y % 4 = 0 THEN a + 1 ELSE a
    BY <1>1
  <1>4. y \div 100 = IF y % 100 = 0 THEN b + 1 ELSE b
    BY <1>1
  <1>5. y \div 400 = IF y % 400 = 0 THEN c + 1 ELSE c
    BY <1>1
  <1>6. DaysBefore(y) = 365 * (y - 1970) + a - b + c - 477
    BY DEF DaysBefore
  <1>7. DaysBefore(z) = 365 * (y + 1 - 1970) + (y \div 4) - (y \div 100) + (y \div 400) - 477
    BY <1>1 DEF DaysBefore
  <1>8. (y % 400 = 0 => y % 100 = 0) /\ (y % 100 = 0 => y % 4 = 0)
    BY <1>1, MultipleOf
  <1>9. YearLength(y) = IF y % 4 = 0 /\ (y % 100 # 0 \/ y % 400 = 0) THEN 366 ELSE 365
    BY DEF YearLength, IsLeap
  <1> HIDE DEF a, b, c
  <1> QED
    BY <1>1, <1>2, <1>3, <1>4, <1>5, <1>6, <1>7, <1>8, <1>9

LEMMA YearTypes ==
    ASSUME NEW y \in CivilYears
    PROVE  DaysBefore(y) \in Int /\ YearLength(y) \in Nat /\ y \in Int
  BY DEF DaysBefore, YearLength, CivilYears

\* f counts the days from 1970 to the years, year by year.
Counted(f, y) ==
    IF y = EpochYear THEN 0
    ELSE IF y > EpochYear THEN f[y - 1] + YearLength(y - 1)
    ELSE f[y + 1] - YearLength(y)
Counts(f) == f = [y \in CivilYears |-> Counted(f, y)]

\* The closed formula counts as NewYear does, so NewYear has values.
LEMMA CountExists == \E f : Counts(f)
  <1> DEFINE g == [y \in CivilYears |-> DaysBefore(y)]
  <1>1. ASSUME NEW y \in CivilYears
        PROVE  DaysBefore(y) = Counted(g, y)
    <2>1. CASE y = EpochYear
      BY <2>1 DEF DaysBefore, EpochYear, Counted
    <2>2. CASE y > EpochYear
      <3> DEFINE x == y - 1
      <3>1. x \in CivilYears /\ y = x + 1 /\ y # EpochYear
        BY <2>2 DEF CivilYears, EpochYear
      <3>2. g[x] = DaysBefore(x)
        BY <3>1
      <3>3. Counted(g, y) = g[x] + YearLength(x)
        BY <2>2, <3>1 DEF Counted
      <3> HIDE DEF x, g
      <3>4. DaysBefore(y) = DaysBefore(x) + YearLength(x)
        BY <3>1, LeapSteps, Zenon
      <3> QED
        BY <3>2, <3>3, <3>4
    <2>3. CASE ~(y > EpochYear) /\ y # EpochYear
      <3> DEFINE z == y + 1
      <3>1. z \in CivilYears /\ z = y + 1
        BY <2>3 DEF CivilYears, EpochYear
      <3>2. g[z] = DaysBefore(z)
        BY <3>1
      <3>3. Counted(g, y) = g[z] - YearLength(y)
        BY <2>3, <3>1 DEF Counted
      <3> HIDE DEF z, g
      <3>4. DaysBefore(z) = DaysBefore(y) + YearLength(y)
        BY <3>1, LeapSteps, Zenon
      <3> QED
        BY <3>1, <3>2, <3>3, <3>4, YearTypes
    <2> QED
      BY <2>1, <2>2, <2>3
  <1>2. g = [y \in CivilYears |-> Counted(g, y)]
    <2> DEFINE h == [y \in CivilYears |-> Counted(g, y)]
    <2>1. \A y \in CivilYears : g[y] = h[y]
      BY <1>1
    <2> QED
      BY <2>1
  <1> HIDE DEF g
  <1> QED
    BY <1>2 DEF Counts

Distance(y) == IF y > EpochYear THEN y - EpochYear ELSE EpochYear - y

\* Counting year by year from 1970, forth or back, gives the closed formula.
LEMMA NewYearIs == \A y \in CivilYears : NewYear[y] = DaysBefore(y)
  <1>1. Counts(NewYear)
    <2>1. NewYear = CHOOSE f : Counts(f)
      BY DEF NewYear, Counts, Counted, CivilYears, EpochYear
    <2> QED
      BY <2>1, CountExists, Zenon
  <1>2. \A y \in CivilYears : NewYear[y] = Counted(NewYear, y)
    <2> DEFINE h == [y \in CivilYears |-> Counted(NewYear, y)]
    <2>1. NewYear = h
      BY <1>1 DEF Counts
    <2>2. \A y \in CivilYears : h[y] = Counted(NewYear, y)
      OBVIOUS
    <2> HIDE DEF h
    <2> QED
      BY <2>1, <2>2, Zenon
  \* The year nearest to 1970 at which they would differ.
  <1> DEFINE Differ(y) == y \in CivilYears /\ NewYear[y] # DaysBefore(y)
             Far == {n \in Nat : \E y : Differ(y) /\ n = Distance(y)}
  <1>3. \A y \in CivilYears : Distance(y) \in Nat
    BY DEF Distance, CivilYears, EpochYear
  <1> SUFFICES ASSUME NEW x, Differ(x) PROVE FALSE
    BY Zenon
  <1>4. \A y : Differ(y) => y \in CivilYears /\ NewYear[y] # DaysBefore(y)
    BY Zenon
  <1>5. \A y \in CivilYears : ~Differ(y) => NewYear[y] = DaysBefore(y)
    BY Zenon
  <1> HIDE DEF Differ
  <1>6. \A y : Differ(y) => Distance(y) \in Far
    BY <1>3, <1>4
  <1>7. Far \in SUBSET Nat /\ (\A n \in Far : \E y : Differ(y) /\ n = Distance(y))
    OBVIOUS
  <1> HIDE DEF Far
  <1>8. PICK n \in Far : \A k \in Far : n <= k
    BY <1>6, <1>7, LeastNatural
  <1>9. PICK y : Differ(y) /\ n = Distance(y)
    BY <1>7
  <1>10. y \in CivilYears /\ NewYear[y] # DaysBefore(y) /\ NewYear[y] = Counted(NewYear, y)
    BY <1>2, <1>4, <1>9, Zenon
  <1>11. \A z \in CivilYears : ~(Distance(y) <= Distance(z)) => NewYear[z] = DaysBefore(z)
    BY <1>5, <1>6, <1>8, <1>9, Zenon
  <1>12. CASE y = EpochYear
    BY <1>10, <1>12 DEF DaysBefore, EpochYear, Counted
  <1>13. CASE y > EpochYear
    <2> DEFINE z == y - 1
    <2>1. z \in CivilYears /\ y = z + 1 /\ y # EpochYear /\ ~(Distance(y) <= Distance(z))
      <3>1. z \in CivilYears /\ y = z + 1 /\ y # EpochYear /\ y \in Int
        BY <1>10, <1>13 DEF CivilYears, EpochYear
      <3>2. ~(Distance(y) <= Distance(z))
        BY <1>13, <3>1 DEF EpochYear, Distance
      <3> QED
        BY <3>1, <3>2
    <2>2. NewYear[y] = NewYear[z] + YearLength(z)
      BY <1>10, <1>13, <2>1 DEF Counted
    <2> HIDE DEF z
    <2>3. DaysBefore(y) = DaysBefore(z) + YearLength(z)
      BY <2>1, LeapSteps, Zenon
    <2> QED
      BY <1>10, <1>11, <2>1, <2>2, <2>3, Zenon
  <1>14. CASE ~(y > EpochYear) /\ y # EpochYear
    <2> DEFINE z == y + 1
    <2>1. z \in CivilYears /\ z = y + 1 /\ ~(Distance(y) <= Distance(z))
      <3>1. z \in CivilYears /\ z = y + 1 /\ y \in Int
        <4>1. y \in CivilYears
          BY <1>10
        <4>2. y \in Int /\ 1 <= y /\ y < 1970
          BY <1>14, <4>1, SMT DEF CivilYears, EpochYear
        <4>3. z = y + 1
          OBVIOUS
        <4> HIDE DEF z
        <4>4. z \in CivilYears
          BY <4>2, <4>3, SMT DEF CivilYears
        <4> QED
          BY <4>2, <4>3, <4>4
      <3>2. ~(Distance(y) <= Distance(z))
        BY <1>14, <3>1 DEF EpochYear, Distance
      <3> QED
        BY <3>1, <3>2
    <2>2. NewYear[y] = NewYear[z] - YearLength(y)
      BY <1>10, <1>14, <2>1 DEF Counted
    <2> HIDE DEF z
    <2>3. DaysBefore(z) = DaysBefore(y) + YearLength(y)
      BY <1>10, <2>1, LeapSteps, Zenon
    <2>4. DaysBefore(y) = DaysBefore(z) - YearLength(y)
      BY <1>10, <2>1, <2>3, YearTypes
    <2> QED
      BY <1>10, <1>11, <2>1, <2>2, <2>4, Zenon
  <1> QED
    BY <1>12, <1>13, <1>14, Zenon

------------------------------------------------------------------------------
(* The days.                                                               *)

\* The year, from March, and its months, from 0, that the formulas count in.
MarchYear(y, m) == IF m <= 2 THEN y + 4799 ELSE y + 4800
MarchMonth(m) == IF m <= 2 THEN m + 9 ELSE m - 3
MarchDays(k) == (153 * k + 2) \div 5
CenturyDays(y) == 365 * y + y \div 4 - y \div 100 + y \div 400

\* The day number, in terms of years and months that begin in March.
LEMMA JulianIs ==
    ASSUME NEW y \in Int, NEW m \in 1 .. 12, NEW d \in Int
    PROVE  getJulianDayNumber(y, m, d) =
               d + MarchDays(MarchMonth(m)) + CenturyDays(MarchYear(y, m)) - 32045
  <1> DEFINE a == (14 - m) \div 12
             f(z, k) == d + (153 * k + 2) \div 5 + z * 365 + z \div 4 - z \div 100 + z \div 400 - 32045
  <1>1. a = IF m <= 2 THEN 1 ELSE 0
    OBVIOUS
  <1>2. getJulianDayNumber(y, m, d) = f(y + 4800 - a, m + 12 * a - 3)
    BY DEF getJulianDayNumber
  <1>3. y + 4800 - a = MarchYear(y, m) /\ m + 12 * a - 3 = MarchMonth(m)
    BY <1>1 DEF MarchYear, MarchMonth
  <1> HIDE DEF a, f
  <1>4. getJulianDayNumber(y, m, d) = f(MarchYear(y, m), MarchMonth(m))
    BY <1>2, <1>3
  <1>5. MarchYear(y, m) \in Int /\ MarchMonth(m) \in Int
    BY DEF MarchYear, MarchMonth
  <1> QED
    BY <1>4, <1>5 DEF f, MarchDays, CenturyDays

LEMMA CenturyTypes ==
    ASSUME NEW y \in Int
    PROVE  CenturyDays(y) \in Int
  BY DEF CenturyDays

\* The first day of a year.
LEMMA JulianOfNewYear ==
    ASSUME NEW y \in Int
    PROVE  getJulianDayNumber(y, 1, 1) = 2440588 + DaysBefore(y)
  <1> DEFINE x == y - 1
             z == y + 4799
  <1>1. z = x + 4800 /\ x \in Int /\ z \in Int /\ y = x + 1
    OBVIOUS
  <1>2. MarchYear(y, 1) = z /\ MarchMonth(1) = 10 /\ MarchDays(10) = 306
    BY DEF MarchYear, MarchMonth, MarchDays
  <1>3. getJulianDayNumber(y, 1, 1) = 1 + 306 + CenturyDays(z) - 32045
    BY <1>2, JulianIs
  <1>4. DaysBefore(y) = 365 * (y - 1970) + (x \div 4) - (x \div 100) + (x \div 400) - 477
    BY DEF DaysBefore
  <1> HIDE DEF x, z
  <1>5. z \div 4 = (x \div 4) + 1200 /\ z \div 100 = (x \div 100) + 48 /\ z \div 400 = (x \div 400) + 12
    BY <1>1
  <1>6. CenturyDays(z) = 365 * z + (z \div 4) - (z \div 100) + (z \div 400)
    BY DEF CenturyDays
  <1>7. x \div 4 \in Int /\ x \div 100 \in Int /\ x \div 400 \in Int
    BY <1>1
  <1> QED
    BY <1>1, <1>3, <1>4, <1>5, <1>6, <1>7

\* The day number of 1970-01-01.
LEMMA EpochDay == kJulianDayOf1970_01_01 = 2440588
  <1>1. DaysBefore(1970) = 0
    BY DEF DaysBefore
  <1> QED
    BY <1>1, JulianOfNewYear DEF kJulianDayOf1970_01_01

\* The days of a year before a month.
MonthStart(y, m) ==
    IF m <= 2 THEN 31 * (m - 1)
    ELSE MarchDays(m - 3) + (IF IsLeap(y) THEN 60 ELSE 59)

\* The same step for the closed formula of getJulianDayNumber.
LEMMA MarchYearStep ==
    ASSUME NEW y \in Int
    PROVE  CenturyDays(y + 4800) = CenturyDays(y + 4799) + YearLength(y)
  <1> DEFINE z == y + 4799
             a == z \div 4
             b == z \div 100
             c == z \div 400
             w == z + 1
  <1>1. z \in Int /\ w \in Int /\ w = y + 4800 /\ a \in Int /\ b \in Int /\ c \in Int
    OBVIOUS
  <1>2. y % 4 = w % 4 /\ y % 100 = w % 100 /\ y % 400 = w % 400
    BY <1>1
  <1>3. w \div 4 = IF w % 4 = 0 THEN a + 1 ELSE a
    BY <1>1
  <1>4. w \div 100 = IF w % 100 = 0 THEN b + 1 ELSE b
    BY <1>1
  <1>5. w \div 400 = IF w % 400 = 0 THEN c + 1 ELSE c
    BY <1>1
  <1>6. CenturyDays(z) = 365 * z + a - b + c
    BY DEF CenturyDays
  <1>7. CenturyDays(w) = 365 * w + (w \div 4) - (w \div 100) + (w \div 400)
    BY DEF CenturyDays
  <1>8. (w % 400 = 0 => w % 100 = 0) /\ (w % 100 = 0 => w % 4 = 0)
    BY <1>1, MultipleOf
  <1>9. YearLength(y) = IF y % 4 = 0 /\ (y % 100 # 0 \/ y % 400 = 0) THEN 366 ELSE 365
    BY DEF YearLength, IsLeap
  <1>10. w = z + 1
    BY DEF w
  <1> HIDE DEF a, b, c, w
  <1>11. CenturyDays(w) = CenturyDays(z) + YearLength(y)
    BY <1>1, <1>2, <1>3, <1>4, <1>5, <1>6, <1>7, <1>8, <1>9, <1>10
  <1> QED
    BY <1>1, <1>11

\* A Date made from a civil date is as far into the year as its month and day.
LEMMA JulianOfDay ==
    ASSUME NEW y \in Int, NEW m \in 1 .. 12, NEW d \in Int
    PROVE  getJulianDayNumber(y, m, d) = getJulianDayNumber(y, 1, 1) + MonthStart(y, m) + d - 1
  <1> DEFINE C0 == CenturyDays(y + 4799)
             C1 == CenturyDays(y + 4800)
  <1>1. C0 \in Int /\ C1 \in Int /\ C1 = C0 + YearLength(y)
    BY CenturyTypes, MarchYearStep
  <1>2. getJulianDayNumber(y, 1, 1) = 307 + C0 - 32045
    <2>1. MarchYear(y, 1) = y + 4799 /\ MarchMonth(1) = 10 /\ MarchDays(10) = 306
      BY DEF MarchYear, MarchMonth, MarchDays
    <2> QED
      BY <1>1, <2>1, JulianIs
  <1>3. getJulianDayNumber(y, m, d) =
            d + MarchDays(MarchMonth(m)) + CenturyDays(MarchYear(y, m)) - 32045
    BY JulianIs
  <1>4. CASE m <= 2
    <2>1. MarchYear(y, m) = y + 4799 /\ MarchDays(MarchMonth(m)) = 306 + 31 * (m - 1)
      BY <1>4 DEF MarchYear, MarchMonth, MarchDays
    <2>2. MonthStart(y, m) = 31 * (m - 1)
      BY <1>4 DEF MonthStart
    <2> HIDE DEF C1
    <2> QED
      BY <1>1, <1>2, <1>3, <2>1, <2>2
  <1>5. CASE ~(m <= 2)
    <2>1. MarchYear(y, m) = y + 4800 /\ MarchMonth(m) = m - 3 /\ MarchDays(m - 3) \in Int
      BY <1>5 DEF MarchYear, MarchMonth, MarchDays
    <2>2. MonthStart(y, m) = MarchDays(m - 3) + YearLength(y) - 306
      BY <1>5, <2>1 DEF MonthStart, YearLength
    <2>3. YearLength(y) \in Int
      BY DEF YearLength
    <2>4. getJulianDayNumber(y, m, d) = d + MarchDays(m - 3) + C1 - 32045
      BY <1>3, <2>1
    <2> HIDE DEF C0, C1
    <2> QED
      BY <1>1, <1>2, <2>1, <2>2, <2>3, <2>4
  <1> QED
    BY <1>4, <1>5

\* The months of the formula are as long as those on the wall.
LEMMA MonthSteps ==
    ASSUME NEW y \in Int, NEW m \in 1 .. 11
    PROVE  MonthStart(y, m + 1) = MonthStart(y, m) + MonthLength(y, m)
  <1>1. m \in {1, 2, 3, 4, 5, 6, 7, 8, 9, 10, 11}
    OBVIOUS
  <1> QED
    BY <1>1 DEF MonthStart, MonthLength, MarchDays

------------------------------------------------------------------------------
(* From the day number back to the year, the month and the day.            *)

\* A year, split at the multiples of 400, 100 and 4.
LEMMA Centuries ==
    ASSUME NEW Y \in Int
    PROVE  \E q, k, s, u \in Int :
               /\ k \in 0 .. 3 /\ u \in 0 .. 3 /\ s \in 0 .. 24
               /\ Y = 100 * (4 * q + k) + 4 * s + u
               /\ Y \div 100 = 4 * q + k /\ Y \div 400 = q
               /\ Y \div 4 = 25 * (4 * q + k) + s
  <1> DEFINE C == Y \div 100
             r == Y - 100 * C
             q == C \div 4
             k == C - 4 * q
             s == r \div 4
             u == r - 4 * s
  <1>1. C \in Int /\ r \in 0 .. 99 /\ Y = 100 * C + r
    OBVIOUS
  <1> HIDE DEF C, r
  <1>2. q \in Int /\ k \in 0 .. 3 /\ C = 4 * q + k
    BY <1>1
  <1>3. s \in 0 .. 24 /\ u \in 0 .. 3 /\ r = 4 * s + u
    BY <1>1
  <1> HIDE DEF q, k, s, u
  <1>4. Y = 100 * (4 * q + k) + 4 * s + u
    BY <1>1, <1>2, <1>3
  <1>5. Y \div 100 = 4 * q + k
    BY <1>1, <1>2 DEF C
  <1>6. Y \div 400 = q /\ Y \div 4 = 25 * (4 * q + k) + s
    BY <1>2, <1>3, <1>4
  <1> QED
    BY <1>2, <1>3, <1>4, <1>5, <1>6

\* The steps of getYearMonthDay.
CenturyOf(a) == (4 * a + 3) \div 146097
RestOf(a) == a - (CenturyOf(a) * 146097) \div 4
YearOf(a) == (4 * RestOf(a) + 3) \div 1461
DayOf(a) == RestOf(a) - (1461 * YearOf(a)) \div 4

\* e: the days since the first of March of year Y, 365 only on a leap day.
FromMarch(Y, e) == e \in 0 .. 365 /\ (e = 365 => IsLeap(Y + 1))
IsFound(a, Y, e) ==
    /\ CenturyOf(a) \in Int /\ YearOf(a) \in Int
    /\ CenturyOf(a) * 100 + YearOf(a) = Y
    /\ DayOf(a) = e

\* getYearMonthDay finds the year, counted from March, and the day in it.
LEMMA YearFound ==
    ASSUME NEW Y \in Int, NEW e, NEW a, FromMarch(Y, e), a = e + CenturyDays(Y)
    PROVE  IsFound(a, Y, e)
  <1>0. e \in 0 .. 365 /\ (e = 365 => IsLeap(Y + 1))
    BY DEF FromMarch
  <1>1. PICK q, k, s, u \in Int :
               /\ k \in 0 .. 3 /\ u \in 0 .. 3 /\ s \in 0 .. 24
               /\ Y = 100 * (4 * q + k) + 4 * s + u
               /\ Y \div 100 = 4 * q + k /\ Y \div 400 = q
               /\ Y \div 4 = 25 * (4 * q + k) + s
    BY Centuries
  <1> DEFINE C == 4 * q + k
             r == 4 * s + u
  <1>2. C \in Int /\ r \in 0 .. 99 /\ C \div 4 = q /\ r \div 4 = s /\ Y = 100 * C + r
    BY <1>1
  <1>3. a = 36524 * C + q + 365 * r + s + e
    <2>1. CenturyDays(Y) = 365 * Y + (25 * (4 * q + k) + s) - (4 * q + k) + q
      BY <1>1 DEF CenturyDays
    <2> QED
      BY <1>0, <1>1, <2>1
  <1>4. e = 365 => u = 3 /\ (s = 24 => k = 3)
    <2> SUFFICES ASSUME e = 365, IsLeap(Y + 1) PROVE u = 3 /\ (s = 24 => k = 3)
      BY <1>0
    <2> DEFINE z == Y + 1
    <2>1. z = 100 * (4 * q + k) + 4 * s + u + 1 /\ z \in Int
      BY <1>1
    <2>2. z % 4 = 0 /\ (z % 100 # 0 \/ z % 400 = 0)
      BY DEF IsLeap
    <2> HIDE DEF z
    <2>3. u = 3
      <3>1. PICK n \in Int : z = 4 * n
        <4>1. z = 4 * (z \div 4) /\ z \div 4 \in Int
          BY <2>1, <2>2
        <4> QED
          BY <4>1
      <3> QED
        BY <1>1, <2>1, <3>1
    <2>4. ASSUME s = 24 PROVE k = 3
      <3>1. z = 100 * (4 * q + k + 1)
        BY <1>1, <2>1, <2>3, <2>4
      <3>2. z % 100 = 0
        BY <1>1, <3>1
      <3>3. z = 400 * (z \div 400) /\ z \div 400 \in Int
        BY <2>1, <2>2, <3>2
      <3> DEFINE n == z \div 400
      <3> HIDE DEF n
      <3>4. n \in Int /\ 4 * q + k + 1 = 4 * n
        BY <1>1, <3>1, <3>3 DEF n
      <3> QED
        BY <1>1, <3>4
    <2> QED
      BY <2>3, <2>4
  <1> DEFINE b == (4 * a + 3) \div 146097
             c == a - (b * 146097) \div 4
             d == (4 * c + 3) \div 1461
  <1>5. b = C
    <2> DEFINE rest == 1460 * r + 4 * s + 4 * e + 3 - k
    <2>1. 4 * a + 3 = 146097 * C + rest
      BY <1>0, <1>1, <1>3
    <2>2. rest \in Int /\ rest >= 0 /\ rest < 146097
      BY <1>0, <1>1, <1>4
    <2> HIDE DEF C, rest
    <2> QED
      BY <1>2, <2>1, <2>2
  <1>6. c = 365 * r + s + e
    <2>1. (C * 146097) \div 4 = 36524 * C + q
      BY <1>1
    <2>2. c = a - (C * 146097) \div 4
      BY <1>5
    <2> HIDE DEF b, c, C, r
    <2> QED
      BY <1>0, <1>1, <1>2, <1>3, <2>1, <2>2
  <1>7. d = r
    <2> DEFINE rest == 4 * e + 3 - u
    <2>1. 4 * c + 3 = 1461 * r + rest
      BY <1>0, <1>1, <1>6
    <2>2. rest \in Int /\ rest >= 0 /\ rest < 1461
      BY <1>0, <1>1, <1>4
    <2> HIDE DEF b, c, r, rest
    <2> QED
      BY <1>2, <2>1, <2>2
  <1>8. c - (1461 * d) \div 4 = e
    <2>1. (1461 * r) \div 4 = 365 * r + s
      BY <1>1
    <2> HIDE DEF c, d, r, C
    <2> QED
      BY <1>0, <1>1, <1>2, <1>6, <1>7, <2>1
  <1>9. b \in Int /\ d \in Int /\ b * 100 + d = Y
    <2> HIDE DEF b, c, d, r, C
    <2> QED
      BY <1>2, <1>5, <1>7
  <1>10. b = CenturyOf(a) /\ c = RestOf(a) /\ d = YearOf(a)
    BY DEF CenturyOf, RestOf, YearOf
  <1>11. DayOf(a) = c - (1461 * d) \div 4
    BY <1>10 DEF DayOf
  <1> HIDE DEF b, c, d
  <1> QED
    BY <1>8, <1>9, <1>10, <1>11 DEF IsFound

\* The days in a month that is counted from March; February may have 29.
MonthOf(e) == (5 * e + 2) \div 153
IsMonth(e, k) == MonthOf(e) = k /\ e \in 0 .. 365

\* It finds the month, counted from March.
LEMMA MonthFound ==
    ASSUME NEW k \in 0 .. 11, NEW n \in 0 .. 30, NEW e, e = MarchDays(k) + n,
           k \in {1, 3, 6, 8} => n <= 29, k = 11 => n <= 28
    PROVE  IsMonth(e, k)
  <1>1. k \in {0, 1, 2, 3, 4, 5, 6, 7, 8, 9, 10, 11}
    OBVIOUS
  <1> QED
    BY <1>1 DEF MarchDays, MonthOf, IsMonth

\* A date becomes a day number and comes back (Date.cc:14-35).
LEMMA DateReturns ==
    ASSUME NEW y \in Int, NEW m \in 1 .. 12, NEW d \in 1 .. MonthLength(y, m)
    PROVE  getYearMonthDay(getJulianDayNumber(y, m, d)) = [year |-> y, month |-> m, day |-> d]
  <1> DEFINE Y == MarchYear(y, m)
             k == MarchMonth(m)
             e == MarchDays(k) + (d - 1)
             j == getJulianDayNumber(y, m, d)
  <1>1. m \in {1, 2, 3, 4, 5, 6, 7, 8, 9, 10, 11, 12}
    OBVIOUS
  <1>2. /\ Y \in Int /\ k \in 0 .. 11 /\ d \in Int /\ d - 1 \in 0 .. 30
        /\ k \in {1, 3, 6, 8} => d - 1 <= 29
        /\ k = 11 => d - 1 <= 28
    BY <1>1 DEF MarchYear, MarchMonth, MonthLength
  <1>3. MonthOf(e) = k /\ e \in 0 .. 365 /\ MarchDays(k) \in Int
    <2>1. MonthOf(e) = k /\ e \in 0 .. 365
      <3> DEFINE n == d - 1
      <3>1. n \in 0 .. 30 /\ (k \in {1, 3, 6, 8} => n <= 29) /\ (k = 11 => n <= 28)
        BY <1>2
      <3>2. e = MarchDays(k) + n
        OBVIOUS
      <3> HIDE DEF n, k, e
      <3>3. IsMonth(e, k)
        BY <1>2, <3>1, <3>2, MonthFound, Zenon
      <3> QED
        BY <3>3 DEF IsMonth
    <2> QED
      BY <1>2, <2>1 DEF MarchDays
  <1>4. e = 365 => IsLeap(Y + 1)
    <2> SUFFICES ASSUME e = 365 PROVE IsLeap(Y + 1)
      OBVIOUS
    <2>1. k = 11 /\ d = 29
      <3>1. k \in {0, 1, 2, 3, 4, 5, 6, 7, 8, 9, 10, 11}
        BY <1>2
      <3> HIDE DEF k
      <3> QED
        BY <1>2, <3>1 DEF MarchDays
    <2>2. m = 2 /\ Y = y + 4799
      BY <1>1, <2>1 DEF MarchMonth, MarchYear
    <2>3. IsLeap(y)
      BY <2>1, <2>2 DEF MonthLength
    <2> DEFINE w == Y + 1
    <2>4. w = y + 4800
      BY <2>2
    <2> HIDE DEF w
    <2>5. y % 4 = w % 4 /\ y % 100 = w % 100 /\ y % 400 = w % 400
      BY <2>4
    <2>6. IsLeap(w)
      BY <2>3, <2>5 DEF IsLeap
    <2> QED
      BY <2>6 DEF w
  <1>5. j + 32044 = e + CenturyDays(Y) /\ j \in Int
    <2>1. j = d + MarchDays(k) + CenturyDays(Y) - 32045
      BY <1>2, JulianIs
    <2>2. CenturyDays(Y) \in Int
      BY <1>2, CenturyTypes
    <2>3. e = MarchDays(k) + (d - 1)
      OBVIOUS
    <2> HIDE DEF Y, k, j, e
    <2> QED
      BY <1>2, <1>3, <2>1, <2>2, <2>3
  <1> DEFINE a == j + 32044
             b == CenturyOf(a)
             x == YearOf(a)
             f == DayOf(a)
             n == MonthOf(f)
  <1>6. b \in Int /\ x \in Int /\ b * 100 + x = Y /\ f = e
    <2> HIDE DEF Y, e, a
    <2>1. a = e + CenturyDays(Y)
      BY <1>5 DEF a
    <2>2. FromMarch(Y, e)
      BY <1>3, <1>4 DEF FromMarch
    <2>3. IsFound(a, Y, e)
      BY <1>2, <2>1, <2>2, YearFound, Zenon
    <2> QED
      BY <2>3 DEF IsFound
  <1>7. getYearMonthDay(j) = [year  |-> b * 100 + x - 4800 + n \div 10,
                              month |-> n + 3 - 12 * (n \div 10),
                              day   |-> f - (153 * n + 2) \div 5 + 1]
    <2> HIDE DEF j
    <2> QED
      BY DEF getYearMonthDay, CenturyOf, RestOf, YearOf, DayOf, MonthOf
  <1>8. n = k
    <2> HIDE DEF f, e, k
    <2> QED
      BY <1>3, <1>6
  <1> HIDE DEF b, x, f, n, j
  <1>9. f - (153 * n + 2) \div 5 + 1 = d
    <2>1. (153 * n + 2) \div 5 = MarchDays(k)
      BY <1>8 DEF MarchDays
    <2> HIDE DEF k
    <2> QED
      BY <1>2, <1>3, <1>6, <2>1
  <1>10. b * 100 + x - 4800 + n \div 10 = y
    <2>1. n \div 10 = IF m <= 2 THEN 1 ELSE 0
      BY <1>1, <1>8 DEF MarchMonth
    <2>2. Y = IF m <= 2 THEN y + 4799 ELSE y + 4800
      BY DEF MarchYear
    <2> HIDE DEF Y
    <2> QED
      BY <1>6, <2>1, <2>2
  <1>11. n + 3 - 12 * (n \div 10) = m
    BY <1>1, <1>8 DEF MarchMonth
  <1> QED
    BY <1>7, <1>9, <1>10, <1>11 DEF j

------------------------------------------------------------------------------
(* A Date beside the calendar on the wall.                                 *)

DateInv ==
    /\ date \in Int
    /\ wall \in [year : Years, month : 1 .. 12, day : Int, wday : Int, yday : Int]
    /\ wall.day \in 1 .. MonthLength(wall.year, wall.month)
    /\ wall.yday = MonthStart(wall.year, wall.month) + wall.day - 1
    /\ date = getJulianDayNumber(wall.year, 1, 1) + wall.yday
    /\ weekDay(date) = wall.wday

LEMMA YearsAreInt ==
    /\ \A y \in Years : y \in Int /\ y \in CivilYears
    /\ \A s \in Moments : s \in SecondsOfDay
  <1>1. Years \subseteq CivilYears /\ Moments \subseteq SecondsOfDay
    BY CalendarAssumption
  <1>2. \A y \in CivilYears : y \in Int
    BY DEF CivilYears
  <1> QED
    BY <1>1, <1>2

\* The first day of a year is the one on the wall.
LEMMA InitDateInv == DateInit => DateInv
  <1> SUFFICES ASSUME DateInit PROVE DateInv
    OBVIOUS
  <1>1. PICK y \in Years :
            /\ date = getJulianDayNumber(y, 1, 1)
            /\ wall = [year |-> y, month |-> 1, day |-> 1,
                       wday |-> (Thursday + NewYear[y]) % 7, yday |-> 0]
    BY DEF DateInit
  <1>2. y \in Int /\ y \in CivilYears
    BY YearsAreInt
  <1>3. date = 2440588 + DaysBefore(y) /\ NewYear[y] = DaysBefore(y) /\ DaysBefore(y) \in Int
    BY <1>1, <1>2, JulianOfNewYear, NewYearIs, YearTypes
  <1>4. weekDay(date) = (Thursday + NewYear[y]) % 7 /\ (Thursday + NewYear[y]) % 7 \in Int
    BY <1>3 DEF weekDay, Thursday
  <1>5. 1 \in 1 .. MonthLength(y, 1) /\ MonthStart(y, 1) = 0
    BY DEF MonthLength, MonthStart
  <1> QED
    BY <1>1, <1>3, <1>4, <1>5 DEF DateInv

\* A day later it still is.
LEMMA NextDateInv == DateInv /\ [Tomorrow]_dateVars => DateInv'
  <1> SUFFICES ASSUME DateInv, [Tomorrow]_dateVars PROVE DateInv'
    OBVIOUS
  <1>1. CASE UNCHANGED dateVars
    BY <1>1 DEF DateInv, dateVars
  <1>2. CASE Tomorrow
    <2> DEFINE y == wall.year
               m == wall.month
               d == wall.day
               last == d = MonthLength(y, m)
    <2>1. /\ y \in Years /\ y \in Int /\ m \in 1 .. 12 /\ d \in Int
          /\ wall.yday \in Int /\ wall.wday \in Int
          /\ d \in 1 .. MonthLength(y, m)
          /\ wall.yday = MonthStart(y, m) + d - 1
          /\ date \in Int /\ date = getJulianDayNumber(y, 1, 1) + wall.yday
          /\ weekDay(date) = wall.wday
      <3>1. y \in Years /\ m \in 1 .. 12 /\ d \in Int /\ wall.yday \in Int /\ wall.wday \in Int
        BY DEF DateInv
      <3>2. y \in Int
        BY <3>1, YearsAreInt
      <3>3. /\ d \in 1 .. MonthLength(y, m)
            /\ wall.yday = MonthStart(y, m) + d - 1
            /\ date \in Int /\ date = getJulianDayNumber(y, 1, 1) + wall.yday
            /\ weekDay(date) = wall.wday
        BY Zenon DEF DateInv
      <3> QED
        BY <3>1, <3>2, <3>3
    <2>2. getJulianDayNumber(y, 1, 1) \in Int
      <3>1. DaysBefore(y) \in Int
        BY <2>1, YearsAreInt, YearTypes
      <3> QED
        BY <2>1, <3>1, JulianOfNewYear
    <2>3. ~(m = 12 /\ d = 31) /\ date' = date + 1
      BY <1>2 DEF Tomorrow
    <2>4. wall' = [year |-> y, month |-> IF last THEN m + 1 ELSE m,
                   day |-> IF last THEN 1 ELSE d + 1,
                   wday |-> (wall.wday + 1) % 7, yday |-> wall.yday + 1]
      <3>1. wall \in [year : Years, month : 1 .. 12, day : Int, wday : Int, yday : Int]
        BY DEF DateInv
      <3> QED
        BY <1>2, <3>1 DEF Tomorrow, NextDay
    <2>5. MonthLength(y, m) \in {28, 29, 30, 31} /\ (m = 12 => MonthLength(y, m) = 31)
      BY <2>1 DEF MonthLength
    <2>6. /\ wall'.month \in 1 .. 12
          /\ wall'.day \in 1 .. MonthLength(y, wall'.month)
          /\ wall'.yday = MonthStart(y, wall'.month) + wall'.day - 1
      <3>1. CASE last
        <4>1. m \in 1 .. 11 /\ m + 1 \in 1 .. 12
          BY <2>1, <2>3, <2>5, <3>1
        <4>2. MonthStart(y, m + 1) = MonthStart(y, m) + MonthLength(y, m)
          BY <2>1, <4>1, MonthSteps
        <4>3. MonthLength(y, m + 1) \in {28, 29, 30, 31}
          BY DEF MonthLength
        <4>4. MonthStart(y, m) \in Int
          BY <2>1 DEF MonthStart, MarchDays
        <4>5. wall'.month = m + 1 /\ wall'.day = 1 /\ wall'.yday = wall.yday + 1
          BY <2>4, <3>1
        <4>6. 1 \in 1 .. MonthLength(y, m + 1)
          BY <4>3
        <4>7. wall.yday + 1 = MonthStart(y, m + 1) + 1 - 1
          BY <2>1, <3>1, <4>2, <4>4
        <4> QED
          BY <4>1, <4>5, <4>6, <4>7
      <3>2. CASE ~last
        <4>1. wall'.month = m /\ wall'.day = d + 1 /\ wall'.yday = wall.yday + 1
          BY <2>4, <3>2
        <4>2. MonthStart(y, m) \in Int
          BY <2>1 DEF MonthStart, MarchDays
        <4>3. d + 1 \in 1 .. MonthLength(y, m) /\ wall.yday + 1 = MonthStart(y, m) + (d + 1) - 1
          BY <2>1, <2>5, <3>2, <4>2
        <4> QED
          BY <2>1, <4>1, <4>3
      <3> QED
        BY <3>1, <3>2
    <2>7. date' \in Int /\ date' = getJulianDayNumber(y, 1, 1) + (wall.yday + 1)
      BY <2>1, <2>2, <2>3
    <2>8. weekDay(date') = (wall.wday + 1) % 7 /\ (wall.wday + 1) % 7 \in Int
      <3>1. wall.wday = (date + 1) % 7
        BY <2>1 DEF weekDay
      <3>2. weekDay(date') = (date + 1 + 1) % 7
        BY <2>3 DEF weekDay
      <3> QED
        BY <2>1, <3>1, <3>2
    <2>9. /\ wall' \in [year : Years, month : 1 .. 12, day : Int, wday : Int, yday : Int]
          /\ wall'.year = y /\ wall'.yday = wall.yday + 1 /\ wall'.wday = (wall.wday + 1) % 7
      BY <2>1, <2>4, <2>6, <2>8
    <2> HIDE DEF y, m, d, last
    <2>10. wall'.year = y /\ y = wall.year
      BY <2>9 DEF y
    <2>11. /\ wall'.day \in 1 .. MonthLength(wall'.year, wall'.month)
           /\ wall'.yday = MonthStart(wall'.year, wall'.month) + wall'.day - 1
           /\ date' = getJulianDayNumber(wall'.year, 1, 1) + wall'.yday
           /\ weekDay(date') = wall'.wday
      BY <2>6, <2>7, <2>8, <2>9, <2>10
    <2> QED
      BY <2>7, <2>9, <2>11 DEF DateInv
  <1> QED
    BY <1>1, <1>2

------------------------------------------------------------------------------
(* A time on that day.                                                     *)

\* The seconds of the day and the days that toUtcTime finds in t seconds.
SecondsOf(t) ==
    LET r == CRemainder(t, kSecondsPerDay) IN IF r < 0 THEN r + kSecondsPerDay ELSE r
DaysOf(t) ==
    LET r == CRemainder(t, kSecondsPerDay)
        q == CQuotient(t, kSecondsPerDay)
    IN  IF r < 0 THEN q - 1 ELSE q

\* C's rounding towards zero is corrected for times before 1970 (TimeZone.cc:315-321).
LEMMA DayBack ==
    ASSUME NEW days \in Int, NEW s \in SecondsOfDay, NEW t, t = days * kSecondsPerDay + s
    PROVE  SecondsOf(t) = s /\ DaysOf(t) = days
  <1> DEFINE q == IF t < 0 /\ t % 86400 # 0 THEN (t \div 86400) + 1 ELSE t \div 86400
             r == t - 86400 * q
  <1>0. kSecondsPerDay \in Int
    BY DEF kSecondsPerDay
  <1>1. kSecondsPerDay = 86400
    BY DEF kSecondsPerDay
  <1>2. t = 86400 * days + s /\ s \in Int /\ 0 <= s /\ s < 86400 /\ t \in Int
    <2>1. s \in Int /\ 0 <= s /\ s <= kSecondsPerDay - 1
      BY <1>0 DEF SecondsOfDay
    <2> QED
      BY <1>1, <2>1
  <1>3. t \div 86400 = days /\ t % 86400 = s
    BY <1>2
  <1>4. q = IF t < 0 /\ s # 0 THEN days + 1 ELSE days
    BY <1>3
  <1> HIDE DEF q
  <1>5. r = IF t < 0 /\ s # 0 THEN s - 86400 ELSE s
    BY <1>2, <1>4
  <1> HIDE DEF r
  <1>6. /\ (IF r < 0 THEN r + 86400 ELSE r) = s
        /\ (IF r < 0 THEN q - 1 ELSE q) = days
    BY <1>2, <1>4, <1>5
  <1>7. CQuotient(t, 86400) = q /\ CRemainder(t, 86400) = r
    BY DEF CQuotient, CRemainder, q, r
  <1> QED
    BY <1>1, <1>6, <1>7 DEF SecondsOf, DaysOf

IsTime(hms, s) ==
    /\ hms.hour * 3600 + hms.min * 60 + hms.sec = s
    /\ hms.min \in 0 .. 59 /\ hms.sec \in 0 .. 59 /\ hms.hour \in Int

\* The hours, minutes and seconds of a second of the day make it up.
LEMMA TimeOfDayBack ==
    ASSUME NEW s \in SecondsOfDay, NEW hms, hms = fillHMS(s)
    PROVE  IsTime(hms, s)
  <1>1. s \in Nat
    BY DEF SecondsOfDay
  <1> DEFINE m == s \div 60
  <1>2. m \in Nat /\ s = 60 * m + (s % 60) /\ s % 60 \in 0 .. 59
    BY <1>1
  <1> HIDE DEF m
  <1>3. m = 60 * (m \div 60) + (m % 60) /\ m % 60 \in 0 .. 59 /\ m \div 60 \in Nat
    BY <1>2
  <1>4. hms.hour = m \div 60 /\ hms.min = m % 60 /\ hms.sec = s % 60
    BY DEF fillHMS, m
  <1> QED
    BY <1>2, <1>3, <1>4 DEF IsTime

\* The day on the wall is the Date's, its civil date and its count of days.
LEMMA DaysAgree ==
    ASSUME DateInv
    PROVE  /\ Remade = date
           /\ date = kJulianDayOf1970_01_01 + DaysSinceEpoch
           /\ DaysSinceEpoch \in Int
           /\ getYearMonthDay(date) = [year |-> wall.year, month |-> wall.month, day |-> wall.day]
  <1> DEFINE y == wall.year
             m == wall.month
             d == wall.day
  <1>1. /\ y \in Int /\ y \in CivilYears /\ m \in 1 .. 12 /\ d \in Int
        /\ wall.yday \in Int /\ d \in 1 .. MonthLength(y, m)
        /\ wall.yday = MonthStart(y, m) + d - 1
        /\ date = getJulianDayNumber(y, 1, 1) + wall.yday
    BY YearsAreInt DEF DateInv
  <1>2. getJulianDayNumber(y, 1, 1) = 2440588 + DaysBefore(y) /\ DaysBefore(y) \in Int
    BY <1>1, JulianOfNewYear, YearTypes
  <1>3. NewYear[y] = DaysBefore(y) /\ kJulianDayOf1970_01_01 = 2440588
    BY <1>1, NewYearIs, EpochDay
  <1>4. getJulianDayNumber(y, m, d) = getJulianDayNumber(y, 1, 1) + MonthStart(y, m) + d - 1
    BY <1>1, JulianOfDay
  <1>5. MonthStart(y, m) \in Int
    BY <1>1 DEF MonthStart, MarchDays
  <1>6. getYearMonthDay(getJulianDayNumber(y, m, d)) = [year |-> y, month |-> m, day |-> d]
    BY <1>1, DateReturns
  <1>7. Remade = getJulianDayNumber(y, m, d) /\ DaysSinceEpoch = NewYear[y] + wall.yday
    BY DEF Remade, DaysSinceEpoch
  <1> HIDE DEF y, m, d
  <1>8. Remade = date /\ date = kJulianDayOf1970_01_01 + DaysSinceEpoch /\ DaysSinceEpoch \in Int
    BY <1>1, <1>2, <1>3, <1>4, <1>5, <1>7
  <1> QED
    BY <1>6, <1>7, <1>8 DEF y, m, d

\* Every second of that day survives toUtcTime and fromUtcTime.
LEMMA UtcReturns ==
    ASSUME DateInv, NEW s \in Moments
    PROVE  UtcAgrees(s)
  <1> DEFINE t == DaysSinceEpoch * kSecondsPerDay + s
             seconds == SecondsOf(t)
             days == DaysOf(t)
             julian == days + kJulianDayOf1970_01_01
             ymd == getYearMonthDay(julian)
             utc == toUtcTime(t)
  <1>1. /\ s \in SecondsOfDay /\ DaysSinceEpoch \in Int /\ Remade = date
        /\ date = kJulianDayOf1970_01_01 + DaysSinceEpoch
        /\ getYearMonthDay(date) = [year |-> wall.year, month |-> wall.month, day |-> wall.day]
        /\ kJulianDayOf1970_01_01 \in Int
    <2>1. s \in SecondsOfDay
      BY YearsAreInt
    <2>2. kJulianDayOf1970_01_01 \in Int
      BY EpochDay
    <2> QED
      BY <2>1, <2>2, DaysAgree
  <1>2. seconds = s /\ days = DaysSinceEpoch
    <2>1. t = DaysSinceEpoch * kSecondsPerDay + s
      OBVIOUS
    <2> HIDE DEF t
    <2> QED
      BY <1>1, <2>1, DayBack, Zenon
  <1>3. utc = [ymd |-> ymd, hms |-> fillHMS(seconds), wday |-> weekDay(julian),
               yday |-> julian - getJulianDayNumber(ymd.year, 1, 1)]
    BY DEF toUtcTime, SecondsOf, DaysOf
  <1> HIDE DEF seconds, days, utc
  <1>4. julian = date
    BY <1>1, <1>2
  <1> HIDE DEF julian
  <1>5. ymd = [year |-> wall.year, month |-> wall.month, day |-> wall.day]
    BY <1>1, <1>4
  <1>6. /\ wall.wday = weekDay(date) /\ wall.yday \in Int
        /\ date = getJulianDayNumber(wall.year, 1, 1) + wall.yday
        /\ wall.year \in Int /\ wall.year \in CivilYears
    BY YearsAreInt DEF DateInv
  <1>7. getJulianDayNumber(wall.year, 1, 1) \in Int
    BY <1>6, JulianOfNewYear, YearTypes
  <1>8. date - getJulianDayNumber(wall.year, 1, 1) = wall.yday
    BY <1>6, <1>7
  <1> HIDE DEF ymd
  <1>9. /\ utc.ymd = [year |-> wall.year, month |-> wall.month, day |-> wall.day]
        /\ utc.wday = wall.wday
        /\ utc.hms = fillHMS(s)
    BY <1>2, <1>3, <1>4, <1>5, <1>6
  <1>10. utc.yday = wall.yday
    <2>1. ymd.year = wall.year /\ utc.yday = julian - getJulianDayNumber(ymd.year, 1, 1)
      BY <1>3, <1>5
    <2> QED
      BY <2>1, <1>4, <1>8
  <1> DEFINE hms == fillHMS(s)
  <1>11. /\ hms.hour * 3600 + hms.min * 60 + hms.sec = s
         /\ hms.min \in 0 .. 59 /\ hms.sec \in 0 .. 59 /\ hms.hour \in Int
    <2>1. IsTime(hms, s)
      BY <1>1, TimeOfDayBack, Zenon
    <2> HIDE DEF hms
    <2> QED
      BY <2>1 DEF IsTime
  <1> HIDE DEF hms
  <1>12. utc.hms = hms
    BY <1>9 DEF hms
  <1>13. fromUtcTime(utc) = t
    <2>1. utc.ymd.year = wall.year /\ utc.ymd.month = wall.month /\ utc.ymd.day = wall.day
      BY <1>9
    <2>2. getJulianDayNumber(utc.ymd.year, utc.ymd.month, utc.ymd.day) - kJulianDayOf1970_01_01
              = DaysSinceEpoch
      BY <1>1, <2>1 DEF Remade
    <2>3. fromUtcTime(utc) =
              DaysSinceEpoch * kSecondsPerDay + hms.hour * 3600 + hms.min * 60 + hms.sec
      BY <1>12, <2>2 DEF fromUtcTime
    <2>4. kSecondsPerDay = 86400
      BY DEF kSecondsPerDay
    <2> DEFINE n == DaysSinceEpoch * kSecondsPerDay
    <2>5. n \in Int
      BY <1>1, <2>4
    <2> HIDE DEF n
    <2>6. hms.sec \in Int /\ hms.min \in Int /\ hms.hour \in Int
      BY <1>11
    <2> DEFINE h == hms.hour
               i == hms.min
               c == hms.sec
    <2>7. h * 3600 + i * 60 + c = s /\ h \in Int /\ i \in Int /\ c \in Int
      BY <1>11, <2>6
    <2> HIDE DEF h, i, c
    <2>8. n + h * 3600 + i * 60 + c = n + s
      BY <2>5, <2>7
    <2> QED
      BY <2>3, <2>8 DEF n, h, i, c
  <1> HIDE DEF t
  <1>14. UtcAgrees(s) <=>
           /\ utc.ymd = [year |-> wall.year, month |-> wall.month, day |-> wall.day]
           /\ utc.wday = wall.wday
           /\ utc.yday = wall.yday
           /\ utc.hms.hour * 3600 + utc.hms.min * 60 + utc.hms.sec = s
           /\ utc.hms.min \in 0..59 /\ utc.hms.sec \in 0..59
           /\ fromUtcTime(utc) = t
    BY DEF UtcAgrees, t, utc
  <1> QED
    BY <1>9, <1>10, <1>11, <1>12, <1>13, <1>14

(* In every year from 1 to 9999 a Date stepped day by day and a Date made  *)
(* from the civil date are the same day, its year, month, day and week day *)
(* are the calendar's, and every second of it survives toUtcTime and       *)
(* fromUtcTime: the integer formulas of Date.cc.                           *)
THEOREM DatesAreGregorianHolds == DateSpec => []DatesAreGregorian
  <1>1. DateInv => DatesAreGregorian
    <2> SUFFICES ASSUME DateInv PROVE DatesAreGregorian
      OBVIOUS
    <2>1. /\ Remade = date
          /\ date = kJulianDayOf1970_01_01 + DaysSinceEpoch
          /\ getYearMonthDay(date) = [year |-> wall.year, month |-> wall.month, day |-> wall.day]
      BY DaysAgree
    <2>2. \A s \in Moments : UtcAgrees(s)
      BY UtcReturns
    <2>3. weekDay(date) = wall.wday
      BY DEF DateInv
    <2> QED
      BY <2>1, <2>2, <2>3 DEF DatesAreGregorian
  <1> QED
    BY <1>1, InitDateInv, NextDateInv, PTL DEF DateSpec

------------------------------------------------------------------------------
(* Ascending keys.                                                         *)

Ascending(keys) == \A i, j \in 1 .. Len(keys) : i < j => keys[i] < keys[j]

\* The first k keys are not after the key, the others are.
Current(keys, key, k) ==
    /\ k \in 0 .. Len(keys)
    /\ \A i \in 1 .. k : keys[i] <= key
    /\ \A j \in k + 1 .. Len(keys) : keys[j] > key

IsLowerBound(keys, key, i) ==
    /\ i \in 1 .. Len(keys) + 1
    /\ \A j \in 1 .. i - 1 : keys[j] < key
    /\ i <= Len(keys) => keys[i] >= key

\* There is a first key that is not before a key.
LEMMA LowerBoundIs ==
    ASSUME NEW keys \in Seq(Int), NEW key \in Int
    PROVE  IsLowerBound(keys, key, lower_bound(keys, key))
  <1> DEFINE n == Len(keys)
             T == {i \in 1 .. n + 1 : i <= n => keys[i] >= key}
  <1>1. n \in Nat /\ \A i \in 1 .. n : keys[i] \in Int
    BY LenProperties, ElementOfSeq
  <1>2. n + 1 \in T
    BY <1>1
  <1>3. PICK m \in T : \A i \in T : m <= i
    <2>1. T \in SUBSET Nat
      BY <1>1
    <2> HIDE DEF T
    <2> QED
      BY <1>2, <2>1, LeastNatural
  <1>4. m \in 1 .. n + 1 /\ (m <= n => keys[m] >= key)
    OBVIOUS
  <1>5. ASSUME NEW j \in 1 .. m - 1
        PROVE  keys[j] < key
    <2>1. j \in 1 .. n /\ j \in 1 .. n + 1 /\ ~(m <= j) /\ j <= n
      BY <1>1, <1>4
    <2>2. j \notin T
      <3> HIDE DEF T
      <3> QED
        BY <1>3, <2>1
    <2>3. ~(keys[j] >= key)
      BY <2>1, <2>2
    <2> QED
      BY <1>1, <2>1, <2>3
  <1>6. IsLowerBound(keys, key, m)
    BY <1>4, <1>5 DEF IsLowerBound
  <1>7. \E i \in 1 .. Len(keys) + 1 :
            /\ \A j \in 1 .. i - 1 : keys[j] < key
            /\ i <= Len(keys) => keys[i] >= key
    <2> HIDE DEF n, T
    <2> QED
      BY <1>6, Zenon DEF IsLowerBound
  <1> QED
    BY <1>7, Zenon DEF lower_bound, IsLowerBound

\* Some transition is the last one at any time, or none is.
LEMMA CurrentExists ==
    ASSUME NEW keys \in Seq(Int), Ascending(keys), NEW key \in Int
    PROVE  \E k \in Nat : Current(keys, key, k)
  <1> DEFINE n == Len(keys)
             next == key + 1
             b == lower_bound(keys, next)
  <1>1. n \in Nat /\ \A i \in 1 .. n : keys[i] \in Int
    BY LenProperties, ElementOfSeq
  <1>2. IsLowerBound(keys, next, b)
    BY LowerBoundIs
  <1>3. b \in 1 .. n + 1 /\ (\A j \in 1 .. b - 1 : keys[j] < next) /\ (b <= n => keys[b] >= next)
    BY <1>2 DEF IsLowerBound
  <1> HIDE DEF b
  <1>4. b - 1 \in Nat /\ b - 1 \in 0 .. n
    BY <1>1, <1>3
  <1>5. ASSUME NEW i \in 1 .. b - 1 PROVE keys[i] <= key
    <2>1. i \in 1 .. n /\ keys[i] < next
      BY <1>1, <1>3, <1>5
    <2> QED
      BY <1>1, <2>1
  <1>6. ASSUME NEW j \in (b - 1) + 1 .. n PROVE keys[j] > key
    <2>1. j \in 1 .. n /\ b \in 1 .. n /\ b <= j /\ keys[b] >= next
      BY <1>1, <1>3, <1>6
    <2>2. b < j => keys[b] < keys[j]
      BY <2>1 DEF Ascending
    <2> QED
      BY <1>1, <2>1, <2>2
  <1>7. Current(keys, key, b - 1)
    BY <1>4, <1>5, <1>6 DEF Current
  <1> QED
    BY <1>4, <1>7

------------------------------------------------------------------------------
(* The type in force.                                                      *)

IsFile(f) ==
    /\ f \in ZoneFiles
    /\ Len(f.index) = Len(f.times)
    /\ \A i \in 1 .. Len(f.times) : f.index[i] \in 0 .. Len(f.types) - 1
    /\ Ascending(f.times)

\* The type that is in force after the k-th transition.
Zone(f, k) == IF k = 0 THEN f.types[1] ELSE f.types[f.index[k] + 1]

\* What a zone file holds.
LEMMA FileFacts ==
    ASSUME NEW f, IsFile(f)
    PROVE  /\ f.times \in Seq(Int) /\ Len(f.times) \in Nat
           /\ DOMAIN f.times = 1 .. Len(f.times)
           /\ \A i \in 1 .. Len(f.times) : f.times[i] \in Int
           /\ f.types \in Seq(ZoneTypes) /\ Len(f.types) \in Nat
           /\ f.types # <<>> => \A k \in 0 .. Len(f.times) :
                  Zone(f, k).off \in Int /\ Zone(f, k).dst \in BOOLEAN
  <1>1. f.times \in Seq(Int) /\ f.types \in Seq(ZoneTypes)
    BY DEF IsFile, ZoneFiles
  <1>2. Len(f.times) \in Nat /\ DOMAIN f.times = 1 .. Len(f.times) /\ Len(f.types) \in Nat
    BY <1>1, LenProperties
  <1>3. \A i \in 1 .. Len(f.times) : f.times[i] \in Int
    BY <1>1, ElementOfSeq
  <1>4. ASSUME f.types # <<>>, NEW k \in 0 .. Len(f.times)
        PROVE  Zone(f, k).off \in Int /\ Zone(f, k).dst \in BOOLEAN
    <2>1. Len(f.types) # 0
      BY <1>1, <1>4, EmptySeq
    <2>2. CASE k = 0
      <3>1. f.types[1] \in ZoneTypes
        BY <1>1, <1>2, <2>1, ElementOfSeq
      <3> QED
        BY <2>2, <3>1 DEF Zone, ZoneTypes
    <2>3. CASE k # 0
      <3>1. f.index[k] \in 0 .. Len(f.types) - 1
        BY <1>2, <1>4, <2>3 DEF IsFile
      <3>2. f.index[k] + 1 \in 1 .. Len(f.types)
        BY <1>2, <3>1
      <3>3. f.types[f.index[k] + 1] \in ZoneTypes
        BY <1>1, <3>2, ElementOfSeq
      <3> QED
        BY <2>3, <3>3 DEF Zone, ZoneTypes
    <2> QED
      BY <2>2, <2>3
  <1> QED
    BY <1>1, <1>2, <1>3, <1>4

\* The reference's type at a time is that of the last transition.
LEMMA TypeAtIs ==
    ASSUME NEW f, IsFile(f), NEW t \in Int, NEW k, Current(f.times, t, k)
    PROVE  TypeAt(f, t) = Zone(f, k)
  <1> DEFINE n == Len(f.times)
             past == {i \in DOMAIN f.times : f.times[i] <= t}
  <1>1. n \in Nat /\ DOMAIN f.times = 1 .. n /\ \A i \in 1 .. n : f.times[i] \in Int
    BY FileFacts
  <1>2. k \in 0 .. n /\ (\A i \in 1 .. k : f.times[i] <= t) /\ (\A j \in k + 1 .. n : f.times[j] > t)
    BY DEF Current
  <1>3. past = 1 .. k
    <2>1. \A i \in 1 .. k : i \in past
      BY <1>1, <1>2
    <2>2. ASSUME NEW i \in past PROVE i \in 1 .. k
      <3>1. i \in 1 .. n /\ f.times[i] <= t
        BY <1>1
      <3>2. ~(f.times[i] > t)
        BY <1>1, <3>1
      <3>3. i \notin k + 1 .. n
        BY <1>2, <3>2
      <3> QED
        BY <1>2, <3>1, <3>3
    <2> QED
      BY <2>1, <2>2
  <1>4. TypeAt(f, t) = IF past = {} THEN f.types[1]
                       ELSE f.types[f.index[CHOOSE i \in past : \A j \in past : j <= i] + 1]
    BY DEF TypeAt
  <1> HIDE DEF past, n
  <1>5. CASE k = 0
    <2>1. past = {}
      BY <1>3, <1>5
    <2> QED
      BY <1>4, <1>5, <2>1 DEF Zone
  <1>6. CASE k # 0
    <2>1. k \in past /\ \A j \in past : j <= k
      BY <1>1, <1>2, <1>3, <1>6
    <2>2. \A i \in past : (\A j \in past : j <= i) => i = k
      BY <1>1, <1>2, <1>3, <2>1
    <2>3. (CHOOSE i \in past : \A j \in past : j <= i) = k
      BY <2>1, <2>2, Zenon
    <2> QED
      BY <1>4, <1>6, <2>1, <2>3 DEF Zone
  <1> QED
    BY <1>5, <1>6

------------------------------------------------------------------------------
(* Reading the file.                                                       *)

LocalOf(f) == [i \in 1 .. Len(f.times) |-> f.times[i] + Zone(f, i).off]

Whole(f) ==
    /\ data.localtimes = f.types
    /\ data.transitions = [i \in DOMAIN f.times |->
           [gmttime |-> f.times[i],
            localtime |-> f.times[i] + f.types[f.index[i] + 1].off,
            localtimeIdx |-> f.index[i]]]

InPart ==
    /\ data.transitions = <<>>
    /\ data.localtimes \in Seq(ZoneTypes)
    /\ ~data.named

ZoneInv ==
    /\ IsFile(zonefile)
    /\ data \in [transitions : {data.transitions}, localtimes : {data.localtimes}, named : BOOLEAN]
    /\ stage \in {"head", "times", "index", "types", "transitions", "abbreviation", "done", "threw"}
    /\ stage \in {"head", "times", "index", "types"} => data = NoData
    /\ stage = "transitions" => InPart /\ data.localtimes = zonefile.types
    /\ stage = "abbreviation" => Whole(zonefile)
    /\ stage = "done" => Whole(zonefile) \/ InPart

LEMMA NoDataFacts ==
    /\ NoData \in [transitions : {NoData.transitions}, localtimes : {NoData.localtimes}, named : BOOLEAN]
    /\ NoData.transitions = <<>> /\ NoData.localtimes = <<>> /\ ~NoData.named
    /\ <<>> \in Seq(ZoneTypes)
  <1>1. <<>> \in Seq(ZoneTypes)
    BY EmptySeq
  <1> QED
    BY <1>1 DEF NoData

\* Before the file is read there is no data.
LEMMA InitZoneInv == ZoneInit => ZoneInv
  <1> SUFFICES ASSUME ZoneInit PROVE ZoneInv
    OBVIOUS
  <1>1. CASE zonefile \in Files /\ stage \in {"head", "done"} /\ data = NoData
    <2>1. /\ zonefile \in ZoneFiles /\ Len(zonefile.index) = Len(zonefile.times)
          /\ \A i \in DOMAIN zonefile.index : zonefile.index[i] \in 0 .. Len(zonefile.types) - 1
          /\ \A i, j \in DOMAIN zonefile.times : i < j => zonefile.times[i] < zonefile.times[j]
      BY <1>1, ZoneAssumption
    <2>2. zonefile.times \in Seq(Int) /\ zonefile.index \in Seq(Nat)
      BY <2>1 DEF ZoneFiles
    <2>3. /\ DOMAIN zonefile.times = 1 .. Len(zonefile.times)
          /\ DOMAIN zonefile.index = 1 .. Len(zonefile.times)
      BY <2>1, <2>2, LenProperties
    <2>4. IsFile(zonefile)
      BY <2>1, <2>3 DEF IsFile, Ascending
    <2>5. InPart
      BY <1>1, NoDataFacts DEF InPart
    <2> QED
      BY <1>1, <2>4, <2>5, NoDataFacts DEF ZoneInv
  <1>2. ASSUME NEW east \in East,
               zonefile = [times |-> <<>>, index |-> <<>>, types |-> <<[off |-> east, dst |-> FALSE]>>],
               stage = "done",
               data = [transitions |-> <<>>, localtimes |-> zonefile.types, named |-> TRUE]
        PROVE  ZoneInv
    <2>1. east \in Int
      BY ZoneAssumption
    <2> DEFINE z == [off |-> east, dst |-> FALSE]
    <2>2. z \in ZoneTypes
      BY <2>1 DEF ZoneTypes
    <2> HIDE DEF z
    <2>3. <<z>> \in Seq(ZoneTypes) /\ Len(<<z>>) = 1
      BY <2>2
    <2>4. <<>> \in Seq(Int) /\ <<>> \in Seq(Nat) /\ Len(<<>>) = 0 /\ DOMAIN <<>> = 1 .. 0
      OBVIOUS
    <2>5. zonefile = [times |-> <<>>, index |-> <<>>, types |-> <<z>>]
      BY <1>2 DEF z
    <2>6. zonefile \in ZoneFiles /\ zonefile.times = <<>> /\ zonefile.index = <<>>
      BY <2>3, <2>4, <2>5 DEF ZoneFiles
    <2>7. IsFile(zonefile)
      BY <2>4, <2>6 DEF IsFile, Ascending
    <2> DEFINE made == [i \in DOMAIN zonefile.times |->
           [gmttime |-> zonefile.times[i],
            localtime |-> zonefile.times[i] + zonefile.types[zonefile.index[i] + 1].off,
            localtimeIdx |-> zonefile.index[i]]]
    <2>8. made = <<>>
      <3>1. DOMAIN zonefile.times = 1 .. 0
        BY <2>4, <2>6
      <3>2. made \in [1 .. 0 -> {}]
        BY <3>1
      <3> HIDE DEF made
      <3>3. made \in Seq({}) /\ Len(made) = 0
        BY <3>2
      <3> QED
        BY <3>3, EmptySeq
    <2>9. Whole(zonefile)
      BY <1>2, <2>8 DEF Whole
    <2> QED
      BY <1>2, <2>7, <2>9 DEF ZoneInv
  <1> QED
    BY <1>1, <1>2 DEF ZoneInit

\* Each read of the file, also one that ends early, keeps the invariant.
LEMMA NextZoneInv == ZoneInv /\ [ZoneNext]_zoneVars => ZoneInv'
  <1> SUFFICES ASSUME ZoneInv, [ZoneNext]_zoneVars PROVE ZoneInv'
    OBVIOUS
  <1> USE DEF At, GoesOn, Caught, Uncaught
  <1>1. ASSUME zonefile' = zonefile, data' = data, stage \in {"head", "times", "index", "types"},
               stage' \in {"head", "times", "index", "types", "done", "threw"}
        PROVE  ZoneInv'
    <2>1. data = NoData
      BY <1>1 DEF ZoneInv
    <2>2. InPart'
      BY <1>1, <2>1, NoDataFacts DEF InPart
    <2> QED
      BY <1>1, <2>1, <2>2 DEF ZoneInv
  <1>2. CASE UNCHANGED zoneVars
    BY <1>2 DEF ZoneInv, zoneVars, InPart, Whole
  <1>3. CASE ReadHead
    BY <1>1, <1>3 DEF ReadHead
  <1>4. CASE ReadTimes
    BY <1>1, <1>4 DEF ReadTimes
  <1>5. CASE ReadIndex
    BY <1>1, <1>5 DEF ReadIndex
  <1>6. CASE ReadTypes
    <2>1. data = NoData /\ stage = "types" /\ zonefile' = zonefile
      BY <1>6 DEF ReadTypes, ZoneInv
    <2>2. PICK n \in 0 .. Len(zonefile.types) :
              /\ data' = [data EXCEPT !.localtimes = SubSeq(zonefile.types, 1, n)]
              /\ IF n = Len(zonefile.types) THEN stage' = "transitions"
                 ELSE stage' = "done" \/ stage' = "threw"
      BY <1>6 DEF ReadTypes
    <2> DEFINE read == SubSeq(zonefile.types, 1, n)
    <2>3. zonefile.types \in Seq(ZoneTypes) /\ Len(zonefile.types) \in Nat
      BY FileFacts DEF ZoneInv
    <2>4. read \in Seq(ZoneTypes)
      <3>1. \A i \in 1 .. n : zonefile.types[i] \in ZoneTypes
        BY <2>3, ElementOfSeq
      <3> QED
        BY <2>3, <3>1, SubSeqProperties
    <2>5. n = Len(zonefile.types) => read = zonefile.types
      BY <2>3, SubSeqFull
    <2> HIDE DEF read
    <2>6. data' = [transitions |-> <<>>, localtimes |-> read, named |-> FALSE]
      BY <2>1, <2>2 DEF read, NoData
    <2>7. InPart' /\ data' \in [transitions : {data'.transitions}, localtimes : {data'.localtimes}, named : BOOLEAN]
      BY <2>4, <2>6 DEF InPart
    <2>8. stage' = "transitions" => data'.localtimes = zonefile'.types
      BY <2>1, <2>2, <2>5, <2>6
    <2>9. IsFile(zonefile')
      BY <2>1 DEF ZoneInv
    <2> QED
      BY <2>2, <2>7, <2>8, <2>9 DEF ZoneInv
  <1>7. CASE MakeTransitions
    <2> DEFINE made == [i \in DOMAIN zonefile.times |->
           [gmttime |-> zonefile.times[i],
            localtime |-> zonefile.times[i] + zonefile.types[zonefile.index[i] + 1].off,
            localtimeIdx |-> zonefile.index[i]]]
    <2>1. data.localtimes = zonefile.types /\ zonefile' = zonefile /\ stage' = "abbreviation"
      BY <1>7 DEF MakeTransitions, ZoneInv
    <2>2. data' = [data EXCEPT !.transitions = made]
      BY <1>7, <2>1 DEF MakeTransitions
    <2> HIDE DEF made
    <2>3. data'.transitions = made /\ data'.localtimes = zonefile.types
      BY <2>1, <2>2 DEF ZoneInv
    <2>4. data' \in [transitions : {data'.transitions}, localtimes : {data'.localtimes}, named : BOOLEAN]
      BY <2>2, <2>3 DEF ZoneInv
    <2>5. Whole(zonefile)'
      BY <2>1, <2>3 DEF Whole, made
    <2> QED
      BY <2>1, <2>4, <2>5 DEF ZoneInv
  <1>8. CASE ReadAbbreviation
    <2>1. zonefile' = zonefile /\ stage' = "done" /\ Whole(zonefile)
      BY <1>8 DEF ReadAbbreviation, ZoneInv
    <2>2. PICK whole \in BOOLEAN : data' = [data EXCEPT !.named = whole]
      BY <1>8 DEF ReadAbbreviation
    <2>3. /\ data'.transitions = data.transitions /\ data'.localtimes = data.localtimes
          /\ data' \in [transitions : {data'.transitions}, localtimes : {data'.localtimes}, named : BOOLEAN]
      BY <2>2 DEF ZoneInv
    <2>4. Whole(zonefile)'
      BY <2>1, <2>3 DEF Whole
    <2> QED
      BY <2>1, <2>3, <2>4 DEF ZoneInv
  <1> QED
    BY <1>2, <1>3, <1>4, <1>5, <1>6, <1>7, <1>8 DEF ZoneNext

------------------------------------------------------------------------------
(* Conversions.                                                            *)

\* What findLocaltime finds among keys that ascend.
LocalAfter(k) ==
    IF k = 0 THEN data.localtimes[1] ELSE data.localtimes[data.transitions[k].localtimeIdx + 1]

\* The search finds the type after the last transition (TimeZone.cc:215-244).
LEMMA FindLocaltimeIs ==
    ASSUME NEW keys \in Seq(Int), Ascending(keys), NEW key \in Int, NEW k, Current(keys, key, k)
    PROVE  findLocaltime(keys, key) = LocalAfter(k)
  <1> DEFINE n == Len(keys)
             at == lower_bound(keys, key)
             transI == IF at <= n /\ keys[at] = key THEN at ELSE at - 1
  <1>1. n \in Nat /\ \A i \in 1 .. n : keys[i] \in Int
    BY LenProperties, ElementOfSeq
  <1>2. k \in 0 .. n /\ (\A i \in 1 .. k : keys[i] <= key) /\ (\A j \in k + 1 .. n : keys[j] > key)
    BY DEF Current
  <1>3. IsLowerBound(keys, key, at)
    BY LowerBoundIs
  <1>4. at \in 1 .. n + 1 /\ (\A j \in 1 .. at - 1 : keys[j] < key) /\ (at <= n => keys[at] >= key)
    BY <1>3 DEF IsLowerBound
  <1>5. findLocaltime(keys, key) =
            IF n = 0 \/ key < keys[1] THEN data.localtimes[1]
            ELSE data.localtimes[data.transitions[transI].localtimeIdx + 1]
    BY DEF findLocaltime
  <1>6. CASE k = 0
    <2>1. n # 0 => keys[1] > key
      BY <1>1, <1>2, <1>6
    <2>2. n = 0 \/ key < keys[1]
      BY <1>1, <2>1
    <2> HIDE DEF n, transI
    <2> QED
      BY <1>5, <1>6, <2>2 DEF LocalAfter
  <1>7. CASE k # 0
    <2>1. k \in 1 .. n /\ 1 \in 1 .. k /\ keys[1] <= key
      BY <1>1, <1>2, <1>7
    <2>2. ~(n = 0 \/ key < keys[1])
      BY <1>1, <2>1
    <2>3. transI = k
      <3> HIDE DEF at, n
      <3>1. CASE at <= n /\ keys[at] = key
        <4>1. at \in 1 .. n /\ ~(keys[at] > key)
          BY <1>1, <1>4, <3>1
        <4>2. at \notin k + 1 .. n
          BY <1>2, <4>1
        <4>3. at <= k
          BY <1>1, <2>1, <4>1, <4>2
        <4>4. at < k => keys[at] < keys[k]
          BY <2>1, <4>1 DEF Ascending, n
        <4>5. keys[k] <= key /\ keys[k] \in Int
          BY <1>1, <1>2, <2>1
        <4>6. ~(at < k)
          BY <1>1, <3>1, <4>1, <4>4, <4>5
        <4> QED
          BY <1>1, <2>1, <3>1, <4>1, <4>3, <4>6
      <3>2. CASE ~(at <= n /\ keys[at] = key)
        <4>1. k < at
          <5> SUFFICES ASSUME ~(k < at) PROVE FALSE
            OBVIOUS
          <5>1. at \in 1 .. k /\ at <= n
            BY <1>1, <1>4, <2>1
          <5>2. keys[at] <= key /\ keys[at] >= key /\ keys[at] \in Int
            BY <1>1, <1>2, <1>4, <5>1
          <5> QED
            BY <3>2, <5>1, <5>2
        <4>2. ~(k < at - 1)
          <5> SUFFICES ASSUME k < at - 1 PROVE FALSE
            OBVIOUS
          <5>1. k + 1 \in 1 .. at - 1 /\ k + 1 \in k + 1 .. n
            BY <1>1, <1>4, <2>1
          <5>2. keys[k + 1] < key /\ keys[k + 1] > key /\ keys[k + 1] \in Int
            BY <1>1, <1>2, <1>4, <5>1
          <5> QED
            BY <5>2
        <4>3. transI = at - 1
          BY <3>2
        <4> HIDE DEF transI
        <4> QED
          BY <1>1, <1>4, <2>1, <4>1, <4>2, <4>3
      <3> QED
        BY <3>1, <3>2
    <2> HIDE DEF transI, n
    <2> QED
      BY <1>5, <1>7, <2>2, <2>3 DEF LocalAfter
  <1> QED
    BY <1>6, <1>7

\* What was read is what the file holds.
LEMMA WholeFacts ==
    ASSUME NEW f, IsFile(f), Whole(f)
    PROVE  /\ GmtTimes = f.times
           /\ LocalTimes = LocalOf(f)
           /\ \A k \in 0 .. Len(f.times) : LocalAfter(k) = Zone(f, k)
           /\ Len(data.localtimes) = Len(f.types) /\ Len(data.transitions) = Len(f.times)
  <1> DEFINE n == Len(f.times)
             made == [i \in 1 .. n |->
                         [gmttime |-> f.times[i],
                          localtime |-> f.times[i] + f.types[f.index[i] + 1].off,
                          localtimeIdx |-> f.index[i]]]
  <1>1. f.times \in Seq(Int) /\ n \in Nat /\ DOMAIN f.times = 1 .. n
    BY FileFacts
  <1>2. data.transitions = made /\ data.localtimes = f.types
    BY <1>1 DEF Whole
  <1>3. DOMAIN made = 1 .. n /\ \A i \in 1 .. n :
            /\ made[i].gmttime = f.times[i]
            /\ made[i].localtime = f.times[i] + f.types[f.index[i] + 1].off
            /\ made[i].localtimeIdx = f.index[i]
    OBVIOUS
  <1>4. Len(made) = n
    BY <1>1
  <1> HIDE DEF made
  <1>5. GmtTimes = f.times
    <2>1. GmtTimes = [i \in 1 .. n |-> f.times[i]]
      BY <1>2, <1>3 DEF GmtTimes
    <2>2. f.times = [i \in 1 .. n |-> f.times[i]]
      BY <1>1
    <2> QED
      BY <2>1, <2>2
  <1>6. LocalTimes = LocalOf(f)
    <2>1. \A i \in 1 .. n : f.types[f.index[i] + 1] = Zone(f, i)
      BY <1>1 DEF Zone
    <2> QED
      BY <1>2, <1>3, <2>1 DEF LocalTimes, LocalOf
  <1>7. ASSUME NEW k \in 0 .. n PROVE LocalAfter(k) = Zone(f, k)
    BY <1>1, <1>2, <1>3 DEF LocalAfter, Zone
  <1> QED
    BY <1>2, <1>4, <1>5, <1>6, <1>7

\* A conversion to local time uses the type in force.
LEMMA ToLocalTimeIs ==
    ASSUME NEW f, IsFile(f), Whole(f), NEW t \in Int, NEW k, Current(f.times, t, k)
    PROVE  toLocalTime(t) = [seconds |-> t + Zone(f, k).off, isdst |-> Zone(f, k).dst]
  <1>1. f.times \in Seq(Int) /\ Ascending(f.times) /\ k \in 0 .. Len(f.times)
    BY FileFacts DEF IsFile, Current
  <1>2. GmtTimes = f.times /\ LocalAfter(k) = Zone(f, k)
    BY <1>1, WholeFacts
  <1>3. findLocaltime(f.times, t) = LocalAfter(k)
    BY <1>1, FindLocaltimeIs
  <1>4. toLocalTime(t) = [seconds |-> t + findLocaltime(GmtTimes, t).off,
                          isdst |-> findLocaltime(GmtTimes, t).dst]
    BY DEF toLocalTime
  <1> QED
    BY <1>2, <1>3, <1>4

\* What a zone does at its next transition, if clocks are set back.
LEMMA SetBack ==
    ASSUME NEW f, IsFile(f), f.types # <<>>, OnlySummerEnds(f),
           NEW k \in 0 .. Len(f.times), k + 1 <= Len(f.times),
           Zone(f, k + 1).off < Zone(f, k).off
    PROVE  /\ Zone(f, k).off = Zone(f, k + 1).off + Hour
           /\ Zone(f, k).dst /\ ~Zone(f, k + 1).dst
  <1> DEFINE n == Len(f.times)
             j == k + 1
             t == f.times[j] - 1
  <1>1. /\ n \in Nat /\ DOMAIN f.times = 1 .. n /\ j \in 1 .. n /\ k \in Nat
        /\ \A i \in 1 .. n : f.times[i] \in Int
    BY FileFacts
  <1>2. Current(f.times, t, k)
    <2>1. ASSUME NEW i \in 1 .. k PROVE f.times[i] <= t
      <3>1. i \in 1 .. n /\ i < j
        BY <1>1
      <3>2. f.times[i] < f.times[j]
        BY <1>1, <3>1 DEF IsFile, Ascending
      <3> QED
        BY <1>1, <3>1, <3>2
    <2>2. ASSUME NEW i \in k + 1 .. n PROVE f.times[i] > t
      <3>1. i \in 1 .. n /\ (j < i \/ j = i)
        BY <1>1
      <3>2. j < i => f.times[j] < f.times[i]
        BY <1>1, <3>1 DEF IsFile, Ascending
      <3> QED
        BY <1>1, <3>1, <3>2
    <2> QED
      BY <1>1, <2>1, <2>2 DEF Current
  <1>3. t \in Int /\ TypeAt(f, t) = Zone(f, k)
    <2>1. t \in Int
      BY <1>1
    <2> HIDE DEF t
    <2> QED
      BY <1>2, <2>1, TypeAtIs
  <1>4. f.types[f.index[j] + 1] = Zone(f, j)
    BY <1>1 DEF Zone
  <1>5. LET old == TypeAt(f, t)
            new == f.types[f.index[j] + 1]
        IN  new.off < old.off => old.off = new.off + Hour /\ old.dst /\ ~ new.dst
    BY <1>1 DEF OnlySummerEnds
  <1> QED
    BY <1>3, <1>4, <1>5

\* Where clocks are set back only by an hour and not again within it, local
\* transition times ascend too.
LEMMA LocalAscends ==
    ASSUME NEW f, IsFile(f), f.types # <<>>, OnlySummerEnds(f)
    PROVE  /\ LocalOf(f) \in Seq(Int) /\ Len(LocalOf(f)) = Len(f.times)
           /\ \A i \in 1 .. Len(f.times) : LocalOf(f)[i] = f.times[i] + Zone(f, i).off
           /\ Ascending(LocalOf(f))
  <1> DEFINE n == Len(f.times)
             L == LocalOf(f)
  <1>1. /\ n \in Nat /\ DOMAIN f.times = 1 .. n
        /\ \A i \in 1 .. n : f.times[i] \in Int /\ Zone(f, i).off \in Int
    BY FileFacts
  <1>2. L \in [1 .. n -> Int] /\ \A i \in 1 .. n : L[i] = f.times[i] + Zone(f, i).off
    BY <1>1 DEF LocalOf
  <1>3. L \in Seq(Int) /\ Len(L) = n
    BY <1>1, <1>2
  <1> HIDE DEF L
  <1>4. ASSUME NEW i \in 1 .. n, i + 1 <= n
        PROVE  L[i] < L[i + 1]
    <2>1. i \in 0 .. n /\ i + 1 \in 1 .. n /\ i < i + 1
      BY <1>1, <1>4
    <2> DEFINE a == Zone(f, i).off
               b == Zone(f, i + 1).off
    <2>2. b < a => a = b + Hour
      BY <1>4, <2>1, SetBack
    <2>3. f.times[i] + Hour < f.times[i + 1]
      BY <1>1, <2>1 DEF OnlySummerEnds
    <2>4. L[i] = f.times[i] + a /\ L[i + 1] = f.times[i + 1] + b
      BY <1>2, <2>1
    <2>5. a \in Int /\ b \in Int /\ f.times[i] \in Int /\ f.times[i + 1] \in Int /\ Hour \in Nat
      BY <1>1, <2>1, ZoneAssumption
    <2> HIDE DEF a, b
    <2> QED
      BY <2>2, <2>3, <2>4, <2>5
  \* The first that would not be after an earlier one.
  <1> DEFINE T == {j \in 1 .. n : \E i \in 1 .. n : i < j /\ ~(L[i] < L[j])}
  <1>5. T = {}
    <2> SUFFICES ASSUME T # {} PROVE FALSE
      OBVIOUS
    <2>1. PICK j \in T : \A i \in T : j <= i
      <3>1. T \in SUBSET Nat
        BY <1>1
      <3> HIDE DEF T
      <3> QED
        BY <3>1, LeastNatural
    <2>2. PICK i \in 1 .. n : i < j /\ ~(L[i] < L[j])
      OBVIOUS
    <2> DEFINE p == j - 1
    <2>3. j \in 1 .. n /\ p \in 1 .. n /\ p + 1 = j /\ (i = p \/ i < p) /\ ~(j <= p)
      BY <1>1, <2>2
    <2>4. p \notin T
      <3> HIDE DEF T, p
      <3> QED
        BY <2>1, <2>3
    <2>5. i < p => L[i] < L[p]
      BY <2>3, <2>4
    <2> HIDE DEF T, p
    <2>6. L[p] < L[j]
      BY <1>1, <1>4, <2>3
    <2>7. L[i] \in Int /\ L[p] \in Int /\ L[j] \in Int
      BY <1>2, <2>3
    <2> QED
      BY <2>2, <2>3, <2>5, <2>6, <2>7
  <1>6. Ascending(L)
    BY <1>3, <1>5 DEF Ascending
  <1> QED
    BY <1>2, <1>3, <1>6 DEF L

\* The transition that is current by the local time is the one that is current,
\* or the next one, in the last hour before clocks are set back.
LEMMA LocalCurrent ==
    ASSUME NEW f, IsFile(f), f.types # <<>>, OnlySummerEnds(f),
           NEW t \in Int, NEW k, Current(f.times, t, k)
    PROVE  LET s == t + Zone(f, k).off
           IN  \/ Current(LocalOf(f), s, k)
               \/ /\ Current(LocalOf(f), s, k + 1) /\ Current(f.times, t + Hour, k + 1)
                  /\ Zone(f, k).off = Zone(f, k + 1).off + Hour
                  /\ Zone(f, k).dst /\ ~Zone(f, k + 1).dst
  <1> DEFINE n == Len(f.times)
             L == LocalOf(f)
             a == Zone(f, k).off
             s == t + a
  <1>1. /\ n \in Nat /\ DOMAIN f.times = 1 .. n /\ Hour \in Nat
        /\ \A i \in 1 .. n : f.times[i] \in Int
        /\ \A i \in 0 .. n : Zone(f, i).off \in Int
    BY FileFacts, ZoneAssumption
  <1>2. /\ k \in 0 .. n /\ (\A i \in 1 .. k : f.times[i] <= t)
        /\ \A j \in k + 1 .. n : f.times[j] > t
    BY DEF Current
  <1>3. /\ L \in Seq(Int) /\ Len(L) = n
        /\ \A i \in 1 .. n : L[i] = f.times[i] + Zone(f, i).off
        /\ \A i, j \in 1 .. n : i < j => L[i] < L[j]
    BY LocalAscends DEF Ascending
  <1> HIDE DEF L
  <1>4. \A i \in 1 .. n : L[i] \in Int
    BY <1>1, <1>3
  <1>5. a \in Int /\ s \in Int
    BY <1>1, <1>2
  <1>6. ASSUME NEW i \in 1 .. k PROVE L[i] <= s
    <2>1. i \in 1 .. n /\ k \in 1 .. n /\ (i = k \/ i < k)
      BY <1>1, <1>2
    <2>2. L[k] = f.times[k] + a /\ f.times[k] <= t /\ f.times[k] \in Int
      BY <1>1, <1>2, <1>3, <2>1
    <2>3. i < k => L[i] < L[k]
      BY <1>3, <2>1
    <2>4. L[i] \in Int /\ L[k] \in Int
      BY <1>4, <2>1
    <2> HIDE DEF a
    <2> QED
      BY <1>5, <2>1, <2>2, <2>3, <2>4
  <1>7. CASE k = n \/ (k < n /\ s < L[k + 1])
    <2>1. ASSUME NEW j \in k + 1 .. n PROVE L[j] > s
      <3>1. j \in 1 .. n /\ k + 1 \in 1 .. n /\ (j = k + 1 \/ k + 1 < j) /\ s < L[k + 1]
        BY <1>1, <1>2, <1>7
      <3>2. k + 1 < j => L[k + 1] < L[j]
        BY <1>3, <3>1
      <3>3. L[j] \in Int /\ L[k + 1] \in Int
        BY <1>4, <3>1
      <3> HIDE DEF s
      <3> QED
        BY <1>5, <3>1, <3>2, <3>3
    <2> HIDE DEF s
    <2>2. Current(L, s, k)
      BY <1>2, <1>3, <1>6, <2>1 DEF Current
    <2> QED
      BY <2>2 DEF L, s
  <1>8. CASE k < n /\ ~(s < L[k + 1])
    <2> DEFINE m == k + 1
               b == Zone(f, m).off
    <2>1. m \in 1 .. n /\ m \in 0 .. n /\ k \in 0 .. n /\ m <= n /\ m \in k + 1 .. n
      BY <1>1, <1>2, <1>8
    <2>2. b \in Int /\ f.times[m] \in Int /\ f.times[m] > t /\ L[m] = f.times[m] + b /\ ~(s < L[m])
      BY <1>1, <1>2, <1>3, <1>8, <2>1
    <2>3. b < a
      <3> HIDE DEF a, b, m
      <3> QED
        BY <1>5, <2>2
    <2>4. a = b + Hour /\ Zone(f, k).dst /\ ~Zone(f, m).dst
      BY <2>1, <2>3, SetBack
    <2>5. f.times[m] <= t + Hour
      <3> HIDE DEF a, b, m
      <3> QED
        BY <1>1, <1>5, <2>2, <2>4, SMTT(30)
    <2>6. ASSUME NEW j \in m + 1 .. n
          PROVE  L[j] > s /\ f.times[j] > t + Hour
      <3> DEFINE x == m + 1
                 c == Zone(f, x).off
      <3>1. x \in 1 .. n /\ x \in 0 .. n /\ j \in 1 .. n /\ (j = x \/ x < j) /\ m < x /\ m < j
        BY <1>1, <2>1, <2>6
      <3>2. f.times[m] + Hour < f.times[x] /\ f.times[m] + Hour < f.times[j]
        BY <1>1, <2>1, <3>1 DEF OnlySummerEnds
      <3>3. ~(c < b)
        BY <2>1, <2>4, <3>1, SetBack
      <3>4. L[x] = f.times[x] + c /\ (x < j => L[x] < L[j]) /\ L[x] \in Int /\ L[j] \in Int
        BY <1>3, <1>4, <3>1
      <3>5. c \in Int /\ f.times[x] \in Int /\ f.times[j] \in Int
        BY <1>1, <3>1
      <3> HIDE DEF a, b, c, m, x
      <3>6. L[x] > s
        <4>1. Hour \in Int
          BY <1>1
        <4>2. f.times[m] > t /\ f.times[m] \in Int /\ b \in Int
          BY <2>2
        <4>3. c \in Int /\ f.times[x] \in Int /\ L[x] = f.times[x] + c
          BY <3>4, <3>5
        <4>4. f.times[m] + Hour < f.times[x]
          BY <3>2
        <4>5. a = b + Hour /\ s = t + a
          BY <2>4
        <4> DEFINE p == f.times[m]
                   q == f.times[x]
                   r == L[x]
        <4>6. r = q + c /\ p + Hour < q /\ p > t /\ p \in Int /\ q \in Int
          BY <4>2, <4>3, <4>4
        <4>7. b \in Int /\ c \in Int
          BY <4>2, <4>3
        <4> HIDE DEF s, p, q, r
        <4>8. r > s
          BY <3>3, <4>1, <4>5, <4>6, <4>7
        <4> QED
          BY <4>8 DEF r
      <3>7. f.times[j] > t + Hour
        <4> DEFINE p == f.times[m]
                   q == f.times[j]
        <4>1. p + Hour < q /\ p > t /\ p \in Int /\ q \in Int
          BY <2>2, <3>2, <3>5
        <4>2. Hour \in Int
          BY <1>1
        <4> HIDE DEF p, q
        <4>3. q > t + Hour
          BY <4>1, <4>2
        <4> QED
          BY <4>3 DEF q
      <3> HIDE DEF s
      <3>8. L[j] > s
        BY <1>5, <3>1, <3>4, <3>6
      <3> QED
        BY <3>7, <3>8
    <2>7. ASSUME NEW i \in 1 .. m
          PROVE  L[i] <= s /\ f.times[i] <= t + Hour
      <3>1. CASE i = m
        <4> HIDE DEF s, m
        <4> QED
          BY <1>4, <1>5, <2>1, <2>2, <2>5, <3>1
      <3>2. CASE i # m
        <4>1. i \in 1 .. k /\ i \in 1 .. n
          BY <1>1, <1>2, <2>7, <3>2
        <4>2. L[i] <= s /\ f.times[i] <= t /\ f.times[i] \in Int
          BY <1>1, <1>2, <1>6, <4>1
        <4> QED
          BY <1>1, <4>2
      <3> QED
        BY <3>1, <3>2
    <2>8. Current(L, s, m) /\ Current(f.times, t + Hour, m)
      <3> HIDE DEF s, m
      <3> QED
        BY <1>3, <2>1, <2>6, <2>7 DEF Current
    <2> QED
      BY <2>4, <2>8 DEF L, s
  <1>9. k = n \/ k < n
    BY <1>1, <1>2
  <1> QED
    BY <1>7, <1>8, <1>9

\* There, local time comes back (TimeZone.cc:288-308).
LEMMA FromLocalTimeReturns ==
    ASSUME NEW f, IsFile(f), Whole(f), f.types # <<>>, OnlySummerEnds(f),
           NEW t \in Int, NEW k, Current(f.times, t, k)
    PROVE  fromLocalTime(toLocalTime(t)) = t
  <1> DEFINE tm == toLocalTime(t)
             a == Zone(f, k).off
             s == tm.seconds
             local == findLocaltime(LocalTimes, s)
             tryTm == toLocalTime(s - local.off)
             earlier == tm.isdst /\ ~ tryTm.isdst /\ TimeOfDay(tryTm) = TimeOfDay(tm)
  <1>1. tm = [seconds |-> t + a, isdst |-> Zone(f, k).dst]
    BY ToLocalTimeIs
  <1>2. /\ k \in 0 .. Len(f.times) /\ Len(f.times) \in Nat /\ Hour \in Nat
        /\ \A i \in 0 .. Len(f.times) : Zone(f, i).off \in Int /\ Zone(f, i).dst \in BOOLEAN
    BY FileFacts, ZoneAssumption DEF Current
  <1>3. a \in Int /\ s = t + a /\ s \in Int
    BY <1>1, <1>2
  <1>4. fromLocalTime(tm) = (IF earlier THEN s - Hour ELSE s) - local.off
    BY DEF fromLocalTime
  <1>5. LocalTimes = LocalOf(f) /\ \A i \in 0 .. Len(f.times) : LocalAfter(i) = Zone(f, i)
    BY WholeFacts
  <1>6. ASSUME NEW i, Current(LocalOf(f), s, i)
        PROVE  local = LocalAfter(i)
    <2>1. LocalOf(f) \in Seq(Int) /\ Ascending(LocalOf(f))
      BY LocalAscends
    <2> HIDE DEF s
    <2> QED
      BY <1>3, <1>5, <1>6, <2>1, FindLocaltimeIs
  <1>7. CASE Current(LocalOf(f), t + a, k)
    <2>1. local = Zone(f, k)
      BY <1>2, <1>3, <1>5, <1>6, <1>7
    <2>2. s - local.off = t
      BY <1>3, <2>1
    <2>3. tryTm = tm
      BY <2>2
    <2>4. ~earlier
      BY <2>3
    <2> HIDE DEF earlier, s, local, tm
    <2> QED
      BY <1>4, <2>2, <2>4 DEF tm
  <1>8. CASE /\ Current(LocalOf(f), t + a, k + 1) /\ Current(f.times, t + Hour, k + 1)
             /\ a = Zone(f, k + 1).off + Hour
             /\ Zone(f, k).dst /\ ~Zone(f, k + 1).dst
    <2> DEFINE m == k + 1
               b == Zone(f, m).off
    <2>1. m \in 0 .. Len(f.times) /\ b \in Int
      BY <1>2, <1>8 DEF Current
    <2>2. local = Zone(f, m)
      <3> HIDE DEF m
      <3>1. Current(LocalOf(f), s, m)
        BY <1>3, <1>8 DEF m
      <3> QED
        BY <1>5, <1>6, <2>1, <3>1
    <2>3. s - local.off = t + Hour
      <3>1. local.off = b /\ a = b + Hour
        BY <1>8, <2>2
      <3>2. Hour \in Int
        BY <1>2
      <3> HIDE DEF s, local, a, b
      <3> QED
        BY <1>3, <2>1, <3>1, <3>2
    <2>4. toLocalTime(t + Hour) = [seconds |-> t + Hour + b, isdst |-> Zone(f, m).dst]
      <3> DEFINE u == t + Hour
      <3>1. u \in Int
        BY <1>2
      <3>2. Current(f.times, u, m)
        BY <1>8
      <3> HIDE DEF u, m
      <3>3. toLocalTime(u) = [seconds |-> u + Zone(f, m).off, isdst |-> Zone(f, m).dst]
        BY <3>1, <3>2, ToLocalTimeIs
      <3> QED
        BY <3>3 DEF u
    <2>5. tryTm = [seconds |-> t + Hour + b, isdst |-> Zone(f, m).dst]
      BY <2>3, <2>4
    <2>6. tryTm.seconds = s /\ ~tryTm.isdst /\ tm.isdst
      <3>1. t + Hour + b = s
        <4>1. a = b + Hour
          BY <1>8
        <4> HIDE DEF s, a, b
        <4> QED
          BY <1>2, <1>3, <2>1, <4>1
      <3>2. ~Zone(f, m).dst /\ Zone(f, k).dst
        BY <1>8
      <3> HIDE DEF tryTm, s
      <3> QED
        BY <1>1, <2>5, <3>1, <3>2
    <2>7. TimeOfDay(tryTm) = TimeOfDay(tm)
      <3> HIDE DEF tryTm, tm
      <3> QED
        BY <2>6 DEF TimeOfDay
    <2>8. earlier
      BY <2>6, <2>7
    <2> DEFINE o == local.off
    <2>9. o \in Int /\ s - o = t + Hour /\ fromLocalTime(tm) = (s - Hour) - o
      <3>1. o = b
        BY <2>2
      <3> HIDE DEF o, b
      <3>2. o \in Int
        BY <2>1, <3>1
      <3> HIDE DEF earlier, s, local, tm
      <3> QED
        BY <1>4, <2>3, <2>8, <3>2 DEF o
    <2>10. (s - Hour) - o = t
      <3>1. Hour \in Int /\ s \in Int /\ o \in Int /\ s - o = t + Hour
        BY <1>2, <1>3, <2>9
      <3> HIDE DEF s, o
      <3> QED
        BY <3>1
    <2> HIDE DEF s, o, tm
    <2> QED
      BY <2>9, <2>10 DEF tm
  <1>9. \/ Current(LocalOf(f), t + a, k)
        \/ /\ Current(LocalOf(f), t + a, k + 1) /\ Current(f.times, t + Hour, k + 1)
           /\ a = Zone(f, k + 1).off + Hour
           /\ Zone(f, k).dst /\ ~Zone(f, k + 1).dst
    BY LocalCurrent
  <1> QED
    BY <1>7, <1>8, <1>9

\* A zone that was read in part keeps the first type it has.
LEMMA PartReturns ==
    ASSUME InPart, data.localtimes # <<>>, NEW t \in Int
    PROVE  fromLocalTime(toLocalTime(t)) = t
  <1> DEFINE z == data.localtimes[1]
  <1>1. z.off \in Int
    <2>1. data.localtimes \in Seq(ZoneTypes) /\ Len(data.localtimes) \in Nat /\ Len(data.localtimes) # 0
      BY LenProperties, EmptySeq DEF InPart
    <2>2. z \in ZoneTypes
      BY <2>1, ElementOfSeq
    <2> QED
      BY <2>2 DEF ZoneTypes
  <1>2. GmtTimes = <<>> /\ LocalTimes = <<>>
    <2>1. DOMAIN data.transitions = 1 .. 0
      BY DEF InPart
    <2>2. \A g \in [1 .. 0 -> {}] : g \in Seq({}) /\ Len(g) = 0
      OBVIOUS
    <2>3. GmtTimes \in [1 .. 0 -> {}] /\ LocalTimes \in [1 .. 0 -> {}]
      BY <2>1 DEF GmtTimes, LocalTimes
    <2> QED
      BY <2>2, <2>3, EmptySeq
  <1>3. \A key : findLocaltime(<<>>, key) = z
    BY DEF findLocaltime
  <1>4. \A u : toLocalTime(u) = [seconds |-> u + z.off, isdst |-> z.dst]
    BY <1>2, <1>3 DEF toLocalTime
  <1> DEFINE tm == toLocalTime(t)
             s == tm.seconds
             tryTm == toLocalTime(s - z.off)
             earlier == tm.isdst /\ ~ tryTm.isdst /\ TimeOfDay(tryTm) = TimeOfDay(tm)
  <1>5. fromLocalTime(tm) = (IF earlier THEN s - Hour ELSE s) - z.off
    BY <1>2, <1>3 DEF fromLocalTime
  <1>6. tm.isdst = z.dst /\ tryTm.isdst = z.dst /\ s = t + z.off
    BY <1>4
  <1>7. ~earlier
    BY <1>6
  <1> HIDE DEF earlier, s, z, tm
  <1> QED
    BY <1>1, <1>5, <1>6, <1>7 DEF tm

(* For any zone files whose times ascend, read to the end, in part or not  *)
(* at all, and any offsets: a zone that was read has at every time the     *)
(* offset the file gives it, and local time comes back where clocks are    *)
(* only set back by an hour from summer time.                              *)
THEOREM LocalTimeReturnsHolds == ZoneSpec => []LocalTimeReturns
  <1>1. ZoneInv => LocalTimeReturns
    <2> SUFFICES ASSUME ZoneInv, stage = "done", data.localtimes # <<>>
                 PROVE  \/ /\ Read
                           /\ \A t \in Times :
                                LET tm == toLocalTime(t) IN
                                /\ tm.seconds = t + TypeAt(zonefile, t).off
                                /\ tm.isdst = TypeAt(zonefile, t).dst
                                /\ OnlySummerEnds(zonefile) => fromLocalTime(tm) = t
                        \/ /\ data.transitions = <<>> /\ ~ data.named
                           /\ \A t \in Times : fromLocalTime(toLocalTime(t)) = t
      BY DEF LocalTimeReturns
    <2>1. CASE Whole(zonefile)
      <3> DEFINE f == zonefile
      <3>1. IsFile(f) /\ Whole(f) /\ f.types # <<>>
        BY <2>1 DEF ZoneInv, Whole
      <3>2. Read
        BY <3>1, WholeFacts DEF Read
      <3>3. ASSUME NEW t \in Times
            PROVE  /\ toLocalTime(t).seconds = t + TypeAt(f, t).off
                   /\ toLocalTime(t).isdst = TypeAt(f, t).dst
                   /\ OnlySummerEnds(f) => fromLocalTime(toLocalTime(t)) = t
        <4> HIDE DEF f
        <4>1. t \in Int /\ f.times \in Seq(Int) /\ Ascending(f.times)
          BY <3>1, FileFacts, ZoneAssumption DEF IsFile
        <4>2. PICK k \in Nat : Current(f.times, t, k)
          BY <4>1, CurrentExists
        <4>3. TypeAt(f, t) = Zone(f, k)
          BY <3>1, <4>1, <4>2, TypeAtIs
        <4>4. toLocalTime(t) = [seconds |-> t + Zone(f, k).off, isdst |-> Zone(f, k).dst]
          BY <3>1, <4>1, <4>2, ToLocalTimeIs
        <4>5. OnlySummerEnds(f) => fromLocalTime(toLocalTime(t)) = t
          BY <3>1, <4>1, <4>2, FromLocalTimeReturns
        <4> QED
          BY <4>3, <4>4, <4>5
      <3> QED
        BY <3>2, <3>3
    <2>2. CASE InPart
      <3>1. \A t \in Times : fromLocalTime(toLocalTime(t)) = t
        BY <2>2, PartReturns, ZoneAssumption
      <3> QED
        BY <2>2, <3>1 DEF InPart
    <2> QED
      BY <2>1, <2>2 DEF ZoneInv
  <1> QED
    BY <1>1, InitZoneInv, NextZoneInv, PTL DEF ZoneSpec

------------------------------------------------------------------------------
(* The timers.                                                             *)

USE SecondAssumption, DelaysAssumption, WhensAssumption, IntRangeAssumption, BoundsAssumption

------------------------------------------------------------------------------
(* The event loop below the timers.                                        *)

WakeupRegistration == [fd |-> EventFd, ch |-> WakeupChannel, ev |-> {"in"}]
TimerRegistration  == [fd |-> TimerFd, ch |-> TimerChannel, ev |-> {"in"}]

\* Both descriptors are watched for reading only.  A batch has each channel once,
\* and only the handler of the timerfd is ever interrupted.
LoopInv ==
    /\ registered \subseteq {WakeupRegistration, TimerRegistration}
    /\ active \subseteq [ch : Channels, ev : {{"in"}}, started : BOOLEAN]
    /\ \A a, b \in active : a.ch = b.ch => a = b
    /\ \A a \in active : a.started => a.ch = TimerChannel
    /\ phase # "events" => active = {}
    /\ phase # "functors" => functors = <<>>
    /\ phase \in {"start", "poll", "events", "functors"}

LEMMA InitLoopInv == Init => LoopInv
  BY DEF Init, Loop!Init, LoopInv, WakeupRegistration

\* handleRead() begins: its channel is no longer waiting for it.
LEMMA BeginEffect ==
    ASSUME LoopInv, BeginHandleRead
    PROVE  /\ ~InHandleRead /\ InHandleRead'
           /\ phase = "events"
           /\ active' \subseteq [ch : Channels, ev : {{"in"}}, started : BOOLEAN]
           /\ \A a, b \in active' : a.ch = b.ch => a = b
           /\ \A a \in active' : a.started => a.ch = TimerChannel
  <1>1. PICK a \in active : /\ a.ch = TimerChannel /\ ~a.started
                            /\ Loop!MayHandle(a, "in")
                            /\ Loop!Running(a)
    BY Zenon DEF BeginHandleRead
  <1> DEFINE b == [a EXCEPT !.started = TRUE]
  <1>2. /\ b \in [ch : Channels, ev : {{"in"}}, started : BOOLEAN]
        /\ b.ch = TimerChannel /\ b.started
    BY <1>1 DEF LoopInv
  <1>3. active' = (active \ {a}) \cup {b}
    BY <1>1 DEF Loop!Running
  <1> HIDE DEF b
  <1>4. ~InHandleRead /\ phase = "events"
    BY <1>1 DEF Loop!MayHandle, InHandleRead
  <1>5. InHandleRead'
    BY <1>2, <1>3 DEF InHandleRead
  <1>6. \A c \in active \ {a} : c.ch # TimerChannel
    BY <1>1 DEF LoopInv
  <1>7. /\ active' \subseteq [ch : Channels, ev : {{"in"}}, started : BOOLEAN]
        /\ \A c \in active' : c.started => c.ch = TimerChannel
    BY <1>2, <1>3 DEF LoopInv
  <1>8. \A c, d \in active' : c.ch = d.ch => c = d
    BY <1>2, <1>3, <1>6 DEF LoopInv
  <1> QED
    BY <1>4, <1>5, <1>7, <1>8

\* handleRead() returns: no handler is on the stack any more.
LEMMA ResetEffect ==
    ASSUME LoopInv, Reset
    PROVE  InHandleRead /\ ~InHandleRead' /\ active' \subseteq active /\ phase = "events"
  <1>1. PICK a \in active : /\ a.ch = TimerChannel /\ a.started
                            /\ Loop!MayHandle(a, "in")
                            /\ Loop!Handled(a, "in")
    BY Zenon DEF Reset
  <1>2. a.ev = {"in"}
    BY DEF LoopInv
  <1>3. active' = active \ {a}
    BY <1>1, <1>2 DEF Loop!Handled
  <1>4. InHandleRead /\ phase = "events"
    BY <1>1 DEF InHandleRead, Loop!MayHandle
  <1>5. ~InHandleRead'
    BY <1>1, <1>3 DEF InHandleRead, LoopInv
  <1> QED
    BY <1>3, <1>4, <1>5

\* EventLoop::handleRead() leaves the handler of the timerfd where it is.
LEMMA WakeupEffect ==
    ASSUME LoopInv, HandleWakeup
    PROVE  active' \subseteq active /\ InHandleRead' = InHandleRead /\ phase = "events"
  <1>1. PICK a \in active : /\ a.ch = WakeupChannel
                            /\ Loop!MayHandle(a, "in")
                            /\ Loop!Handled(a, "in")
    BY Zenon DEF HandleWakeup, Loop!HandleWakeup
  <1>2. a.ev = {"in"}
    BY DEF LoopInv
  <1>3. active' = active \ {a}
    BY <1>1, <1>2 DEF Loop!Handled
  <1>4. a.ch # TimerChannel /\ phase = "events"
    BY <1>1 DEF WakeupChannel, TimerChannel, Loop!MayHandle
  <1>5. InHandleRead' = InHandleRead
    BY <1>3, <1>4 DEF InHandleRead
  <1> QED
    BY <1>3, <1>4, <1>5

\* poll() returns a batch in which no handler has begun.
LEMMA PollEffect ==
    ASSUME LoopInv, Poll
    PROVE  /\ phase = "poll" /\ phase' = "events"
           /\ active' \subseteq [ch : Channels, ev : {{"in"}}, started : {FALSE}]
           /\ \A a, b \in active' : a.ch = b.ch => a = b
  <1>1. PICK hits \in SUBSET Loop!Ready(Readiness) :
           active' = {[ch |-> r.ch, ev |-> r.ev \cap Readiness[r.fd], started |-> FALSE] : r \in hits}
    BY Zenon DEF Poll, Loop!Poll
  <1>2. /\ hits \subseteq {WakeupRegistration, TimerRegistration}
        /\ \A r \in hits : r.ev \cap Readiness[r.fd] # {}
    BY DEF Loop!Ready, LoopInv
  <1>3. \A r \in hits : r.ev = {"in"} /\ r.ch \in Channels
    BY <1>2 DEF WakeupRegistration, TimerRegistration, Channels
  <1>4. \A r \in hits : r.ev \cap Readiness[r.fd] = {"in"}
    <2> SUFFICES ASSUME NEW r \in hits PROVE r.ev \cap Readiness[r.fd] = {"in"}
      OBVIOUS
    <2>1. r.ev = {"in"} /\ r.ev \cap Readiness[r.fd] # {}
      BY <1>2, <1>3
    <2> QED
      BY <2>1
  <1>5. \A r, s \in hits : r.ch = s.ch => r = s
    <2>1. WakeupRegistration.ch # TimerRegistration.ch
      BY DEF WakeupRegistration, TimerRegistration, WakeupChannel, TimerChannel
    <2> QED
      BY <1>2, <2>1
  <1> DEFINE Hit(r) == [ch |-> r.ch, ev |-> {"in"}, started |-> FALSE]
  <1>6. active' = {Hit(r) : r \in hits}
    BY <1>1, <1>4
  <1>7. \A r \in hits : /\ Hit(r) \in [ch : Channels, ev : {{"in"}}, started : {FALSE}]
                        /\ Hit(r).ch = r.ch
    BY <1>3
  <1> HIDE DEF Hit
  <1>8. active' \subseteq [ch : Channels, ev : {{"in"}}, started : {FALSE}]
    BY <1>6, <1>7
  <1>9. ASSUME NEW a \in active', NEW b \in active', a.ch = b.ch
        PROVE  a = b
    <2>1. PICK r \in hits, s \in hits : a = Hit(r) /\ b = Hit(s)
      BY <1>6
    <2>2. r.ch = s.ch
      BY <1>7, <1>9, <2>1
    <2> QED
      BY <1>5, <2>1, <2>2
  <1> QED
    BY <1>8, <1>9 DEF Poll, Loop!Poll

\* The steps that neither poll nor handle an event.
LEMMA OtherEffect ==
    ASSUME LoopInv,
           \/ Construct \/ AddBeforeLoop \/ EnterLoop \/ Tick \/ Jump
           \/ DoPendingFunctors \/ EndFunctors
           \/ (\E t \in Timers : RunTimer(t)) \/ (\E t \in Timers : AddTimerInLoop(t))
    PROVE  active' = active /\ InHandleRead' = InHandleRead
  <1>1. active' = active
    BY DEF Construct, AddBeforeLoop, EnterLoop, Tick, Jump, DoPendingFunctors, EndFunctors,
           RunTimer, AddTimerInLoop, loopVars,
           Loop!EnterLoop, Loop!DoPendingFunctors, Loop!EndFunctors
  <1> QED
    BY <1>1 DEF InHandleRead

LEMMA NextLoopInv == LoopInv /\ [Next]_vars => LoopInv'
  <1> SUFFICES ASSUME LoopInv, [Next]_vars PROVE LoopInv'
    OBVIOUS
  <1>1. CASE Construct
    BY <1>1 DEF Construct, Loop!EpollUpdate, LoopInv, TimerRegistration
  <1>2. CASE AddBeforeLoop
    BY <1>2 DEF AddBeforeLoop, LoopInv
  <1>3. CASE EnterLoop
    BY <1>3 DEF EnterLoop, Loop!EnterLoop, LoopInv
  <1>4. CASE Poll
    <2>1. /\ active' \subseteq [ch : Channels, ev : {{"in"}}, started : BOOLEAN]
          /\ \A a \in active' : a.started => a.ch = TimerChannel
      BY <1>4, PollEffect
    <2> QED
      BY <1>4, <2>1, PollEffect DEF Poll, Loop!Poll, LoopInv
  <1>5. CASE HandleWakeup
    BY <1>5, WakeupEffect DEF HandleWakeup, Loop!HandleWakeup, LoopInv
  <1>6. CASE BeginHandleRead
    BY <1>6, BeginEffect DEF BeginHandleRead, LoopInv
  <1>7. ASSUME NEW t \in Timers, RunTimer(t) PROVE LoopInv'
    BY <1>7 DEF RunTimer, LoopInv
  <1>8. CASE Reset
    BY <1>8, ResetEffect DEF Reset, LoopInv
  <1>9. CASE DoPendingFunctors
    BY <1>9 DEF DoPendingFunctors, Loop!DoPendingFunctors, LoopInv
  <1>10. ASSUME NEW t \in Timers, AddTimerInLoop(t) PROVE LoopInv'
    BY <1>10 DEF AddTimerInLoop, Loop!RunFunctor, LoopInv
  <1>11. CASE EndFunctors
    BY <1>11 DEF EndFunctors, Loop!EndFunctors, LoopInv
  <1>12. CASE UNCHANGED loopVars
    BY <1>12 DEF loopVars, LoopInv
  <1> QED
    BY <1>1, <1>2, <1>3, <1>4, <1>5, <1>6, <1>7, <1>8, <1>9, <1>10, <1>11, <1>12
    DEF Next, LoopNext, Tick, Jump, vars

LEMMA LoopInvariance == Spec => []LoopInv
  BY InitLoopInv, NextLoopInv, PTL DEF Spec

------------------------------------------------------------------------------
(* The thread is an event loop.                                            *)

\* A call of runAt, runAfter or runEvery hands one functor to the loop.
LEMMA NewTimerQueues ==
    ASSUME NEW t \in Timers, NEW w, NewTimer(t, w)
    PROVE  Loop!QueueInLoop(t)
  BY DEF NewTimer, AddTimer

\* The user code of a step of the timer queue.
LEMMA IsUserCode ==
    ASSUME UNCHANGED registered,
           Loop!QueueNothing \/ \E t \in Timers : Loop!QueueInLoop(t)
    PROVE  Loop!UserCode
  BY DEF Loop!UserCode, Functors

LEMMA NextIsLoop == LoopInv /\ [Next]_vars => [Loop!Next]_(Loop!vars)
  <1> SUFFICES ASSUME LoopInv, [Next]_vars PROVE Loop!Next \/ UNCHANGED loopVars
    BY DEF Loop!vars, loopVars
  <1>1. CASE Construct
    <2>1. TimerFd \in Fds \ {EventFd} /\ TimerChannel \in Channels \ {WakeupChannel}
          /\ {"in"} \in SUBSET Loop!Events
      BY DEF TimerFd, EventFd, Fds, TimerChannel, WakeupChannel, Channels, Loop!Events
    <2>2. Loop!UserCode
      BY <1>1, <2>1 DEF Construct, Loop!UserCode, Loop!QueueNothing
    <2> QED
      BY <1>1, <2>2 DEF Construct, Loop!Next, Loop!BeforeLoop
  <1>2. CASE AddBeforeLoop
    <2>1. Loop!UserCode
      BY <1>2, NewTimerQueues, IsUserCode DEF AddBeforeLoop
    <2> QED
      BY <1>2, <2>1 DEF AddBeforeLoop, Loop!Next, Loop!BeforeLoop
  <1>3. CASE EnterLoop
    BY <1>3 DEF EnterLoop, Loop!Next
  <1>4. CASE Poll
    <2>1. Readiness \in Loop!Readiness
      BY DEF Readiness, Loop!Readiness, Fds, EventFd, TimerFd, Loop!Events
    <2> QED
      BY <1>4, <2>1 DEF Poll, Loop!Next
  <1>5. CASE HandleWakeup
    BY <1>5 DEF HandleWakeup, Loop!Next
  <1>6. CASE BeginHandleRead
    <2>1. PICK a \in active : a.ch = TimerChannel /\ Loop!MayHandle(a, "in") /\ Loop!Running(a)
      BY <1>6, Zenon DEF BeginHandleRead
    <2>2. Loop!UserCode
      BY <1>6, IsUserCode DEF BeginHandleRead, Loop!QueueNothing
    <2>3. Loop!HandleEvent
      BY <1>6, <2>1, <2>2
      DEF BeginHandleRead, Loop!HandleEvent, Loop!Events, TimerChannel, WakeupChannel
    <2> QED
      BY <2>3 DEF Loop!Next
  <1>7. ASSUME NEW t \in Timers, RunTimer(t) PROVE Loop!Next
    <2>1. PICK a \in active : a.ch = TimerChannel /\ a.started
      BY <1>7 DEF RunTimer, InHandleRead
    <2>2. a.ev = {"in"} /\ [a EXCEPT !.started = TRUE] = a /\ phase = "events"
      BY <2>1 DEF LoopInv
    <2>3. Loop!MayHandle(a, "in") /\ Loop!Running(a)
      BY <1>7, <2>1, <2>2 DEF RunTimer, Loop!MayHandle, Loop!Running
    <2>4. Loop!UserCode
      BY <1>7, NewTimerQueues, IsUserCode DEF RunTimer
    <2>5. Loop!HandleEvent
      BY <1>7, <2>1, <2>3, <2>4
      DEF RunTimer, Loop!HandleEvent, Loop!Events, TimerChannel, WakeupChannel
    <2> QED
      BY <2>5 DEF Loop!Next
  <1>8. CASE Reset
    <2>1. PICK a \in active : a.ch = TimerChannel /\ Loop!MayHandle(a, "in") /\ Loop!Handled(a, "in")
      BY <1>8, Zenon DEF Reset
    <2>2. Loop!UserCode
      BY <1>8, IsUserCode DEF Reset, Loop!QueueNothing
    <2>3. Loop!HandleEvent
      BY <1>8, <2>1, <2>2
      DEF Reset, Loop!HandleEvent, Loop!Events, TimerChannel, WakeupChannel
    <2> QED
      BY <2>3 DEF Loop!Next
  <1>9. CASE DoPendingFunctors
    BY <1>9 DEF DoPendingFunctors, Loop!Next
  <1>10. ASSUME NEW t \in Timers, AddTimerInLoop(t) PROVE Loop!Next
    <2>1. Loop!UserCode
      BY <1>10, IsUserCode DEF AddTimerInLoop, Loop!QueueNothing
    <2> QED
      BY <1>10, <2>1 DEF AddTimerInLoop, Loop!Next, Loop!CallFunctor, Functors
  <1>11. CASE EndFunctors
    BY <1>11 DEF EndFunctors, Loop!Next
  <1>12. CASE UNCHANGED loopVars
    BY <1>12
  <1> QED
    BY <1>1, <1>2, <1>3, <1>4, <1>5, <1>6, <1>7, <1>8, <1>9, <1>10, <1>11, <1>12
    DEF Next, LoopNext, Tick, Jump, vars

\* The thread of a timer queue is the event loop of EventLoop.tla: it adds
\* nothing to the loop but handlers and functors (EventLoop.cc:54-113).
THEOREM ImplementsLoopHolds == Spec => ImplementsLoop
  <1>1. Init => Loop!Init
    BY DEF Init
  <1> QED
    BY <1>1, NextIsLoop, LoopInvariance, PTL DEF Spec, Loop!Spec, ImplementsLoop

------------------------------------------------------------------------------
(* The functors and the timers they will insert.                           *)

Waiting == functors \o pendingFunctors

QueueTypes ==
    /\ functors \in Seq(Timers)
    /\ pendingFunctors \in Seq(Timers)
    /\ eventfd \in Nat

LEMMA TimersIn ==
    ASSUME NEW s \in Seq(Timers)
    PROVE  {t \in Timers : \E i \in 1 .. Len(s) : s[i] = t} = Elements(s)
  <1>1. {t \in Timers : \E i \in 1 .. Len(s) : s[i] = t} = {t \in Timers : t \in Elements(s)}
    BY DEF Elements
  <1> QED
    BY <1>1, ElementsType

LEMMA QueuedIsElements ==
    /\ QueueTypes => Waiting \in Seq(Timers) /\ Queued = Elements(Waiting)
    /\ QueueTypes' => Waiting' \in Seq(Timers) /\ Queued' = Elements(Waiting')
  <1>1. \A f, p \in Seq(Timers) : f \o p \in Seq(Timers)
    BY ConcatProperties
  <1>2. QueueTypes => Waiting \in Seq(Timers) /\ Queued = Elements(Waiting)
    BY <1>1, TimersIn DEF QueueTypes, Waiting, Queued
  <1>3. QueueTypes' => Waiting' \in Seq(Timers) /\ Queued' = Elements(Waiting')
    BY <1>1, TimersIn DEF QueueTypes, Waiting, Queued
  <1> QED
    BY <1>2, <1>3

\* What addTimer() queues comes last.
LEMMA QueueGrows ==
    ASSUME QueueTypes, NEW t \in Timers, Loop!QueueInLoop(t), UNCHANGED functors
    PROVE  /\ QueueTypes'
           /\ Queued' = Queued \cup {t}
           /\ Distinct(Waiting) /\ t \notin Queued => Distinct(Waiting')
  <1>1. QueueTypes'
    BY AppendProperties DEF QueueTypes, Loop!QueueInLoop
  <1>2. Waiting' = Append(Waiting, t)
    BY AppendConcat DEF QueueTypes, Waiting, Loop!QueueInLoop
  <1>3. Queued' = Elements(Waiting')
    BY <1>1, QueuedIsElements
  <1> QED
    BY <1>1, <1>2, <1>3, QueuedIsElements, AppendElements

\* addTimerInLoop() takes the first functor.
LEMMA QueueShrinks ==
    ASSUME QueueTypes, NEW t \in Timers, Loop!RunFunctor(t), UNCHANGED <<pendingFunctors, eventfd>>
    PROVE  /\ QueueTypes'
           /\ t \in Queued
           /\ Distinct(Waiting) => Queued' = Queued \ {t} /\ Distinct(Waiting')
  <1>1. QueueTypes' /\ functors # <<>>
    BY HeadTailProperties DEF QueueTypes, Loop!RunFunctor
  <1>2. Waiting # <<>> /\ Waiting' = Tail(Waiting)
    BY <1>1, TailConcat DEF QueueTypes, Waiting, Loop!RunFunctor
  <1>3. t = Head(Waiting)
    <2>1. Len(functors) \in Nat \ {0} /\ Len(pendingFunctors) \in Nat
      BY <1>1, EmptySeq, LenProperties DEF QueueTypes
    <2>2. Waiting[1] = functors[1]
      BY <2>1, ConcatProperties DEF QueueTypes, Waiting
    <2> QED
      BY <1>1, <1>2, <2>2, HeadTailProperties, QueuedIsElements DEF QueueTypes, Loop!RunFunctor
  <1>4. Queued' = Elements(Waiting')
    BY <1>1, QueuedIsElements
  <1> QED
    BY <1>1, <1>2, <1>3, <1>4, QueuedIsElements, TailElements

\* The steps that neither queue nor run a functor.
LEMMA QueueStays ==
    ASSUME QueueTypes,
           \/ UNCHANGED <<functors, pendingFunctors>>
           \/ functors = <<>> /\ functors' = pendingFunctors /\ pendingFunctors' = <<>>,
           eventfd' \in Nat
    PROVE  QueueTypes' /\ Queued' = Queued /\ Waiting' = Waiting
  <1>1. QueueTypes'
    BY EmptySeq DEF QueueTypes
  <1>2. Waiting' = Waiting
    BY ConcatEmptySeq DEF QueueTypes, Waiting
  <1>3. Queued' = Elements(Waiting')
    BY <1>1, QueuedIsElements
  <1> QED
    BY <1>1, <1>2, <1>3, QueuedIsElements

------------------------------------------------------------------------------
(* Arithmetic on time.                                                     *)

LEMMA WholeSecondsType ==
    ASSUME NEW d \in Nat
    PROVE  WholeSeconds(d) \in Nat
  <1>1. d \div Second \in Nat
    OBVIOUS
  <1>2. \A q, n \in Nat : q * n \in Nat
    OBVIOUS
  <1> QED
    BY <1>1, <1>2 DEF WholeSeconds

\* addTime() yields a whole number, and the right one if the product fits.
LEMMA AddTimeIs ==
    ASSUME NEW d \in Nat
    PROVE  AddTime(d) \in Int /\ (d < IntRange => AddTime(d) = d)
  <1>1. \A a \in Nat, n \in Nat \ {0} : a % n \in Int /\ (a < n => a % n = a)
    OBVIOUS
  <1>2. d + IntRange \in Nat /\ 2 * IntRange \in Nat \ {0}
    OBVIOUS
  <1>3. (d + IntRange) % (2 * IntRange) \in Int
    BY <1>1, <1>2
  <1>4. d < IntRange => (d + IntRange) % (2 * IntRange) = d + IntRange
    BY <1>1, <1>2
  <1> QED
    BY <1>3, <1>4 DEF AddTime

\* What the caller asked for is what addTime() adds and what the conversion loses.
LEMMA LostIs ==
    ASSUME NEW d \in Nat
    PROVE  Lost(d) \in Nat /\ d <= Larger(AddTime(WholeSeconds(d)), 0) + Lost(d)
  <1> DEFINE n == WholeSeconds(d)
  <1>1. n \in Nat /\ d % Second \in Nat /\ d = n + (d % Second)
    <2>1. d = Second * (d \div Second) + (d % Second) /\ d % Second \in Nat
      OBVIOUS
    <2>2. d \div Second \in Nat
      OBVIOUS
    <2>3. Second * (d \div Second) = (d \div Second) * Second
      BY <2>2
    <2> QED
      BY <2>1, <2>3, WholeSecondsType DEF WholeSeconds
  <1>2. AddTime(n) \in Int /\ (n < IntRange => AddTime(n) = n)
    BY <1>1, AddTimeIs
  <1> HIDE DEF n
  <1>3. CASE n < IntRange
    <2>1. Lost(d) = d % Second
      BY <1>3 DEF Lost, n
    <2>2. Larger(AddTime(n), 0) = n
      BY <1>1, <1>2, <1>3 DEF Larger
    <2> QED
      BY <1>1, <2>1, <2>2 DEF n
  <1>4. CASE ~(n < IntRange)
    <2>1. Lost(d) = d
      BY <1>4 DEF Lost, n
    <2>2. Larger(AddTime(n), 0) \in Nat
      BY <1>2 DEF Larger
    <2> QED
      BY <2>1, <2>2 DEF n
  <1> QED
    BY <1>3, <1>4

TimerTypes ==
    /\ added \subseteq Timers
    /\ timers \subseteq added
    /\ expiration \in [Timers -> Int]
    /\ \A t \in Timers : expiration[t] >= -MaxLag
    /\ interval \in [Timers -> Nat]
    /\ expired \subseteq added
    /\ toRun \subseteq expired
    /\ left \in Nat
    /\ readable \in BOOLEAN
    /\ jumps \in 0 .. MaxJumps
    /\ runs \in [Timers -> 0 .. 2]
    /\ delay \in [Timers -> Nat]
    /\ \A t \in Timers : Repeats(t) => interval[t] = WholeSeconds(delay[t])
    /\ wait \in [Timers -> Nat]

\* A call of runAt, runAfter or runEvery.
Adds(t, w, e, period, d, asked) ==
    /\ t \notin added
    /\ added' = added \cup {t}
    /\ expiration' = [expiration EXCEPT ![t] = e]
    /\ interval' = [interval EXCEPT ![t] = period]
    /\ delay' = [delay EXCEPT ![t] = d]
    /\ wait' = [w EXCEPT ![t] = asked]
    /\ Loop!QueueInLoop(t)

\* What holds of the new timer: only the conversion comes between the time that
\* is asked for and the expiration.
Kept(e, period, d, asked) ==
    /\ e >= -MaxLag
    /\ period > 0 => period = WholeSeconds(d)
    /\ asked <= Larger(e, 0) + Lost(d)

LEMMA NewTimerEffect ==
    ASSUME NEW t \in Timers, NEW w, NewTimer(t, w)
    PROVE  \E e \in Int, period, d, asked \in Nat :
              Adds(t, w, e, period, d, asked) /\ Kept(e, period, d, asked)
  <1> DEFINE Goal(e, period, d, asked) ==
        Adds(t, w, e, period, d, asked) /\ Kept(e, period, d, asked)
  <1>1. ASSUME NEW when \in Whens, AddTimer(t, when, 0),
               delay' = [delay EXCEPT ![t] = 0], wait' = [w EXCEPT ![t] = Larger(when, 0)]
        PROVE  \E e \in Int, period, d, asked \in Nat : Goal(e, period, d, asked)
    <2>1. /\ Larger(when, -MaxLag) \in Int /\ Larger(when, -MaxLag) >= -MaxLag
          /\ Larger(when, 0) \in Nat /\ Larger(when, 0) <= Larger(Larger(when, -MaxLag), 0)
          /\ Larger(Larger(when, -MaxLag), 0) \in Nat
      BY DEF Larger
    <2>2. Adds(t, w, Larger(when, -MaxLag), 0, 0, Larger(when, 0))
      BY <1>1, Zenon DEF AddTimer, Adds
    <2>3. Lost(0) \in Nat
      BY LostIs
    <2>4. Kept(Larger(when, -MaxLag), 0, 0, Larger(when, 0))
      BY <2>1, <2>3 DEF Kept
    <2> QED
      BY <2>1, <2>2, <2>4, 0 \in Nat, Zenon
  <1>2. ASSUME NEW d \in Delays, NEW period \in {0, WholeSeconds(d)},
               AddTimer(t, AddTime(WholeSeconds(d)), period),
               delay' = [delay EXCEPT ![t] = d], wait' = [w EXCEPT ![t] = d]
        PROVE  \E e \in Int, r, f, asked \in Nat : Goal(e, r, f, asked)
    <2> DEFINE n == WholeSeconds(d)
               e == Larger(AddTime(n), -MaxLag)
    <2>1. n \in Nat /\ period \in Nat /\ d \in Nat
      BY WholeSecondsType
    <2>2. AddTime(n) \in Int /\ Lost(d) \in Nat /\ d <= Larger(AddTime(n), 0) + Lost(d)
      BY <2>1, AddTimeIs, LostIs
    <2>3. e \in Int /\ e >= -MaxLag /\ d <= Larger(e, 0) + Lost(d)
      BY <2>1, <2>2 DEF Larger
    <2>4. Adds(t, w, e, period, d, d)
      BY <1>2, Zenon DEF AddTimer, Adds
    <2>5. Kept(e, period, d, d)
      BY <2>1, <2>3 DEF Kept
    <2> QED
      BY <2>1, <2>3, <2>4, <2>5, Zenon
  <1>3. \E e \in Int, period, d, asked \in Nat : Goal(e, period, d, asked)
    BY <1>1, <1>2, Zenon DEF NewTimer
  <1> QED
    BY <1>3

\* A callback, or main(), adds at most one timer: S holds it.
AddsAll(S, w) ==
    /\ S \subseteq Timers \ added
    /\ QueueTypes'
    /\ Queued' = Queued \cup S
    /\ Distinct(Waiting')
    /\ added' = added \cup S
    /\ expiration' \in [Timers -> Int]
    /\ \A t \in Timers : expiration'[t] >= -MaxLag
    /\ interval' \in [Timers -> Nat]
    /\ delay' \in [Timers -> Nat]
    /\ wait' \in [Timers -> Nat]
    /\ \A t \in Timers \ S : /\ expiration'[t] = expiration[t]
                             /\ interval'[t] = interval[t]
                             /\ delay'[t] = delay[t]
                             /\ wait'[t] = w[t]
    /\ \A t \in S : Kept(expiration'[t], interval'[t], delay'[t], wait'[t])

LEMMA AddsEffect ==
    ASSUME QueueTypes, TimerTypes, Queued \subseteq added, Distinct(Waiting), UNCHANGED functors,
           NEW w \in [Timers -> Nat],
           \/ Loop!QueueNothing /\ wait' = w /\ UNCHANGED <<added, expiration, interval, delay>>
           \/ \E s \in Timers : NewTimer(s, w)
    PROVE  \E S \in SUBSET (Timers \ added) : AddsAll(S, w)
  <1>1. ASSUME Loop!QueueNothing, wait' = w, UNCHANGED <<added, expiration, interval, delay>>
        PROVE  AddsAll({}, w)
    <2>1. QueueTypes' /\ Queued' = Queued /\ Waiting' = Waiting
      BY <1>1, QueueStays DEF QueueTypes, Loop!QueueNothing
    <2> QED
      BY <1>1, <2>1 DEF AddsAll, TimerTypes
  <1>2. ASSUME NEW s \in Timers, NewTimer(s, w)
        PROVE  AddsAll({s}, w) /\ s \notin added
    <2>1. PICK e \in Int, period \in Nat, d \in Nat, asked \in Nat :
             Adds(s, w, e, period, d, asked) /\ Kept(e, period, d, asked)
      BY <1>2, NewTimerEffect
    <2>2. QueueTypes' /\ Queued' = Queued \cup {s} /\ Distinct(Waiting')
      BY <2>1, QueueGrows DEF Adds
    <2>3. /\ expiration' \in [Timers -> Int] /\ interval' \in [Timers -> Nat]
          /\ delay' \in [Timers -> Nat] /\ wait' \in [Timers -> Nat]
          /\ expiration'[s] = e /\ interval'[s] = period /\ delay'[s] = d /\ wait'[s] = asked
          /\ \A t \in Timers \ {s} : /\ expiration'[t] = expiration[t]
                                     /\ interval'[t] = interval[t]
                                     /\ delay'[t] = delay[t]
                                     /\ wait'[t] = w[t]
      BY <2>1 DEF Adds, TimerTypes
    <2>4. \A t \in Timers : expiration'[t] >= -MaxLag
      BY <2>1, <2>3 DEF TimerTypes, Kept
    <2>5. Kept(expiration'[s], interval'[s], delay'[s], wait'[s])
      BY <2>1, <2>3
    <2> QED
      BY <2>1, <2>2, <2>3, <2>4, <2>5 DEF AddsAll, Adds
  <1> QED
    BY <1>1, <1>2, Zenon

------------------------------------------------------------------------------
(* Where a timer is.                                                       *)

Places ==
    /\ Queued \cap timers = {} /\ Queued \cap expired = {} /\ timers \cap expired = {}
    /\ Queued \subseteq added
    /\ Distinct(Waiting)
    /\ ~InHandleRead => expired = {}
    /\ \A t \in Timers \ added : runs[t] = 0
    /\ \A t \in Queued \cup timers \cup toRun : ~Repeats(t) => runs[t] = 0
    /\ \A t \in expired \ toRun : ~Repeats(t) => runs[t] = 1
    /\ \A t \in added \ (Queued \cup timers \cup expired) : ~Repeats(t) /\ runs[t] = 1

PlaceInv == QueueTypes /\ TimerTypes /\ Places

LEMMA InitPlaceInv == Init => PlaceInv
  <1> SUFFICES ASSUME Init PROVE PlaceInv
    OBVIOUS
  <1>1. QueueTypes /\ functors = <<>> /\ pendingFunctors = <<>>
    BY EmptySeq DEF Init, Loop!Init, QueueTypes
  <1>2. Waiting = <<>>
    BY <1>1, ConcatEmptySeq, EmptySeq DEF Waiting
  <1>3. Queued = {} /\ Distinct(Waiting)
    BY <1>1, <1>2, QueuedIsElements, EmptyElements
  <1>4. TimerTypes
    <2>1. \A t \in Timers : 0 >= -MaxLag /\ 0 \in Int /\ 0 \in Nat /\ 0 \in 0 .. 2
      OBVIOUS
    <2>2. /\ expiration \in [Timers -> Int] /\ \A t \in Timers : expiration[t] >= -MaxLag
          /\ interval \in [Timers -> Nat] /\ \A t \in Timers : ~Repeats(t)
          /\ delay \in [Timers -> Nat] /\ wait \in [Timers -> Nat]
          /\ runs \in [Timers -> 0 .. 2]
      BY <2>1 DEF Init, Repeats
    <2>3. /\ added = {} /\ timers = {} /\ expired = {} /\ toRun = {} /\ readable = FALSE
          /\ left \in Nat /\ jumps \in 0 .. MaxJumps
      BY DEF Init
    <2> QED
      BY <2>2, <2>3 DEF TimerTypes
  <1> QED
    BY <1>1, <1>3, <1>4 DEF Init, PlaceInv, Places

LEMMA AddBeforeLoopPlaces ==
    ASSUME LoopInv, PlaceInv, AddBeforeLoop
    PROVE  PlaceInv'
  <1>1. PICK S \in SUBSET (Timers \ added) : AddsAll(S, wait)
    BY AddsEffect, Zenon DEF AddBeforeLoop, PlaceInv, Places, TimerTypes
  <1>2. InHandleRead' = InHandleRead
    BY OtherEffect
  <1>3. /\ timers' = timers /\ expired' = expired /\ toRun' = toRun /\ runs' = runs
        /\ left' = left /\ readable' = readable /\ jumps' = jumps
    BY DEF AddBeforeLoop
  <1>4. \A t \in Timers \ S : Repeats(t)' = Repeats(t)
    BY <1>1 DEF AddsAll, Repeats
  <1>5. TimerTypes'
    <2>1. \A t \in Timers : Repeats(t)' => interval'[t] = WholeSeconds(delay'[t])
      BY <1>1, <1>4 DEF AddsAll, Kept, Repeats, TimerTypes, PlaceInv
    <2> QED
      BY <1>1, <1>3, <2>1 DEF AddsAll, TimerTypes, PlaceInv
  <1>6. Places'
    BY <1>1, <1>2, <1>3, <1>4 DEF AddsAll, Places, PlaceInv, TimerTypes
  <1> QED
    BY <1>1, <1>5, <1>6 DEF AddsAll, PlaceInv

LEMMA RunTimerPlaces ==
    ASSUME LoopInv, PlaceInv, NEW t \in Timers, RunTimer(t)
    PROVE  PlaceInv'
  <1> DEFINE w == [wait EXCEPT ![t] = IF Repeats(t) THEN delay[t] ELSE 0]
  <1>1. t \in toRun /\ t \in added /\ w \in [Timers -> Nat]
    BY DEF RunTimer, PlaceInv, TimerTypes
  <1>2. \/ Loop!QueueNothing /\ wait' = w /\ UNCHANGED <<added, expiration, interval, delay>>
        \/ \E s \in Timers : NewTimer(s, w)
    BY Zenon DEF RunTimer
  <1> HIDE DEF w
  <1>3. PICK S \in SUBSET (Timers \ added) : AddsAll(S, w)
    BY <1>1, <1>2, AddsEffect DEF RunTimer, PlaceInv, Places
  <1>4. InHandleRead' = InHandleRead
    BY OtherEffect
  <1>5. /\ timers' = timers /\ expired' = expired /\ toRun' = toRun \ {t}
        /\ left' = left /\ readable' = readable /\ jumps' = jumps
    BY DEF RunTimer
  <1>6. /\ runs' \in [Timers -> 0 .. 2]
        /\ runs[t] = 0 => runs'[t] = 1
        /\ \A s \in Timers \ {t} : runs'[s] = runs[s]
    BY DEF RunTimer, PlaceInv, TimerTypes
  <1>7. \A s \in Timers \ S : Repeats(s)' = Repeats(s)
    BY <1>3 DEF AddsAll, Repeats
  <1>8. TimerTypes'
    <2>1. \A s \in Timers : Repeats(s)' => interval'[s] = WholeSeconds(delay'[s])
      BY <1>3, <1>7 DEF AddsAll, Kept, Repeats, TimerTypes, PlaceInv
    <2> QED
      BY <1>3, <1>5, <1>6, <2>1 DEF AddsAll, TimerTypes, PlaceInv
  <1>9. /\ (Queued \cap timers = {} /\ Queued \cap expired = {} /\ timers \cap expired = {})'
        /\ (Queued \subseteq added)' /\ Distinct(Waiting)' /\ (~InHandleRead => expired = {})'
    BY <1>3, <1>4, <1>5 DEF AddsAll, Places, PlaceInv, TimerTypes
  <1>10. \A s \in Timers \ added' : runs'[s] = 0
    BY <1>1, <1>3, <1>6 DEF AddsAll, Places, PlaceInv
  <1>11. ASSUME NEW s \in (Queued \cup timers \cup toRun)', ~Repeats(s)' PROVE runs'[s] = 0
    <2>1. s # t /\ s \in Timers
      BY <1>1, <1>3, <1>5, <1>8, <1>11 DEF AddsAll, Places, PlaceInv, TimerTypes
    <2>2. CASE s \in S
      BY <1>6, <2>1, <2>2 DEF Places, PlaceInv
    <2>3. CASE s \notin S
      BY <1>3, <1>5, <1>6, <1>7, <1>11, <2>1, <2>3 DEF AddsAll, Places, PlaceInv
    <2> QED
      BY <2>2, <2>3
  <1>12. ASSUME NEW s \in expired' \ toRun', ~Repeats(s)' PROVE runs'[s] = 1
    BY <1>1, <1>5, <1>6, <1>7, <1>12 DEF Places, PlaceInv, TimerTypes
  <1>13. ASSUME NEW s \in added' \ (Queued \cup timers \cup expired)' PROVE ~Repeats(s)' /\ runs'[s] = 1
    <2>1. s \in added \ (Queued \cup timers \cup expired) /\ s \in Timers \ S
      BY <1>3, <1>5, <1>13 DEF AddsAll, PlaceInv, TimerTypes
    <2>2. s # t
      BY <1>1, <2>1 DEF PlaceInv, TimerTypes
    <2> QED
      BY <1>6, <1>7, <2>1, <2>2 DEF Places, PlaceInv
  <1>14. Places'
    BY <1>9, <1>10, <1>11, <1>12, <1>13 DEF Places
  <1> QED
    BY <1>3, <1>8, <1>14 DEF AddsAll, PlaceInv

LEMMA InsertPlaces ==
    ASSUME LoopInv, PlaceInv, NEW t \in Timers, AddTimerInLoop(t)
    PROVE  PlaceInv'
  <1>1. /\ QueueTypes' /\ t \in Queued
        /\ Queued' = Queued \ {t} /\ Distinct(Waiting')
    BY QueueShrinks DEF AddTimerInLoop, PlaceInv, Places
  <1>2. InHandleRead' = InHandleRead
    BY OtherEffect
  <1>3. /\ timers' = timers \cup {t} /\ expired' = expired /\ toRun' = toRun /\ runs' = runs
        /\ added' = added /\ expiration' = expiration /\ interval' = interval
        /\ jumps' = jumps /\ delay' = delay /\ wait' = wait
    BY DEF AddTimerInLoop, Insert, history
  <1>4. left' \in Nat /\ readable' \in BOOLEAN
    <2>1. Larger(expiration[t], 1) \in Nat
      BY DEF PlaceInv, TimerTypes, Larger
    <2> QED
      BY <2>1 DEF AddTimerInLoop, Insert, ResetTimerfd, PlaceInv, TimerTypes
  <1>5. \A s : Repeats(s)' = Repeats(s)
    BY <1>3 DEF Repeats
  <1>6. TimerTypes'
    BY <1>1, <1>3, <1>4, <1>5 DEF TimerTypes, PlaceInv, Places
  <1>7. Places'
    BY <1>1, <1>2, <1>3, <1>5 DEF Places, PlaceInv, TimerTypes
  <1> QED
    BY <1>1, <1>6, <1>7 DEF PlaceInv

LEMMA BeginPlaces ==
    ASSUME LoopInv, PlaceInv, BeginHandleRead
    PROVE  PlaceInv'
  <1>1. ~InHandleRead /\ InHandleRead'
    BY BeginEffect
  <1>2. /\ expired' \subseteq timers /\ timers' = timers \ expired' /\ toRun' = expired'
        /\ added' = added /\ expiration' = expiration /\ interval' = interval
        /\ jumps' = jumps /\ runs' = runs /\ delay' = delay /\ wait' = wait
        /\ left' = left /\ readable' = FALSE
    BY DEF BeginHandleRead, GetExpired, history
  <1>3. QueueTypes' /\ Queued' = Queued /\ Waiting' = Waiting
    BY QueueStays DEF BeginHandleRead, PlaceInv, QueueTypes
  <1>4. expired = {} /\ toRun = {}
    BY <1>1 DEF PlaceInv, Places, TimerTypes
  <1>5. \A s : Repeats(s)' = Repeats(s)
    BY <1>2 DEF Repeats
  <1>6. TimerTypes'
    BY <1>2, <1>5 DEF TimerTypes, PlaceInv
  <1>7. Places'
    BY <1>1, <1>2, <1>3, <1>4, <1>5 DEF Places, PlaceInv, TimerTypes
  <1> QED
    BY <1>3, <1>6, <1>7 DEF PlaceInv

\* The steps that leave the timers where they are.
LEMMA SamePlaces ==
    ASSUME LoopInv, PlaceInv, InHandleRead' = InHandleRead,
           UNCHANGED <<added, timers, interval, expired, toRun, runs, delay>>,
           \/ UNCHANGED <<functors, pendingFunctors>>
           \/ functors = <<>> /\ functors' = pendingFunctors /\ pendingFunctors' = <<>>,
           eventfd' \in Nat, left' \in Nat, readable' \in BOOLEAN, jumps' \in 0 .. MaxJumps,
           expiration' \in [Timers -> Int], \A t \in Timers : expiration'[t] >= -MaxLag,
           wait' \in [Timers -> Nat]
    PROVE  PlaceInv'
  <1>1. QueueTypes' /\ Queued' = Queued /\ Waiting' = Waiting
    BY QueueStays DEF PlaceInv
  <1>2. \A s : Repeats(s)' = Repeats(s)
    BY DEF Repeats
  <1>3. TimerTypes'
    BY <1>2 DEF TimerTypes, PlaceInv
  <1>4. Places'
    BY <1>1, <1>2 DEF Places, PlaceInv
  <1> QED
    BY <1>1, <1>3, <1>4 DEF PlaceInv

LEMMA LaterTypes ==
    ASSUME TimerTypes, NEW d \in Int, Later(d)
    PROVE  expiration' \in [Timers -> Int] /\ \A t \in Timers : expiration'[t] >= -MaxLag
  <1> DEFINE e(t) == IF t \in timers \cup toRun \cup Queued
                     THEN Larger(expiration[t] - d, -MaxLag) ELSE expiration[t]
  <1>1. \A t \in Timers : e(t) \in Int /\ e(t) >= -MaxLag
    BY DEF TimerTypes, Larger
  <1>2. expiration' = [t \in Timers |-> e(t)]
    BY DEF Later
  <1> HIDE DEF e
  <1> QED
    BY <1>1, <1>2

------------------------------------------------------------------------------
(* The earliest timer.                                                     *)

IsEarliest(e, S, exp) == (\E t \in S : exp[t] = e) /\ \A t \in S : e <= exp[t]

\* Any set of timers has one, however many there are: no expiration is kept
\* below -MaxLag.
LEMMA EarliestIs ==
    ASSUME NEW S \in SUBSET Timers, S # {}, NEW exp \in [Timers -> Int],
           \A t \in Timers : exp[t] >= -MaxLag
    PROVE  IsEarliest(Earliest(S, exp), S, exp) /\ Earliest(S, exp) \in Int
  <1> DEFINE T == {exp[t] + MaxLag : t \in S}
             E == {exp[t] : t \in S}
  <1>1. T \in SUBSET Nat /\ T # {}
    OBVIOUS
  <1>2. PICK m \in T : \A n \in T : m <= n
    <2> HIDE DEF T
    <2> QED
      BY <1>1, LeastNatural
  <1>3. PICK t \in S : m = exp[t] + MaxLag
    OBVIOUS
  <1>4. \A s \in S : exp[t] <= exp[s]
    <2> TAKE s \in S
    <2>1. m <= exp[s] + MaxLag
      BY <1>2
    <2> QED
      BY <1>3, <2>1
  <1>5. exp[t] \in E /\ \A s \in S : exp[t] <= exp[s]
    BY <1>4
  <1>6. Earliest(S, exp) \in E /\ \A s \in S : Earliest(S, exp) <= exp[s]
    <2> HIDE DEF E
    <2>1. Earliest(S, exp) = CHOOSE e \in E : \A s \in S : e <= exp[s]
      BY DEF Earliest, E
    <2> QED
      BY <1>5, <2>1
  <1> QED
    BY <1>6 DEF IsEarliest

LEMMA EarliestUnique ==
    ASSUME NEW S \in SUBSET Timers, NEW exp \in [Timers -> Int],
           \A t \in Timers : exp[t] >= -MaxLag,
           NEW e, IsEarliest(e, S, exp)
    PROVE  Earliest(S, exp) = e
  <1>1. S # {} /\ e \in Int
    BY DEF IsEarliest
  <1>2. IsEarliest(Earliest(S, exp), S, exp) /\ Earliest(S, exp) \in Int
    BY <1>1, EarliestIs
  <1>3. e <= Earliest(S, exp) /\ Earliest(S, exp) <= e
    BY <1>2 DEF IsEarliest
  <1> QED
    BY <1>1, <1>2, <1>3

\* Inserting a timer changes the earliest one just when insert() says so.
LEMMA EarliestInsert ==
    ASSUME NEW S \in SUBSET Timers, NEW exp \in [Timers -> Int], NEW t \in Timers,
           \A s \in Timers : exp[s] >= -MaxLag
    PROVE  IF \A s \in S : exp[t] < exp[s]
           THEN Earliest(S \cup {t}, exp) = exp[t]
           ELSE S # {} /\ Earliest(S \cup {t}, exp) = Earliest(S, exp)
  <1>1. CASE \A s \in S : exp[t] < exp[s]
    <2>1. IsEarliest(exp[t], S \cup {t}, exp)
      BY <1>1 DEF IsEarliest
    <2> QED
      BY <1>1, <2>1, EarliestUnique
  <1>2. CASE \E s \in S : ~(exp[t] < exp[s])
    <2>1. PICK s \in S : exp[s] <= exp[t]
      BY <1>2
    <2> DEFINE e == Earliest(S, exp)
    <2>2. IsEarliest(e, S, exp) /\ e \in Int
      BY EarliestIs
    <2> HIDE DEF e
    <2>3. e <= exp[t]
      BY <2>1, <2>2 DEF IsEarliest
    <2>4. IsEarliest(e, S \cup {t}, exp)
      BY <2>2, <2>3 DEF IsEarliest
    <2>5. Earliest(S \cup {t}, exp) = e
      BY <2>4, EarliestUnique
    <2> QED
      BY <1>2, <2>5 DEF e
  <1> QED
    BY <1>1, <1>2

LEMMA ResetTypes ==
    ASSUME TimerTypes, Reset
    PROVE  expiration' \in [Timers -> Int] /\ \A t \in Timers : expiration'[t] >= -MaxLag
  <1> DEFINE again == {t \in expired : Repeats(t)}
             e(t) == IF t \in again THEN Larger(AddTime(interval[t]), -MaxLag)
                     ELSE IF t \in expired THEN 0 ELSE expiration[t]
  <1>1. ASSUME NEW t \in Timers PROVE e(t) \in Int /\ e(t) >= -MaxLag
    <2>1. AddTime(interval[t]) \in Int
      BY AddTimeIs DEF TimerTypes
    <2>2. /\ Larger(AddTime(interval[t]), -MaxLag) \in Int
          /\ Larger(AddTime(interval[t]), -MaxLag) >= -MaxLag
      BY <2>1 DEF Larger
    <2> QED
      BY <2>2 DEF TimerTypes
  <1>2. expiration' = [t \in Timers |-> e(t)]
    BY DEF Reset
  <1> HIDE DEF e
  <1> QED
    BY <1>1, <1>2

\* reset() arms the timerfd for the earliest of the timers it leaves.
LEMMA ResetArms ==
    ASSUME TimerTypes, Reset
    PROVE  /\ left' \in Nat /\ readable' \in BOOLEAN
           /\ timers' # {} => /\ left' = Larger(Earliest(timers', expiration'), 1)
                              /\ ~readable'
  <1>1. timers' \in SUBSET Timers
    BY DEF Reset, TimerTypes
  <1>2. timers' # {} => Larger(Earliest(timers', expiration'), 1) \in Nat
    BY <1>1, ResetTypes, EarliestIs DEF Larger
  <1>3. Rearm
    BY DEF Reset
  <1> QED
    BY <1>2, <1>3 DEF Rearm, ResetTimerfd, TimerTypes

\* What getExpired() took and reset() does not put back has run.
LEMMA ResetPlaces ==
    ASSUME LoopInv, PlaceInv, Reset
    PROVE  PlaceInv'
  <1> DEFINE again == {t \in expired : Repeats(t)}
  <1>1. InHandleRead /\ ~InHandleRead'
    BY ResetEffect
  <1>2. /\ timers' = timers \cup again /\ expired' = {} /\ toRun = {} /\ toRun' = {}
        /\ added' = added /\ interval' = interval /\ jumps' = jumps /\ runs' = runs
        /\ delay' = delay /\ wait' = wait
    BY DEF Reset, history
  <1>3. QueueTypes' /\ Queued' = Queued /\ Waiting' = Waiting
    BY QueueStays DEF Reset, PlaceInv, QueueTypes
  <1>4. \A s : Repeats(s)' = Repeats(s)
    BY <1>2 DEF Repeats
  <1>5. again \subseteq expired /\ \A s \in expired \ again : ~Repeats(s)
    OBVIOUS
  <1>6. /\ expiration' \in [Timers -> Int] /\ \A t \in Timers : expiration'[t] >= -MaxLag
        /\ left' \in Nat /\ readable' \in BOOLEAN
    BY ResetTypes, ResetArms DEF PlaceInv
  <1> HIDE DEF again
  <1>7. TimerTypes'
    BY <1>2, <1>4, <1>5, <1>6 DEF TimerTypes, PlaceInv
  <1>8. \A s \in again : Repeats(s)
    BY DEF again
  <1>9. Places'
    BY <1>1, <1>2, <1>3, <1>4, <1>5, <1>8 DEF Places, PlaceInv, TimerTypes
  <1> QED
    BY <1>3, <1>7, <1>9 DEF PlaceInv

LEMMA NextPlaceInv == LoopInv /\ PlaceInv /\ [Next]_vars => PlaceInv'
  <1> SUFFICES ASSUME LoopInv, PlaceInv, [Next]_vars PROVE PlaceInv'
    OBVIOUS
  <1> DEFINE Types ==
        /\ eventfd \in Nat /\ left \in Nat /\ readable \in BOOLEAN /\ jumps \in 0 .. MaxJumps
        /\ expiration \in [Timers -> Int] /\ (\A t \in Timers : expiration[t] >= -MaxLag)
        /\ wait \in [Timers -> Nat]
  <1>1. Types
    BY DEF PlaceInv, QueueTypes, TimerTypes
  <1>2. CASE Construct \/ EnterLoop \/ EndFunctors
    <2>1. /\ UNCHANGED <<functors, pendingFunctors, eventfd>>
          /\ UNCHANGED <<timerVars, history>>
      BY <1>2 DEF Construct, EnterLoop, Loop!EnterLoop, EndFunctors, Loop!EndFunctors
    <2>2. InHandleRead' = InHandleRead
      BY <1>2, OtherEffect
    <2> QED
      BY <1>1, <2>1, <2>2, SamePlaces DEF timerVars, history
  <1>3. CASE AddBeforeLoop
    BY <1>3, AddBeforeLoopPlaces
  <1>4. CASE Poll
    <2>1. InHandleRead' = InHandleRead
      BY <1>4, PollEffect DEF InHandleRead, LoopInv
    <2> QED
      BY <1>1, <1>4, <2>1, SamePlaces DEF Poll, Loop!Poll, timerVars, history
  <1>5. CASE HandleWakeup
    <2>1. InHandleRead' = InHandleRead
      BY <1>5, WakeupEffect
    <2> QED
      BY <1>1, <1>5, <2>1, SamePlaces DEF HandleWakeup, Loop!HandleWakeup, timerVars, history
  <1>6. CASE BeginHandleRead
    BY <1>6, BeginPlaces
  <1>7. ASSUME NEW t \in Timers, RunTimer(t) PROVE PlaceInv'
    BY <1>7, RunTimerPlaces
  <1>8. CASE Reset
    BY <1>8, ResetPlaces
  <1>9. CASE DoPendingFunctors
    <2>1. InHandleRead' = InHandleRead
      BY <1>9, OtherEffect
    <2>2. functors = <<>>
      BY <1>9 DEF DoPendingFunctors, Loop!DoPendingFunctors, LoopInv
    <2> QED
      BY <1>1, <1>9, <2>1, <2>2, SamePlaces
      DEF DoPendingFunctors, Loop!DoPendingFunctors, timerVars, history
  <1>10. ASSUME NEW t \in Timers, AddTimerInLoop(t) PROVE PlaceInv'
    BY <1>10, InsertPlaces
  <1>11. CASE Tick
    <2>1. InHandleRead' = InHandleRead
      BY <1>11, OtherEffect
    <2>2. expiration' \in [Timers -> Int] /\ \A t \in Timers : expiration'[t] >= -MaxLag
      BY <1>11, LaterTypes DEF Tick, PlaceInv
    <2>3. left' \in Nat /\ wait' \in [Timers -> Nat] /\ readable' \in BOOLEAN
      BY <1>1, <1>11 DEF Tick, Larger
    <2> QED
      BY <1>1, <1>11, <2>1, <2>2, <2>3, SamePlaces DEF Tick, loopVars
  <1>12. CASE Jump
    <2>1. InHandleRead' = InHandleRead
      BY <1>12, OtherEffect
    <2>2. expiration' \in [Timers -> Int] /\ \A t \in Timers : expiration'[t] >= -MaxLag
      BY <1>12, LaterTypes DEF Jump, PlaceInv
    <2>3. jumps' \in 0 .. MaxJumps
      BY <1>1, <1>12 DEF Jump
    <2> QED
      BY <1>1, <1>12, <2>1, <2>2, <2>3, SamePlaces DEF Jump, loopVars
  <1>13. CASE UNCHANGED vars
    BY <1>1, <1>13, SamePlaces DEF vars, loopVars, timerVars, history, InHandleRead
  <1> QED
    BY <1>2, <1>3, <1>4, <1>5, <1>6, <1>7, <1>8, <1>9, <1>10, <1>11, <1>12, <1>13
    DEF Next, LoopNext

LEMMA PlaceInvariance == Spec => [](LoopInv /\ PlaceInv)
  BY InitLoopInv, NextLoopInv, InitPlaceInv, NextPlaceInv, PTL DEF Spec

LEMMA InvTypes == LoopInv /\ PlaceInv => TypeOK
  <1> SUFFICES ASSUME LoopInv, PlaceInv PROVE TypeOK
    OBVIOUS
  <1>1. registered \subseteq Loop!Registration
    BY DEF LoopInv, Loop!Registration, WakeupRegistration, TimerRegistration, Fds, Channels, Loop!Events
  <1>2. active \subseteq Loop!Activation
    BY DEF LoopInv, Loop!Activation, Loop!Events
  <1>3. Loop!TypeOK
    BY <1>1, <1>2 DEF Loop!TypeOK, LoopInv, PlaceInv, QueueTypes, Functors
  <1> QED
    BY <1>3 DEF TypeOK, PlaceInv, TimerTypes

\* No timer is lost or run twice on its way through the functors, timers_ and
\* the batch of handleRead() (TimerQueue.cc:84-148).
THEOREM OnePlaceEachHolds == Spec => []OnePlaceEach
  <1>1. LoopInv /\ PlaceInv => OnePlaceEach
    <2> SUFFICES ASSUME LoopInv, PlaceInv PROVE OnePlaceEach
      OBVIOUS
    <2>1. TypeOK
      BY InvTypes
    <2>2. ASSUME NEW t \in added, ~Repeats(t)
          PROVE  /\ t \notin expired \ toRun => runs[t] = 0 \/ t \notin Queued \cup timers \cup toRun
                 /\ runs[t] <= 1
      <3>1. runs[t] = 0 \/ runs[t] = 1
        BY <2>2 DEF PlaceInv, Places, TimerTypes
      <3> QED
        BY <2>2, <3>1 DEF PlaceInv, Places
    <2> QED
      BY <2>1, <2>2 DEF OnePlaceEach, PlaceInv, Places
  <1> QED
    BY <1>1, PlaceInvariance, PTL

------------------------------------------------------------------------------
(* What the timerfd is armed for.                                          *)

Armed == NeverUnarmed /\ ArmedForEarliest

\* Between the batches the steps of the loop leave timers_ and the timerfd alone.
LEMMA SameArmed ==
    ASSUME Armed, PlaceInv, InHandleRead' = InHandleRead,
           UNCHANGED <<timers, left, readable, jumps>>,
           \A t \in timers : expiration'[t] = expiration[t]
    PROVE  Armed'
  <1>1. {expiration'[t] : t \in timers} = {expiration[t] : t \in timers}
    OBVIOUS
  <1>2. Earliest(timers', expiration') = Earliest(timers, expiration)
    BY <1>1 DEF Earliest
  <1> QED
    BY <1>2 DEF Armed, NeverUnarmed, ArmedForEarliest

LEMMA InsertArmed ==
    ASSUME LoopInv, PlaceInv, Armed, NEW t \in Timers, AddTimerInLoop(t)
    PROVE  Armed'
  <1>1. InHandleRead' = InHandleRead
    BY OtherEffect
  <1>2. ~InHandleRead
    BY DEF AddTimerInLoop, Loop!RunFunctor, LoopInv, InHandleRead
  <1>3. Insert(t) /\ timers' = timers \cup {t} /\ expiration' = expiration /\ jumps' = jumps
    BY DEF AddTimerInLoop, Insert, history
  <1>4. /\ timers \in SUBSET Timers /\ expiration \in [Timers -> Int]
        /\ \A s \in Timers : expiration[s] >= -MaxLag
    BY DEF PlaceInv, TimerTypes
  <1>5. CASE \A s \in timers : expiration[t] < expiration[s]
    <2>1. Earliest(timers', expiration') = expiration[t]
      BY <1>3, <1>4, <1>5, EarliestInsert
    <2>2. left' = Larger(expiration[t], 1) /\ ~readable'
      BY <1>3, <1>5 DEF Insert, ResetTimerfd
    <2>3. left' > 0
      BY <1>4, <2>2 DEF Larger
    <2> QED
      BY <2>1, <2>2, <2>3 DEF Armed, NeverUnarmed, ArmedForEarliest
  <1>6. CASE ~\A s \in timers : expiration[t] < expiration[s]
    <2>1. timers # {} /\ Earliest(timers', expiration') = Earliest(timers, expiration)
      BY <1>3, <1>4, <1>6, EarliestInsert
    <2>2. left' = left /\ readable' = readable
      BY <1>3, <1>6 DEF Insert
    <2> QED
      BY <1>1, <1>2, <1>3, <2>1, <2>2 DEF Armed, NeverUnarmed, ArmedForEarliest
  <1> QED
    BY <1>5, <1>6

LEMMA ResetArmed ==
    ASSUME LoopInv, PlaceInv, Armed, Reset
    PROVE  Armed'
  <1>1. ~InHandleRead' /\ jumps' = jumps
    BY ResetEffect DEF Reset, history
  <1>2. timers' \in SUBSET Timers
    BY DEF Reset, PlaceInv, TimerTypes
  <1>3. timers' # {} => /\ left' = Larger(Earliest(timers', expiration'), 1)
                        /\ Earliest(timers', expiration') \in Int
                        /\ ~readable'
    BY <1>2, ResetTypes, ResetArms, EarliestIs DEF PlaceInv
  <1>4. timers' # {} => left' > 0
    BY <1>3 DEF Larger
  <1> QED
    BY <1>3, <1>4 DEF Armed, NeverUnarmed, ArmedForEarliest

\* On both clocks the same time passes.
LEMMA TickArmed ==
    ASSUME LoopInv, PlaceInv, Armed, Tick
    PROVE  Armed'
  <1>1. InHandleRead' = InHandleRead /\ jumps' = jumps /\ timers' = timers
    BY OtherEffect DEF Tick
  <1>2. SUFFICES ASSUME timers # {}, ~InHandleRead
                 PROVE  /\ left' > 0 \/ readable'
                        /\ jumps = 0 =>
                             IF readable' THEN Earliest(timers, expiration') <= 0
                             ELSE left' = Larger(Earliest(timers, expiration'), 1)
    BY <1>1 DEF Armed, NeverUnarmed, ArmedForEarliest
  <1>3. /\ left' = Larger(left - 1, 0) /\ readable' = (readable \/ left = 1)
        /\ left \in Nat /\ readable \in BOOLEAN
    BY DEF Tick, PlaceInv, TimerTypes
  <1>4. left' > 0 \/ readable'
    <2>1. left > 0 \/ readable
      BY <1>2 DEF Armed, NeverUnarmed
    <2>2. CASE readable \/ left = 1
      BY <1>3, <2>2
    <2>3. CASE left > 1
      BY <1>3, <2>3 DEF Larger
    <2> QED
      BY <1>3, <2>1, <2>2, <2>3
  <1>5. ASSUME jumps = 0
        PROVE  IF readable' THEN Earliest(timers, expiration') <= 0
               ELSE left' = Larger(Earliest(timers, expiration'), 1)
    <2> DEFINE e == Earliest(timers, expiration)
               f == Earliest(timers, expiration')
    <2>1. /\ timers \in SUBSET Timers /\ expiration \in [Timers -> Int]
          /\ \A s \in Timers : expiration[s] >= -MaxLag
      BY DEF PlaceInv, TimerTypes
    <2>2. IsEarliest(e, timers, expiration) /\ e \in Int
      BY <1>2, <2>1, EarliestIs
    <2>3. /\ expiration' \in [Timers -> Int]
          /\ \A s \in Timers : expiration'[s] >= -MaxLag
      BY LaterTypes DEF Tick, PlaceInv
    <2>4. \A s \in timers : expiration'[s] = Larger(expiration[s] - 1, -MaxLag)
      BY <2>1 DEF Tick, Later
    <2>5. IsEarliest(f, timers, expiration') /\ f \in Int
      BY <1>2, <2>1, <2>3, EarliestIs
    <2>6. IF readable THEN e <= 0 ELSE left = Larger(e, 1)
      BY <1>2, <1>5 DEF Armed, ArmedForEarliest
    <2> HIDE DEF e, f
    <2>7. f <= Larger(e - 1, -MaxLag)
      <3>1. PICK s \in timers : expiration[s] = e
        BY <2>2 DEF IsEarliest
      <3> QED
        BY <2>4, <2>5, <3>1 DEF IsEarliest
    <2>8. f >= Larger(e - 1, -MaxLag)
      <3>1. PICK s \in timers : expiration'[s] = f
        BY <2>5 DEF IsEarliest
      <3>2. expiration[s] >= e /\ expiration[s] \in Int
        BY <2>1, <2>2 DEF IsEarliest
      <3> QED
        BY <2>2, <2>4, <3>1, <3>2 DEF Larger
    <2>9. f = Larger(e - 1, -MaxLag)
      BY <2>2, <2>5, <2>7, <2>8 DEF Larger
    <2>10. CASE readable
      <3>1. e <= 1
        BY <2>2, <2>6, <2>10 DEF Larger
      <3>2. f <= 0
        BY <2>2, <2>9, <3>1 DEF Larger
      <3>3. readable'
        BY <1>3, <2>10
      <3> QED
        BY <3>2, <3>3 DEF f
    <2>11. CASE ~readable /\ left = 1
      <3>1. e <= 1
        BY <2>2, <2>6, <2>11 DEF Larger
      <3>2. f <= 0
        BY <2>2, <2>9, <3>1 DEF Larger
      <3>3. readable'
        BY <1>3, <2>11
      <3> QED
        BY <3>2, <3>3 DEF f
    <2>12. CASE ~readable /\ left # 1
      <3>1. ~readable' /\ left = e /\ e > 1
        BY <1>3, <2>2, <2>6, <2>12 DEF Larger
      <3>2. left' = Larger(f, 1)
        BY <1>3, <2>2, <2>9, <3>1 DEF Larger
      <3> QED
        BY <3>1, <3>2 DEF f
    <2> QED
      BY <1>3, <2>10, <2>11, <2>12
  <1> QED
    BY <1>4, <1>5

\* Setting the wall clock moves the expirations and not the timerfd.
LEMMA JumpArmed ==
    ASSUME LoopInv, PlaceInv, Armed, Jump
    PROVE  Armed'
  <1>1. InHandleRead' = InHandleRead
    BY OtherEffect
  <1>2. jumps' # 0 /\ UNCHANGED <<timers, left, readable>>
    BY DEF Jump, PlaceInv, TimerTypes
  <1> QED
    BY <1>1, <1>2 DEF Armed, NeverUnarmed, ArmedForEarliest

LEMMA NextArmed == LoopInv /\ PlaceInv /\ Armed /\ [Next]_vars => Armed'
  <1> SUFFICES ASSUME LoopInv, PlaceInv, Armed, [Next]_vars PROVE Armed'
    OBVIOUS
  <1>1. CASE Construct \/ EnterLoop \/ EndFunctors \/ DoPendingFunctors
    <2>1. UNCHANGED <<timerVars, history>>
      BY <1>1 DEF Construct, EnterLoop, EndFunctors, DoPendingFunctors
    <2>2. InHandleRead' = InHandleRead
      BY <1>1, OtherEffect
    <2> QED
      BY <2>1, <2>2, SameArmed DEF timerVars, history
  <1>2. CASE AddBeforeLoop
    <2>1. PICK S \in SUBSET (Timers \ added) : AddsAll(S, wait)
      BY <1>2, AddsEffect, Zenon DEF AddBeforeLoop, PlaceInv, Places, TimerTypes
    <2>2. \A t \in timers : expiration'[t] = expiration[t]
      BY <2>1 DEF AddsAll, PlaceInv, TimerTypes
    <2> QED
      BY <1>2, <2>2, OtherEffect, SameArmed DEF AddBeforeLoop
  <1>3. CASE Poll
    <2>1. InHandleRead' = InHandleRead
      BY <1>3, PollEffect DEF InHandleRead, LoopInv
    <2> QED
      BY <1>3, <2>1, SameArmed DEF Poll, timerVars, history
  <1>4. CASE HandleWakeup
    BY <1>4, WakeupEffect, SameArmed DEF HandleWakeup, timerVars, history
  <1>5. CASE BeginHandleRead
    BY <1>5, BeginEffect DEF Armed, NeverUnarmed, ArmedForEarliest
  <1>6. ASSUME NEW t \in Timers, RunTimer(t) PROVE Armed'
    <2>1. InHandleRead'
      BY <1>6, OtherEffect DEF RunTimer
    <2> QED
      BY <2>1 DEF Armed, NeverUnarmed, ArmedForEarliest
  <1>7. CASE Reset
    BY <1>7, ResetArmed
  <1>8. ASSUME NEW t \in Timers, AddTimerInLoop(t) PROVE Armed'
    BY <1>8, InsertArmed
  <1>9. CASE Tick
    BY <1>9, TickArmed
  <1>10. CASE Jump
    BY <1>10, JumpArmed
  <1>11. CASE UNCHANGED vars
    BY <1>11, SameArmed DEF vars, loopVars, timerVars, history, InHandleRead
  <1> QED
    BY <1>1, <1>2, <1>3, <1>4, <1>5, <1>6, <1>7, <1>8, <1>9, <1>10, <1>11
    DEF Next, LoopNext

LEMMA InitArmed == Init => Armed
  BY DEF Init, Armed, NeverUnarmed, ArmedForEarliest

LEMMA ArmedInvariance == Spec => []Armed
  BY InitArmed, NextArmed, PlaceInvariance, PTL DEF Spec

\* Whatever is added and whatever the wall clock is set to, a timer in timers_
\* has the timerfd armed or waiting to be read (TimerQueue.cc:27-61, 106-148).
THEOREM NeverUnarmedHolds == Spec => []NeverUnarmed
  <1>1. Armed => NeverUnarmed
    BY DEF Armed
  <1> QED
    BY <1>1, ArmedInvariance, PTL

\* Until somebody sets the wall clock the timerfd expires with the earliest
\* timer (TimerQueue.cc:106-168).
THEOREM ArmedForEarliestHolds == Spec => []ArmedForEarliest
  <1>1. Armed => ArmedForEarliest
    BY DEF Armed
  <1> QED
    BY <1>1, ArmedInvariance, PTL

------------------------------------------------------------------------------
(* How soon a timer runs.                                                  *)

\* Without a change of the wall clock what remains of a caller's delay is no
\* more than what remains until the expiration and what the conversion lost.
Pace ==
    jumps = 0 =>
        /\ \A t \in Queued \cup timers : wait[t] <= Larger(expiration[t], 0) + Lost(delay[t])
        /\ \A t \in toRun : expiration[t] <= 0 /\ wait[t] <= Lost(delay[t])
        /\ \A t \in expired \ toRun : wait[t] <= IF Repeats(t) THEN delay[t] ELSE 0

LEMMA SamePace ==
    ASSUME Pace, Queued' = Queued,
           UNCHANGED <<timers, expired, toRun, expiration, interval, delay, wait, jumps>>
    PROVE  Pace'
  BY DEF Pace, Repeats

LEMMA AddBeforeLoopPace ==
    ASSUME LoopInv, PlaceInv, Pace, AddBeforeLoop
    PROVE  Pace'
  <1>1. PICK S \in SUBSET (Timers \ added) : AddsAll(S, wait)
    BY AddsEffect, Zenon DEF AddBeforeLoop, PlaceInv, Places, TimerTypes
  <1>2. UNCHANGED <<timers, expired, toRun, jumps>>
    BY DEF AddBeforeLoop
  <1>3. Queued \cup timers \cup expired \subseteq Timers \ S /\ toRun \subseteq expired
    BY DEF PlaceInv, Places, TimerTypes
  <1> QED
    BY <1>1, <1>2, <1>3 DEF Pace, AddsAll, Kept, Repeats

LEMMA RunTimerPace ==
    ASSUME LoopInv, PlaceInv, Pace, NEW t \in Timers, RunTimer(t)
    PROVE  Pace'
  <1> DEFINE w == [wait EXCEPT ![t] = IF Repeats(t) THEN delay[t] ELSE 0]
  <1>1. t \in toRun /\ t \in expired /\ w \in [Timers -> Nat]
    BY DEF RunTimer, PlaceInv, TimerTypes
  <1>2. \/ Loop!QueueNothing /\ wait' = w /\ UNCHANGED <<added, expiration, interval, delay>>
        \/ \E s \in Timers : NewTimer(s, w)
    BY Zenon DEF RunTimer
  <1>3. w[t] = (IF Repeats(t) THEN delay[t] ELSE 0) /\ \A s \in Timers \ {t} : w[s] = wait[s]
    BY DEF PlaceInv, TimerTypes
  <1> HIDE DEF w
  <1>4. PICK S \in SUBSET (Timers \ added) : AddsAll(S, w)
    BY <1>1, <1>2, AddsEffect DEF RunTimer, PlaceInv, Places
  <1>5. UNCHANGED <<timers, expired, jumps>> /\ toRun' = toRun \ {t}
    BY DEF RunTimer
  <1>6. Queued \cup timers \cup expired \subseteq Timers \ S /\ toRun \subseteq expired
    BY DEF PlaceInv, Places, TimerTypes
  <1>7. SUFFICES ASSUME jumps = 0
                 PROVE  /\ \A s \in Queued' \cup timers : wait'[s] <= Larger(expiration'[s], 0) + Lost(delay'[s])
                        /\ \A s \in toRun \ {t} : expiration'[s] <= 0 /\ wait'[s] <= Lost(delay'[s])
                        /\ \A s \in expired \ (toRun \ {t}) :
                              wait'[s] <= IF Repeats(s)' THEN delay'[s] ELSE 0
    BY <1>5 DEF Pace
  <1>8. t \notin Queued \cup timers
    BY <1>1 DEF PlaceInv, Places
  <1>9. ASSUME NEW s \in Queued' \cup timers
        PROVE  wait'[s] <= Larger(expiration'[s], 0) + Lost(delay'[s])
    <2>1. CASE s \in S
      BY <1>4, <2>1 DEF AddsAll, Kept
    <2>2. CASE s \notin S
      <3>1. s \in Queued \cup timers /\ s \in Timers \ {t} /\ s \in Timers \ S
        BY <1>4, <1>6, <1>8, <1>9, <2>2 DEF AddsAll
      <3>2. wait'[s] = wait[s] /\ expiration'[s] = expiration[s] /\ delay'[s] = delay[s]
        BY <1>3, <1>4, <3>1 DEF AddsAll
      <3> QED
        BY <1>7, <3>1, <3>2 DEF Pace
    <2> QED
      BY <2>1, <2>2
  <1>10. ASSUME NEW s \in toRun \ {t} PROVE expiration'[s] <= 0 /\ wait'[s] <= Lost(delay'[s])
    <2>1. s \in Timers \ S
      BY <1>6
    <2>2. wait'[s] = wait[s] /\ expiration'[s] = expiration[s] /\ delay'[s] = delay[s]
      BY <1>3, <1>4, <2>1 DEF AddsAll
    <2> QED
      BY <1>7, <2>2 DEF Pace
  <1>11. ASSUME NEW s \in expired \ (toRun \ {t})
         PROVE  wait'[s] <= IF Repeats(s)' THEN delay'[s] ELSE 0
    <2>1. s \in Timers \ S
      BY <1>6
    <2>2. wait'[s] = w[s] /\ delay'[s] = delay[s] /\ Repeats(s)' = Repeats(s)
      BY <1>4, <2>1 DEF AddsAll, Repeats
    <2>3. CASE s = t
      <3>1. delay[s] \in Nat
        BY <2>1 DEF PlaceInv, TimerTypes
      <3> QED
        BY <1>3, <2>2, <2>3, <3>1
    <2>4. CASE s # t
      <3>1. s \in expired \ toRun /\ w[s] = wait[s]
        BY <1>3, <2>1, <2>4
      <3> QED
        BY <1>7, <2>2, <3>1 DEF Pace
    <2> QED
      BY <2>3, <2>4
  <1> QED
    BY <1>9, <1>10, <1>11

LEMMA InsertPace ==
    ASSUME LoopInv, PlaceInv, Pace, NEW t \in Timers, AddTimerInLoop(t)
    PROVE  Pace'
  <1>1. t \in Queued /\ Queued' = Queued \ {t}
    BY QueueShrinks DEF AddTimerInLoop, PlaceInv, Places
  <1>2. timers' = timers \cup {t} /\ UNCHANGED <<expired, toRun, expiration, interval, delay, wait, jumps>>
    BY DEF AddTimerInLoop, Insert, history
  <1>3. Queued' \cup timers' = Queued \cup timers
    BY <1>1, <1>2
  <1> QED
    BY <1>2, <1>3 DEF Pace, Repeats

LEMMA BeginPace ==
    ASSUME LoopInv, PlaceInv, Pace, BeginHandleRead
    PROVE  Pace'
  <1>1. /\ expired' = {t \in timers : expiration[t] <= 0} /\ timers' = timers \ expired'
        /\ toRun' = expired' /\ UNCHANGED <<expiration, interval, delay, wait, jumps>>
    BY DEF BeginHandleRead, GetExpired, history
  <1>2. Queued' = Queued
    BY QueueStays DEF BeginHandleRead, PlaceInv, QueueTypes
  <1>3. ASSUME jumps = 0, NEW t \in expired' PROVE wait[t] <= Lost(delay[t])
    <2>1. wait[t] <= Larger(expiration[t], 0) + Lost(delay[t]) /\ expiration[t] <= 0
      BY <1>1, <1>3 DEF Pace
    <2>2. wait[t] \in Nat /\ expiration[t] \in Int /\ Lost(delay[t]) \in Nat
      BY <1>1, LostIs DEF PlaceInv, TimerTypes
    <2> QED
      BY <2>1, <2>2 DEF Larger
  <1> QED
    BY <1>1, <1>2, <1>3 DEF Pace

\* restart() counts the whole interval from now on.
LEMMA ResetPace ==
    ASSUME LoopInv, PlaceInv, Pace, Reset
    PROVE  Pace'
  <1> DEFINE again == {t \in expired : Repeats(t)}
  <1>1. /\ timers' = timers \cup again /\ expired' = {} /\ toRun = {} /\ toRun' = {}
        /\ UNCHANGED <<interval, delay, wait, jumps>>
    BY DEF Reset, history
  <1>2. Queued' = Queued
    BY QueueStays DEF Reset, PlaceInv, QueueTypes
  <1>3. \A t \in Queued \cup timers : expiration'[t] = expiration[t]
    <2>1. \A t \in Queued \cup timers : t \in Timers /\ t \notin expired
      BY DEF PlaceInv, Places, TimerTypes
    <2> QED
      BY <2>1 DEF Reset
  <1>4. ASSUME jumps = 0, NEW t \in again
        PROVE  wait[t] <= Larger(expiration'[t], 0) + Lost(delay[t])
    <2>1. t \in Timers /\ delay[t] \in Nat /\ wait[t] \in Nat /\ interval[t] = WholeSeconds(delay[t])
      BY DEF PlaceInv, TimerTypes
    <2>2. expiration'[t] = Larger(AddTime(WholeSeconds(delay[t])), -MaxLag)
      BY <2>1 DEF Reset
    <2>3. wait[t] <= delay[t]
      BY <1>1, <1>4 DEF Pace
    <2>4. /\ Lost(delay[t]) \in Nat /\ AddTime(WholeSeconds(delay[t])) \in Int
          /\ delay[t] <= Larger(AddTime(WholeSeconds(delay[t])), 0) + Lost(delay[t])
      BY <2>1, LostIs, AddTimeIs, WholeSecondsType
    <2> QED
      BY <2>1, <2>2, <2>3, <2>4 DEF Larger
  <1> HIDE DEF again
  <1> QED
    BY <1>1, <1>2, <1>3, <1>4 DEF Pace

LEMMA TickPace ==
    ASSUME LoopInv, PlaceInv, Pace, Tick
    PROVE  Pace'
  <1>1. UNCHANGED <<timers, expired, toRun, interval, delay, jumps>>
    BY DEF Tick
  <1>2. Queued' = Queued
    BY QueueStays DEF Tick, loopVars, PlaceInv, QueueTypes
  <1>3. \A t \in Queued \cup timers \cup toRun \cup expired :
           /\ t \in Timers /\ expiration[t] \in Int /\ wait[t] \in Nat
           /\ delay[t] \in Nat /\ Lost(delay[t]) \in Nat
    BY LostIs DEF PlaceInv, Places, TimerTypes
  <1>4. \A t \in Timers : wait'[t] = Larger(wait[t] - 1, 0)
    BY DEF Tick
  <1>5. \A t \in Queued \cup timers \cup toRun : expiration'[t] = Larger(expiration[t] - 1, -MaxLag)
    BY <1>3 DEF Tick, Later
  <1>6. SUFFICES ASSUME jumps = 0
                 PROVE  /\ \A t \in Queued \cup timers : wait'[t] <= Larger(expiration'[t], 0) + Lost(delay[t])
                        /\ \A t \in toRun : expiration'[t] <= 0 /\ wait'[t] <= Lost(delay[t])
                        /\ \A t \in expired \ toRun : wait'[t] <= IF Repeats(t) THEN delay[t] ELSE 0
    BY <1>1, <1>2 DEF Pace, Repeats
  <1>7. ASSUME NEW t \in Queued \cup timers
        PROVE  wait'[t] <= Larger(expiration'[t], 0) + Lost(delay[t])
    <2>1. wait[t] <= Larger(expiration[t], 0) + Lost(delay[t])
      BY <1>6 DEF Pace
    <2> QED
      BY <1>3, <1>4, <1>5, <2>1 DEF Larger
  <1>8. ASSUME NEW t \in toRun PROVE expiration'[t] <= 0 /\ wait'[t] <= Lost(delay[t])
    <2>1. expiration[t] <= 0 /\ wait[t] <= Lost(delay[t])
      BY <1>6 DEF Pace
    <2> QED
      BY <1>3, <1>4, <1>5, <2>1 DEF Larger
  <1>9. ASSUME NEW t \in expired \ toRun PROVE wait'[t] <= IF Repeats(t) THEN delay[t] ELSE 0
    <2>1. wait[t] <= IF Repeats(t) THEN delay[t] ELSE 0
      BY <1>6 DEF Pace
    <2> QED
      BY <1>3, <1>4, <2>1 DEF Larger
  <1> QED
    BY <1>7, <1>8, <1>9

LEMMA NextPace == LoopInv /\ PlaceInv /\ Pace /\ [Next]_vars => Pace'
  <1> SUFFICES ASSUME LoopInv, PlaceInv, Pace, [Next]_vars PROVE Pace'
    OBVIOUS
  <1>1. CASE Construct \/ EnterLoop \/ EndFunctors \/ HandleWakeup \/ Poll \/ DoPendingFunctors
    <2>1. /\ UNCHANGED <<timerVars, history>>
          /\ \/ UNCHANGED <<functors, pendingFunctors>>
             \/ functors = <<>> /\ functors' = pendingFunctors /\ pendingFunctors' = <<>>
      BY <1>1 DEF Construct, EnterLoop, EndFunctors, HandleWakeup, Poll, DoPendingFunctors,
                  Loop!EnterLoop, Loop!EndFunctors, Loop!HandleWakeup, Loop!Poll,
                  Loop!DoPendingFunctors, LoopInv
    <2>2. eventfd' \in Nat
      BY <1>1 DEF Construct, EnterLoop, EndFunctors, HandleWakeup, Poll, DoPendingFunctors,
                  Loop!EnterLoop, Loop!EndFunctors, Loop!HandleWakeup, Loop!Poll,
                  Loop!DoPendingFunctors, PlaceInv, QueueTypes
    <2>3. Queued' = Queued
      BY <2>1, <2>2, QueueStays DEF PlaceInv
    <2> QED
      BY <2>1, <2>3, SamePace DEF timerVars, history
  <1>2. CASE AddBeforeLoop
    BY <1>2, AddBeforeLoopPace
  <1>3. CASE BeginHandleRead
    BY <1>3, BeginPace
  <1>4. ASSUME NEW t \in Timers, RunTimer(t) PROVE Pace'
    BY <1>4, RunTimerPace
  <1>5. CASE Reset
    BY <1>5, ResetPace
  <1>6. ASSUME NEW t \in Timers, AddTimerInLoop(t) PROVE Pace'
    BY <1>6, InsertPace
  <1>7. CASE Tick
    BY <1>7, TickPace
  <1>8. CASE Jump
    BY <1>8 DEF Jump, Pace, PlaceInv, TimerTypes
  <1>9. CASE UNCHANGED vars
    <2>1. Queued' = Queued
      BY <1>9 DEF vars, loopVars, Queued
    <2> QED
      BY <1>9, <2>1, SamePace DEF vars, timerVars, history
  <1> QED
    BY <1>1, <1>2, <1>3, <1>4, <1>5, <1>6, <1>7, <1>8, <1>9 DEF Next, LoopNext

\* No timer runs before its delay, or since its last run its interval, has
\* passed but for what the conversion to int takes of it, however many timers
\* are due in a batch and whatever they add (EventLoop.cc:120-130,
\* TimerQueue.cc:91-135, Timer.cc:6-16, Timestamp.h:73-77).
THEOREM NotTooSoonHolds == Spec => NotTooSoon
  <1>1. Init => Pace
    <2> SUFFICES ASSUME Init PROVE Pace
      OBVIOUS
    <2>1. Queued = {} /\ timers = {} /\ expired = {} /\ toRun = {}
      BY InitPlaceInv DEF Init, PlaceInv, Places
    <2> QED
      BY <2>1 DEF Pace
  <1>2. LoopInv /\ PlaceInv /\ Pace /\ [Next]_vars
            => [\A t \in toRun \ toRun' : jumps = 0 => wait[t] <= Lost(delay[t])]_vars
    BY DEF Pace
  <1> QED
    BY <1>1, <1>2, NextPace, PlaceInvariance, PTL DEF Spec, NotTooSoon
=============================================================================
