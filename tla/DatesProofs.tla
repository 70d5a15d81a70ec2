----------------------------- MODULE DatesProofs -----------------------------
(***************************************************************************)
(* Proofs about the calendar and what is reckoned with it, for any length  *)
(* of a day, any zone and any moment.  The calendar comes first: a day     *)
(* lies in the month that MonthHolding names, and the moment that GoDate   *)
(* builds reads as the month, day and time it was built from.              *)
(***************************************************************************)
EXTENDS DateMath, Repeating, FiniteSetTheorems, WellFoundedInduction, TLAPS

-----------------------------------------------------------------------------
(* Months and their days.                                                  *)

\* A year from March on has 365 days, or 366.
LEMMA YearsApart ==
    ASSUME NEW y \in Int
    PROVE  LET Days(x) == 365 * x + x \div 4 - x \div 100 + x \div 400
           IN  Days(y + 1) - Days(y) \in {365, 366}
OBVIOUS

\* The days before each month of such a year.
LEMMA DaysBefore ==
    ASSUME NEW r \in 0..11
    PROVE  /\ (153 * r + 2) \div 5 \in Int
           /\ 48699 * r <= 1600 * ((153 * r + 2) \div 5) + 2000
           /\ 1600 * ((153 * r + 2) \div 5) <= 48699 * r + 4000
           /\ r # 11 => (153 * (r + 1) + 2) \div 5 - (153 * r + 2) \div 5 \in 28..31
OBVIOUS

\* The days before a year and before a month of it, and how far they are from the average.
LEMMA FirstDayBounds ==
    ASSUME NEW k \in Int
    PROVE  /\ FirstDay(k) \in Int /\ FirstDay(k + 1) - FirstDay(k) \in 28..31
           /\ 48699 * (k - 1) + 40000 <= 1600 * FirstDay(k)
           /\ 1600 * FirstDay(k) <= 48699 * k + 8000
<1> DEFINE y == k \div 12
           r == k % 12
           Y(x) == 365 * x + x \div 4 - x \div 100 + x \div 400
           M(x) == (153 * x + 2) \div 5
<1>1. y \in Int /\ r \in 0..11 /\ k = 12 * y + r
  OBVIOUS
<1>2. FirstDay(k) = Y(y) + M(r)
  BY DEF FirstDay
<1>3. Y(y) \in Int /\ Y(y + 1) \in Int /\ Y(y + 1) - Y(y) \in {365, 366}
  BY <1>1, YearsApart
<1>4. 48699 * 12 * y - 3000 <= 1600 * Y(y) /\ 1600 * Y(y) <= 48699 * 12 * y + 2000
  <2> HIDE DEF y
  <2> QED
    BY <1>1
<1>5. /\ M(r) \in Int /\ M(r + 1) \in Int /\ 48699 * r <= 1600 * M(r) + 2000 /\ 1600 * M(r) <= 48699 * r + 4000
      /\ r # 11 => M(r + 1) - M(r) \in 28..31
  BY <1>1, DaysBefore
<1>6. FirstDay(k + 1) = IF r = 11 THEN Y(y + 1) ELSE Y(y) + M(r + 1)
  <2>1. CASE r = 11
    <3>1. (k + 1) \div 12 = y + 1 /\ (k + 1) % 12 = 0
      BY <2>1, <1>1
    <3> QED
      BY <2>1, <3>1, <1>3 DEF FirstDay
  <2>2. CASE r # 11
    <3>1. (k + 1) \div 12 = y /\ (k + 1) % 12 = r + 1
      BY <2>2, <1>1
    <3> QED
      BY <2>2, <3>1 DEF FirstDay
  <2> QED
    BY <2>1, <2>2
<1>7. r = 11 => M(r) = 337
  BY DEF M
<1>8. FirstDay(k + 1) - FirstDay(k) \in 28..31
  <2> HIDE DEF y, r, Y, M
  <2>1. CASE r = 11
    BY <2>1, <1>2, <1>3, <1>5, <1>6, <1>7
  <2>2. CASE r # 11
    <3>1. M(r + 1) - M(r) \in 28..31 /\ FirstDay(k + 1) = Y(y) + M(r + 1)
      BY <2>2, <1>5, <1>6
    <3> QED
      BY <3>1, <1>2, <1>3, <1>5
  <2> QED
    BY <2>1, <2>2
<1>9. /\ 48699 * (k - 1) + 40000 <= 1600 * FirstDay(k)
      /\ 1600 * FirstDay(k) <= 48699 * k + 8000
  <2>1. PICK a \in Int, b \in Int, c \in Int, d \in Int : a = y /\ b = r /\ c = Y(y) /\ d = M(r)
    BY <1>1, <1>3, <1>5
  <2>2. /\ k = 12 * a + b /\ FirstDay(k) = c + d
        /\ 48699 * 12 * a - 3000 <= 1600 * c /\ 1600 * c <= 48699 * 12 * a + 2000
        /\ 48699 * b <= 1600 * d + 2000 /\ 1600 * d <= 48699 * b + 4000
    <3> HIDE DEF y, r, Y, M
    <3> QED
      BY <1>1, <1>2, <1>4, <1>5, <2>1
  <2> QED
    BY <2>2
<1> QED
  BY <1>2, <1>3, <1>5, <1>8, <1>9

\* Months follow each other.
LEMMA FirstDaysRise ==
    ASSUME NEW j \in Int, NEW k \in Int, j < k
    PROVE  FirstDay(j) < FirstDay(k)
<1>1. CASE k = j + 1
  BY <1>1, FirstDayBounds
<1>2. CASE k >= j + 2
  BY <1>2, FirstDayBounds, k \in Int, j \in Int
<1> QED
  BY <1>1, <1>2

\* The month of a day is the one whose first day it is, or comes after, and
\* whose last day it is, or comes before; there is no other.
LEMMA MonthHolds ==
    ASSUME NEW day \in Int
    PROVE  /\ MonthHolding(day) \in Int
           /\ FirstDay(MonthHolding(day)) <= day /\ day < FirstDay(MonthHolding(day) + 1)
<1> DEFINE near == (day * 1600) \div 48699
           S == {k \in (near - 1)..(near + 1) : FirstDay(k) <= day}
<1>1. near \in Int /\ 48699 * near <= 1600 * day /\ 1600 * day < 48699 * (near + 1)
  OBVIOUS
<1> HIDE DEF near
<1>2. FirstDay(near - 1) <= day
  <2>1. FirstDay(near - 1) \in Int /\ 1600 * FirstDay(near - 1) <= 48699 * (near - 1) + 8000
    BY <1>1, FirstDayBounds
  <2> QED
    BY <1>1, <2>1
<1>3. day < FirstDay(near + 2)
  <2>1. FirstDay(near + 2) \in Int /\ 48699 * (near + 1) + 40000 <= 1600 * FirstDay(near + 2)
    <3>1. 48699 * (near + 2 - 1) + 40000 <= 1600 * FirstDay(near + 2) /\ FirstDay(near + 2) \in Int
      BY <1>1, FirstDayBounds
    <3> QED
      BY <1>1, <3>1
  <2> QED
    BY <1>1, <2>1
<1>4. \E x \in S : \A z \in S : x >= z
  <2>1. near - 1 \in S
    BY <1>1, <1>2
  <2>2. \A z \in S : z = near - 1 \/ z = near \/ z = near + 1
    BY <1>1
  <2>3. CASE near + 1 \in S
    BY <1>1, <2>2, <2>3
  <2>4. CASE near + 1 \notin S /\ near \in S
    BY <1>1, <2>2, <2>4
  <2>5. CASE near + 1 \notin S /\ near \notin S
    BY <1>1, <2>1, <2>2, <2>5
  <2> QED
    BY <2>3, <2>4, <2>5
<1> DEFINE m == Max(S)
<1>5. m \in S /\ \A z \in S : m >= z
  BY <1>4 DEF Max
<1>6. MonthHolding(day) = m
  BY DEF MonthHolding, near
<1>7. m \in Int /\ FirstDay(m) <= day
  BY <1>1, <1>5
<1>8. day < FirstDay(m + 1)
  <2>1. CASE m = near + 1
    BY <1>1, <1>3, <2>1
  <2>2. CASE m # near + 1
    <3>1. m + 1 \in (near - 1)..(near + 1) /\ m + 1 \notin S
      <4> HIDE DEF m
      <4>1. m \in (near - 1)..(near + 1)
        BY <1>5
      <4>2. m + 1 \notin S
        BY <1>5, <1>7
      <4> QED
        BY <1>1, <4>1, <4>2, <2>2
    <3>2. FirstDay(m + 1) \in Int
      BY <1>7, FirstDayBounds
    <3> HIDE DEF m
    <3> QED
      BY <3>1, <3>2
  <2> QED
    BY <2>1, <2>2
<1> HIDE DEF m
<1> QED
  BY <1>6, <1>7, <1>8

LEMMA MonthIs ==
    ASSUME NEW day \in Int, NEW k \in Int, FirstDay(k) <= day, day < FirstDay(k + 1)
    PROVE  MonthHolding(day) = k
<1> DEFINE m == MonthHolding(day)
<1>1. m \in Int /\ FirstDay(m) <= day /\ day < FirstDay(m + 1)
  BY MonthHolds
<1>2. /\ FirstDay(m) \in Int /\ FirstDay(m + 1) \in Int /\ FirstDay(k) \in Int
      /\ FirstDay(k + 1) \in Int
  BY <1>1, FirstDayBounds
<1> HIDE DEF m
<1>3. ~(m < k)
  <2> SUFFICES ASSUME m < k PROVE FALSE
    OBVIOUS
  <2>1. m + 1 = k \/ m + 1 < k
    BY <1>1
  <2>2. FirstDay(m + 1) <= FirstDay(k)
    BY <2>1, <1>1, <1>2, FirstDaysRise
  <2> QED
    BY <2>2, <1>1, <1>2
<1>4. ~(k < m)
  <2> SUFFICES ASSUME k < m PROVE FALSE
    OBVIOUS
  <2>1. k + 1 = m \/ k + 1 < m
    BY <1>1
  <2>2. FirstDay(k + 1) <= FirstDay(m)
    BY <2>1, <1>1, <1>2, FirstDaysRise
  <2> QED
    BY <2>2, <1>1, <1>2
<1> QED
  BY <1>1, <1>3, <1>4 DEF m

-----------------------------------------------------------------------------
(* Moments.                                                                *)

\* The parameters, as the lemmas below use them.
LEMMA Ticks == Zone \in Int /\ TicksPerHour \in Nat \ {0} /\ TicksPerDay \in Nat \ {0}
<1>1. Zone \in Int /\ TicksPerHour \in Nat \ {0} /\ HoursPerDay \in Nat \ {0}
  BY CalendarAssumption
<1>2. TicksPerHour * HoursPerDay \in Nat /\ TicksPerHour * HoursPerDay > 0
  BY <1>1
<1> QED
  BY <1>1, <1>2 DEF TicksPerDay

\* At least one whole times a length is at least that length.
LEMMA Wholes ==
    ASSUME NEW T \in Nat, NEW n \in Nat, n > 0
    PROVE  n * T >= T
<1>1. n * T = (n - 1) * T + T
  OBVIOUS
<1>2. (n - 1) * T \in Nat
  <2>1. n - 1 \in Nat
    OBVIOUS
  <2> QED
    BY <2>1
<1> QED
  BY <1>1, <1>2

\* Wholes are ordered as their counts.
LEMMA WholesOrdered ==
    ASSUME NEW T \in Nat, NEW a \in Int, NEW b \in Int, a < b
    PROVE  a * T + T <= b * T
<1>1. (b - a) * T >= T
  <2>1. b - a \in Nat /\ b - a > 0
    OBVIOUS
  <2> QED
    BY <2>1, Wholes
<1>2. (b - a) * T = b * T - a * T
  OBVIOUS
<1> QED
  BY <1>1, <1>2

\* A number is so many wholes and a rest.
LEMMA Divided ==
    ASSUME NEW T \in Nat \ {0}, NEW a \in Int
    PROVE  /\ a \div T \in Int /\ a % T \in 0..(T - 1)
           /\ a = (a \div T) * T + (a % T)
OBVIOUS

\* And in one way only.
LEMMA DividedOnce ==
    ASSUME NEW T \in Nat \ {0}, NEW q \in Int, NEW r \in 0..(T - 1)
    PROVE  (q * T + r) \div T = q /\ (q * T + r) % T = r
<1> DEFINE a == q * T + r
           p == a \div T
           s == a % T
<1>1. a \in Int
  OBVIOUS
<1>2. p \in Int /\ s \in 0..(T - 1) /\ q * T + r = p * T + s
  BY <1>1, Divided
<1> HIDE DEF p, s
<1>3. ~(p < q)
  BY <1>2, WholesOrdered
<1>4. ~(q < p)
  BY <1>2, WholesOrdered
<1>5. p = q
  BY <1>2, <1>3, <1>4
<1>6. s = r
  BY <1>2, <1>5
<1> QED
  BY <1>5, <1>6 DEF p, s

\* A moment is a day of the caller's calendar and a time of that day.
AtDay(day, time) == day * TicksPerDay + time - Zone

LEMMA AtDayReads ==
    ASSUME NEW day \in Int, NEW time \in 0..(TicksPerDay - 1)
    PROVE  /\ AtDay(day, time) \in Int
           /\ DayNumber(AtDay(day, time)) = day /\ TimeOfDay(AtDay(day, time)) = time
<1>1. Local(AtDay(day, time)) = day * TicksPerDay + time /\ AtDay(day, time) \in Int
  BY Ticks DEF AtDay, Local
<1>2. /\ (day * TicksPerDay + time) \div TicksPerDay = day
      /\ (day * TicksPerDay + time) % TicksPerDay = time
  BY Ticks, DividedOnce
<1> QED
  BY <1>1, <1>2 DEF DayNumber, TimeOfDay

LEMMA MomentReads ==
    ASSUME NEW m \in Int
    PROVE  /\ DayNumber(m) \in Int /\ TimeOfDay(m) \in 0..(TicksPerDay - 1)
           /\ m = AtDay(DayNumber(m), TimeOfDay(m))
           /\ MonthOf(m) \in Int /\ FirstDay(MonthOf(m)) \in Int
           /\ FirstDay(MonthOf(m)) <= DayNumber(m) /\ DayNumber(m) < FirstDay(MonthOf(m) + 1)
           /\ DayOf(m) = DayNumber(m) - FirstDay(MonthOf(m)) + 1
<1>1. Local(m) \in Int
  BY Ticks DEF Local
<1>2. /\ DayNumber(m) \in Int /\ TimeOfDay(m) \in 0..(TicksPerDay - 1)
      /\ Local(m) = DayNumber(m) * TicksPerDay + TimeOfDay(m)
  BY <1>1, Ticks, Divided DEF DayNumber, TimeOfDay
<1>3. m = AtDay(DayNumber(m), TimeOfDay(m))
  BY <1>2, Ticks DEF AtDay, Local
<1> QED
  BY <1>2, <1>3, MonthHolds, FirstDayBounds DEF MonthOf, DayOf

\* GoDate counts days on from the first of the month, whatever day it is given.
LEMMA GoDateIs ==
    ASSUME NEW k \in Int, NEW day \in Int, NEW time \in Int
    PROVE  GoDate(k, day, time) = AtDay(FirstDay(k) + (day - 1), time)
BY FirstDayBounds DEF GoDate, AtDay

\* The day that many days on, at the same time of day.
LEMMA DaysOn ==
    ASSUME NEW m \in Int, NEW n \in Int
    PROVE  /\ AddDate(m, 0, n) = AtDay(DayNumber(m) + n, TimeOfDay(m))
           /\ AddDate(m, 0, n) \in Int /\ AddDate(m, 0, n) = m + n * TicksPerDay
           /\ DayNumber(AddDate(m, 0, n)) = DayNumber(m) + n
           /\ TimeOfDay(AddDate(m, 0, n)) = TimeOfDay(m)
<1>1. /\ DayNumber(m) \in Int /\ TimeOfDay(m) \in 0..(TicksPerDay - 1)
      /\ m = AtDay(DayNumber(m), TimeOfDay(m)) /\ MonthOf(m) \in Int /\ FirstDay(MonthOf(m)) \in Int
      /\ DayOf(m) = DayNumber(m) - FirstDay(MonthOf(m)) + 1
  BY MomentReads
<1>2. AddDate(m, 0, n) = AtDay(DayNumber(m) + n, TimeOfDay(m))
  <2>1. DayOf(m) + n \in Int /\ MonthOf(m) + 0 = MonthOf(m) /\ TimeOfDay(m) \in Int
    BY <1>1
  <2>2. FirstDay(MonthOf(m)) + (DayOf(m) + n - 1) = DayNumber(m) + n
    BY <1>1
  <2> QED
    BY <2>1, <2>2, <1>1, GoDateIs DEF AddDate
<1>3. DayNumber(m) + n \in Int
  BY <1>1
<1>4. AtDay(DayNumber(m) + n, TimeOfDay(m)) = m + n * TicksPerDay
  <2> DEFINE d == DayNumber(m)
             t == TimeOfDay(m)
  <2>1. d \in Int /\ t \in Int /\ m = d * TicksPerDay + t - Zone
    BY <1>1 DEF AtDay
  <2> HIDE DEF d, t
  <2>2. (d + n) * TicksPerDay + t - Zone = (d * TicksPerDay + t - Zone) + n * TicksPerDay
    BY <2>1, Ticks
  <2>3. AtDay(d + n, t) = m + n * TicksPerDay
    BY <2>1, <2>2 DEF AtDay
  <2> QED
    BY <2>3 DEF d, t
<1> QED
  BY <1>1, <1>2, <1>3, <1>4, AtDayReads

\* An earlier day is an earlier moment.
LEMMA DaysOrdered ==
    ASSUME NEW a \in Int, NEW b \in Int, NEW s \in 0..(TicksPerDay - 1), NEW t \in 0..(TicksPerDay - 1)
    PROVE  /\ a < b => AtDay(a, s) < AtDay(b, t)
           /\ s <= t => AtDay(a, s) <= AtDay(a, t)
<1>1. a < b => a * TicksPerDay + TicksPerDay <= b * TicksPerDay
  BY Ticks, WholesOrdered
<1>2. a * TicksPerDay \in Int /\ b * TicksPerDay \in Int
  BY Ticks
<1> QED
  BY <1>1, <1>2, Ticks DEF AtDay

-----------------------------------------------------------------------------
(* Rounding.                                                               *)

LEMMA TruncateIs ==
    ASSUME NEW m
    PROVE  /\ Truncate(m, "y") = GoDate(MonthOf(m) - ((MonthOf(m) + 2) % 12), 1, 0)
           /\ Truncate(m, "Q") = GoDate(MonthOf(m) - ((MonthOf(m) + 2) % 3), 1, 0)
           /\ Truncate(m, "M") = GoDate(MonthOf(m), 1, 0)
           /\ Truncate(m, "w") = ToWeek(m)
           /\ Truncate(m, "d") = GoDate(MonthOf(m), DayOf(m), 0)
           /\ Truncate(m, "h") = m - (m % TicksPerHour)
BY DEF Truncate

LEMMA AddUnitsIs ==
    ASSUME NEW m, NEW n
    PROVE  /\ AddUnits(m, n, "y") = AddDate(m, 12 * n, 0)
           /\ AddUnits(m, n, "Q") = AddDate(m, 3 * n, 0)
           /\ AddUnits(m, n, "M") = AddDate(m, n, 0)
           /\ AddUnits(m, n, "w") = AddDate(m, 0, 7 * n)
           /\ AddUnits(m, n, "d") = AddDate(m, 0, n)
           /\ AddUnits(m, n, "b") = AddBusinessDays(m, n)
           /\ AddUnits(m, n, "h") = m + n * TicksPerHour
BY DEF AddUnits

\* What RoundingBrackets asks of one unit.
Brackets(m, unit) ==
    LET start == Truncate(m, unit)
    IN  /\ start \in Int /\ start <= m /\ m < AddUnits(start, 1, unit)
        /\ Truncate(start, unit) = start

\* Time of day zero is a time of day.
LEMMA Midnight == 0 \in 0..(TicksPerDay - 1)
BY Ticks

\* The first of a month reads as such, and months added to it give the first of another.
LEMMA MonthStart ==
    ASSUME NEW j \in Int
    PROVE  /\ GoDate(j, 1, 0) \in Int /\ GoDate(j, 1, 0) = AtDay(FirstDay(j), 0)
           /\ MonthOf(GoDate(j, 1, 0)) = j /\ DayOf(GoDate(j, 1, 0)) = 1
           /\ \A n \in Int : AddDate(GoDate(j, 1, 0), n, 0) = GoDate(j + n, 1, 0)
<1> DEFINE s == GoDate(j, 1, 0)
<1>0. FirstDay(j) \in Int /\ FirstDay(j) < FirstDay(j + 1)
  BY FirstDayBounds, FirstDaysRise
<1>1. s = AtDay(FirstDay(j), 0)
  <2>1. FirstDay(j) + (1 - 1) = FirstDay(j)
    BY <1>0
  <2> QED
    BY <2>1, GoDateIs
<1> HIDE DEF s
<1>2. s \in Int /\ DayNumber(s) = FirstDay(j) /\ TimeOfDay(s) = 0
  BY <1>0, <1>1, Midnight, AtDayReads
<1>3. MonthOf(s) = j
  <2>1. FirstDay(j) <= DayNumber(s) /\ DayNumber(s) < FirstDay(j + 1) /\ DayNumber(s) \in Int
    BY <1>0, <1>2
  <2> QED
    BY <2>1, MonthIs DEF MonthOf
<1>4. DayOf(s) = 1
  BY <1>0, <1>2, <1>3 DEF DayOf
<1>5. \A n \in Int : AddDate(s, n, 0) = GoDate(j + n, 1, 0)
  BY <1>2, <1>3, <1>4 DEF AddDate
<1> QED
  BY <1>1, <1>2, <1>3, <1>4, <1>5 DEF s

\* A moment lies between the starts of two months when its own month does.
LEMMA MonthsBracket ==
    ASSUME NEW m \in Int, NEW j \in Int, NEW n \in Nat, j <= MonthOf(m), MonthOf(m) < j + n
    PROVE  GoDate(j, 1, 0) <= m /\ m < AddDate(GoDate(j, 1, 0), n, 0)
<1>1. /\ DayNumber(m) \in Int /\ TimeOfDay(m) \in 0..(TicksPerDay - 1)
      /\ m = AtDay(DayNumber(m), TimeOfDay(m)) /\ MonthOf(m) \in Int
      /\ FirstDay(MonthOf(m)) <= DayNumber(m) /\ DayNumber(m) < FirstDay(MonthOf(m) + 1)
  BY MomentReads
<1>2. /\ FirstDay(j) \in Int /\ FirstDay(j + n) \in Int /\ FirstDay(MonthOf(m)) \in Int
      /\ FirstDay(MonthOf(m) + 1) \in Int
  BY <1>1, FirstDayBounds
<1>3. FirstDay(j) <= DayNumber(m)
  <2>1. FirstDay(j) <= FirstDay(MonthOf(m))
    <3>1. CASE j = MonthOf(m)
      BY <3>1, <1>2
    <3>2. CASE j < MonthOf(m)
      BY <3>2, <1>1, <1>2, FirstDaysRise
    <3> QED
      BY <3>1, <3>2, <1>1
  <2> QED
    BY <2>1, <1>1, <1>2
<1>4. DayNumber(m) < FirstDay(j + n)
  <2>1. FirstDay(MonthOf(m) + 1) <= FirstDay(j + n)
    <3>1. CASE MonthOf(m) + 1 = j + n
      BY <3>1, <1>2
    <3>2. CASE MonthOf(m) + 1 < j + n
      BY <3>2, <1>1, <1>2, FirstDaysRise
    <3> QED
      BY <3>1, <3>2, <1>1
  <2> QED
    BY <2>1, <1>1, <1>2
<1>5. GoDate(j, 1, 0) = AtDay(FirstDay(j), 0)
  BY MonthStart
<1>6. AddDate(GoDate(j, 1, 0), n, 0) = AtDay(FirstDay(j + n), 0)
  BY MonthStart
<1>7. AtDay(FirstDay(j), 0) <= AtDay(DayNumber(m), TimeOfDay(m))
  <2>1. CASE FirstDay(j) = DayNumber(m)
    BY <2>1, <1>1, Midnight, DaysOrdered
  <2>2. CASE FirstDay(j) < DayNumber(m)
    <3>1. AtDay(FirstDay(j), 0) < AtDay(DayNumber(m), TimeOfDay(m))
      BY <2>2, <1>1, <1>2, Midnight, DaysOrdered
    <3>2. AtDay(FirstDay(j), 0) \in Int
      BY <1>2, Midnight, AtDayReads
    <3> QED
      BY <3>1, <3>2, <1>1
  <2> QED
    BY <2>1, <2>2, <1>1, <1>2, <1>3
<1>8. AtDay(DayNumber(m), TimeOfDay(m)) < AtDay(FirstDay(j + n), 0)
  BY <1>1, <1>2, <1>4, Midnight, DaysOrdered
<1> QED
  BY <1>1, <1>5, <1>6, <1>7, <1>8

LEMMA YearsBracket == ASSUME NEW m \in Int PROVE Brackets(m, "y")
<1> DEFINE k == MonthOf(m)
           j == k - ((k + 2) % 12)
<1>1. k \in Int
  BY MomentReads
<1> HIDE DEF k
<1>2. j \in Int /\ j <= k /\ k < j + 12 /\ j - ((j + 2) % 12) = j
  BY <1>1
<1> HIDE DEF j
<1>3. Truncate(m, "y") = GoDate(j, 1, 0)
  BY TruncateIs DEF j, k
<1>4. MonthOf(GoDate(j, 1, 0)) = j
  BY <1>2, MonthStart
<1>5. Truncate(GoDate(j, 1, 0), "y") = GoDate(j, 1, 0)
  BY <1>2, <1>4, TruncateIs
<1>6. AddUnits(GoDate(j, 1, 0), 1, "y") = AddDate(GoDate(j, 1, 0), 12, 0)
  BY AddUnitsIs
<1>7. GoDate(j, 1, 0) \in Int
  BY <1>2, MonthStart
<1>8. GoDate(j, 1, 0) <= m /\ m < AddDate(GoDate(j, 1, 0), 12, 0)
  BY <1>2, MonthsBracket DEF k
<1> QED
  BY <1>3, <1>5, <1>6, <1>7, <1>8 DEF Brackets

LEMMA QuartersBracket == ASSUME NEW m \in Int PROVE Brackets(m, "Q")
<1> DEFINE k == MonthOf(m)
           j == k - ((k + 2) % 3)
<1>1. k \in Int
  BY MomentReads
<1> HIDE DEF k
<1>2. j \in Int /\ j <= k /\ k < j + 3 /\ j - ((j + 2) % 3) = j
  BY <1>1
<1> HIDE DEF j
<1>3. Truncate(m, "Q") = GoDate(j, 1, 0)
  BY TruncateIs DEF j, k
<1>4. MonthOf(GoDate(j, 1, 0)) = j
  BY <1>2, MonthStart
<1>5. Truncate(GoDate(j, 1, 0), "Q") = GoDate(j, 1, 0)
  BY <1>2, <1>4, TruncateIs
<1>6. AddUnits(GoDate(j, 1, 0), 1, "Q") = AddDate(GoDate(j, 1, 0), 3, 0)
  BY AddUnitsIs
<1>7. GoDate(j, 1, 0) \in Int
  BY <1>2, MonthStart
<1>8. GoDate(j, 1, 0) <= m /\ m < AddDate(GoDate(j, 1, 0), 3, 0)
  BY <1>2, MonthsBracket DEF k
<1> QED
  BY <1>3, <1>5, <1>6, <1>7, <1>8 DEF Brackets

LEMMA MonthsStartBracket == ASSUME NEW m \in Int PROVE Brackets(m, "M")
<1> DEFINE k == MonthOf(m)
<1>1. k \in Int
  BY MomentReads
<1> HIDE DEF k
<1>3. Truncate(m, "M") = GoDate(k, 1, 0)
  BY TruncateIs DEF k
<1>5. Truncate(GoDate(k, 1, 0), "M") = GoDate(k, 1, 0)
  BY <1>1, MonthStart, TruncateIs
<1>6. AddUnits(GoDate(k, 1, 0), 1, "M") = AddDate(GoDate(k, 1, 0), 1, 0)
  BY AddUnitsIs
<1>7. GoDate(k, 1, 0) \in Int
  BY <1>1, MonthStart
<1>8. GoDate(k, 1, 0) <= m /\ m < AddDate(GoDate(k, 1, 0), 1, 0)
  BY <1>1, MonthsBracket DEF k
<1> QED
  BY <1>3, <1>5, <1>6, <1>7, <1>8 DEF Brackets

\* The start of a day reads as such.
LEMMA DayStart ==
    ASSUME NEW day \in Int
    PROVE  /\ AtDay(day, 0) \in Int /\ DayNumber(AtDay(day, 0)) = day /\ TimeOfDay(AtDay(day, 0)) = 0
           /\ Truncate(AtDay(day, 0), "d") = AtDay(day, 0)
           /\ \A n \in Int : AddDate(AtDay(day, 0), 0, n) = AtDay(day + n, 0)
<1> DEFINE s == AtDay(day, 0)
<1>1. s \in Int /\ DayNumber(s) = day /\ TimeOfDay(s) = 0
  BY Midnight, AtDayReads
<1> HIDE DEF s
<1>2. MonthOf(s) \in Int /\ FirstDay(MonthOf(s)) \in Int /\ DayOf(s) = day - FirstDay(MonthOf(s)) + 1
  BY <1>1, MomentReads
<1>3. Truncate(s, "d") = AtDay(day, 0)
  <2>1. DayOf(s) \in Int /\ FirstDay(MonthOf(s)) + (DayOf(s) - 1) = day
    BY <1>2
  <2> QED
    BY <2>1, <1>2, GoDateIs, TruncateIs
<1>4. \A n \in Int : AddDate(s, 0, n) = AtDay(day + n, 0)
  BY <1>1, DaysOn
<1> QED
  BY <1>1, <1>3, <1>4 DEF s

LEMMA DaysBracket == ASSUME NEW m \in Int PROVE Brackets(m, "d")
<1>1. /\ DayNumber(m) \in Int /\ TimeOfDay(m) \in 0..(TicksPerDay - 1)
      /\ m = AtDay(DayNumber(m), TimeOfDay(m)) /\ MonthOf(m) \in Int /\ FirstDay(MonthOf(m)) \in Int
      /\ DayOf(m) = DayNumber(m) - FirstDay(MonthOf(m)) + 1
  BY MomentReads
<1> DEFINE s == AtDay(DayNumber(m), 0)
<1>2. Truncate(m, "d") = s
  <2>1. DayOf(m) \in Int /\ FirstDay(MonthOf(m)) + (DayOf(m) - 1) = DayNumber(m)
    BY <1>1
  <2> QED
    BY <2>1, <1>1, GoDateIs, TruncateIs
<1>3. s \in Int /\ Truncate(s, "d") = s
  BY <1>1, DayStart
<1>4. AddUnits(s, 1, "d") = AtDay(DayNumber(m) + 1, 0)
  BY <1>1, DayStart, AddUnitsIs
<1>5. s <= m
  BY <1>1, Midnight, DaysOrdered
<1>6. m < AtDay(DayNumber(m) + 1, 0)
  BY <1>1, Midnight, DaysOrdered
<1> HIDE DEF s
<1> QED
  BY <1>2, <1>3, <1>4, <1>5, <1>6 DEF Brackets

\* The day that a moment's week begins on, the Monday not after it.
MondayOf(m) == LET w == Weekday(m) IN DayNumber(m) - (IF w = 0 THEN 6 ELSE w - 1)

LEMMA WeekIs ==
    ASSUME NEW m \in Int
    PROVE  /\ ToWeek(m) = AtDay(MondayOf(m), 0)
           /\ MondayOf(m) \in Int /\ MondayOf(m) <= DayNumber(m) /\ DayNumber(m) < MondayOf(m) + 7
           /\ (MondayOf(m) + 3) % 7 = 1
<1>1. /\ DayNumber(m) \in Int /\ MonthOf(m) \in Int /\ FirstDay(MonthOf(m)) \in Int
      /\ DayOf(m) = DayNumber(m) - FirstDay(MonthOf(m)) + 1
  BY MomentReads
<1>2. Weekday(m) = (DayNumber(m) + 3) % 7 /\ Weekday(m) \in 0..6
  BY <1>1 DEF Weekday
<1> DEFINE back == DayOf(m) - (IF Weekday(m) - StartOfWeek < 0 THEN 7 ELSE 0) - (Weekday(m) - StartOfWeek)
<1>3. back \in Int /\ FirstDay(MonthOf(m)) + (back - 1) = MondayOf(m)
  BY <1>1, <1>2 DEF MondayOf, StartOfWeek
<1>4. ToWeek(m) = GoDate(MonthOf(m), back, 0)
  BY DEF ToWeek
<1>5. ToWeek(m) = AtDay(MondayOf(m), 0)
  <2> HIDE DEF back
  <2> QED
    BY <1>1, <1>3, <1>4, GoDateIs
<1>6. /\ MondayOf(m) \in Int /\ MondayOf(m) <= DayNumber(m) /\ DayNumber(m) < MondayOf(m) + 7
      /\ (MondayOf(m) + 3) % 7 = 1
  <2>1. PICK d \in Int : d = DayNumber(m)
    BY <1>1
  <2>2. MondayOf(m) = IF (d + 3) % 7 = 0 THEN d - 6 ELSE d - (((d + 3) % 7) - 1)
    BY <1>2, <2>1 DEF MondayOf
  <2>3. CASE (d + 3) % 7 = 0
    BY <2>1, <2>2, <2>3
  <2>4. CASE (d + 3) % 7 # 0
    <3>1. MondayOf(m) = d - (((d + 3) % 7) - 1)
      BY <2>2, <2>4
    <3>2. (d - (((d + 3) % 7) - 1) + 3) % 7 = 1 /\ (d + 3) % 7 \in 1..6
      BY <2>4
    <3> QED
      BY <3>1, <3>2, <2>1
  <2> QED
    BY <2>3, <2>4
<1> QED
  BY <1>5, <1>6

LEMMA WeeksBracket == ASSUME NEW m \in Int PROVE Brackets(m, "w")
<1> DEFINE d == MondayOf(m)
           s == AtDay(d, 0)
<1>1. /\ DayNumber(m) \in Int /\ TimeOfDay(m) \in 0..(TicksPerDay - 1)
      /\ m = AtDay(DayNumber(m), TimeOfDay(m))
  BY MomentReads
<1>2. ToWeek(m) = s /\ d \in Int /\ d <= DayNumber(m) /\ DayNumber(m) < d + 7 /\ (d + 3) % 7 = 1
  BY WeekIs
<1> HIDE DEF d
<1>3. s \in Int /\ DayNumber(s) = d
  BY <1>2, DayStart
<1>4. ToWeek(s) = s
  <2>1. Weekday(s) = 1
    BY <1>2, <1>3 DEF Weekday
  <2>2. MondayOf(s) = d
    BY <2>1, <1>2, <1>3 DEF MondayOf
  <2> QED
    BY <2>2, <1>3, WeekIs
<1>5. AddUnits(s, 1, "w") = AtDay(d + 7, 0)
  <2>1. 7 * 1 = 7
    OBVIOUS
  <2> QED
    BY <2>1, <1>2, DayStart, AddUnitsIs
<1>6. s <= m
  <2>1. CASE d = DayNumber(m)
    BY <2>1, <1>1, Midnight, DaysOrdered
  <2>2. CASE d < DayNumber(m)
    <3>1. s < AtDay(DayNumber(m), TimeOfDay(m))
      BY <2>2, <1>1, <1>2, Midnight, DaysOrdered
    <3> HIDE DEF s
    <3> QED
      BY <3>1, <1>1, <1>3
  <2> QED
    BY <2>1, <2>2, <1>1, <1>2
<1>7. m < AtDay(d + 7, 0)
  BY <1>1, <1>2, Midnight, DaysOrdered
<1> HIDE DEF s
<1> QED
  BY <1>2, <1>3, <1>4, <1>5, <1>6, <1>7, TruncateIs DEF Brackets

LEMMA HoursBracket == ASSUME NEW m \in Int PROVE Brackets(m, "h")
<1> DEFINE q == m \div TicksPerHour
           s == q * TicksPerHour
<1>1. q \in Int /\ m % TicksPerHour \in 0..(TicksPerHour - 1) /\ m = s + (m % TicksPerHour)
  BY Ticks, Divided
<1> HIDE DEF q
<1>2. s \in Int
  BY <1>1, Ticks
<1>3. s % TicksPerHour = 0
  <2>1. 0 \in 0..(TicksPerHour - 1)
    BY Ticks
  <2>2. (q * TicksPerHour + 0) % TicksPerHour = 0
    BY <1>1, <2>1, Ticks, DividedOnce
  <2>3. q * TicksPerHour + 0 = q * TicksPerHour
    BY <1>2
  <2> QED
    BY <2>2, <2>3
<1> HIDE DEF s
<1>4. Truncate(m, "h") = s /\ Truncate(s, "h") = s
  <2>1. m - (m % TicksPerHour) = s /\ s - 0 = s
    BY <1>1, <1>2, Ticks
  <2> QED
    BY <2>1, <1>3, TruncateIs
<1>5. AddUnits(s, 1, "h") = s + TicksPerHour
  <2>1. 1 * TicksPerHour = TicksPerHour
    BY Ticks
  <2> QED
    BY <2>1, AddUnitsIs
<1> QED
  BY <1>1, <1>2, <1>4, <1>5, Ticks DEF Brackets

\* Every unit but the business day rounds to the start of its period.
LEMMA RoundingSound ==
    ASSUME NEW m \in Int, NEW unit \in Units \ {"b"}
    PROVE  Brackets(m, unit)
<1>1. unit \in {"y", "Q", "M", "w", "d", "h"}
  BY DEF Units, CalendarUnits
<1> QED
  BY <1>1, YearsBracket, QuartersBracket, MonthsStartBracket, WeeksBracket, DaysBracket, HoursBracket

-----------------------------------------------------------------------------
(* Business days.  A walk over them is a recursive function, and that      *)
(* there is one follows, as all that is said of its values does, from the  *)
(* first place where it would fail.                                        *)

LEMMA LeastOf ==
    ASSUME NEW T \in SUBSET Nat, T # {}
    PROVE  \E m \in T : \A x \in T : m <= x
<1> DEFINE R == OpToRel(<, Nat)
<1>1. \E m \in T : \A y \in T : ~(<<y, m>> \in R)
  <2> HIDE DEF R
  <2>1. IsWellFoundedOn(R, Nat)
    BY NatLessThanWellFounded DEF R
  <2> QED
    BY <2>1, WFMin
<1>2. PICK m \in T : \A y \in T : ~(y < m)
  BY <1>1 DEF OpToRel
<1> QED
  BY <1>2

Working(day) == (day + 3) % 7 \in 1..5

LEMMA WorkingIs ==
    ASSUME NEW day \in Int, NEW time \in 0..(TicksPerDay - 1)
    PROVE  /\ IsBusinessDay(AtDay(day, time)) <=> Working(day)
           /\ \A n \in Int : IsBusinessDay(AddDate(AtDay(day, time), 0, n)) <=> Working(day + n)
           /\ \A n \in Int : AddDate(AtDay(day, time), 0, n) = AtDay(day + n, time)
<1>1. /\ AtDay(day, time) \in Int /\ DayNumber(AtDay(day, time)) = day
      /\ TimeOfDay(AtDay(day, time)) = time
  BY AtDayReads
<1>2. \A n \in Int : /\ DayNumber(AddDate(AtDay(day, time), 0, n)) = day + n
                     /\ AddDate(AtDay(day, time), 0, n) = AtDay(day + n, time)
  BY <1>1, DaysOn
<1> QED
  BY <1>1, <1>2 DEF IsBusinessDay, Weekday, Working

\* Of any three days in a row one is a business day.
LEMMA OneOfThree ==
    ASSUME NEW day \in Int, NEW s \in {1, -1}
    PROVE  Working(day + 1 * s) \/ Working(day + 2 * s) \/ Working(day + 3 * s)
<1>1. CASE s = 1
  BY <1>1 DEF Working
<1>2. CASE s = -1
  BY <1>2 DEF Working
<1> QED
  BY <1>1, <1>2

\* The next business day comes within three days, and none comes before it.
LEMMA NextIs ==
    ASSUME NEW day \in Int, NEW time \in 0..(TicksPerDay - 1), NEW s \in {1, -1}
    PROVE  \E k \in 1..3 : /\ NextBusinessDay(AtDay(day, time), s) = AtDay(day + k * s, time)
                           /\ Working(day + k * s)
                           /\ \A j \in 1..3 : j < k => ~Working(day + j * s)
<1> DEFINE K == {k \in 1..3 : IsBusinessDay(AddDate(AtDay(day, time), 0, k * s))}
<1>0. \A k \in 1..3 : k * s \in Int
  OBVIOUS
<1>1. \A k \in 1..3 : k \in K <=> Working(day + k * s)
  BY <1>0, WorkingIs
<1>2. \E k \in K : \A j \in K : k <= j
  <2>0. \A j \in K : j \in 1..3
    OBVIOUS
  <2> HIDE DEF K
  <2>1. 1 \in K \/ 2 \in K \/ 3 \in K
    <3>1. 1 \in 1..3 /\ 2 \in 1..3 /\ 3 \in 1..3
      OBVIOUS
    <3>2. /\ 1 \in K <=> Working(day + 1 * s)
          /\ 2 \in K <=> Working(day + 2 * s)
          /\ 3 \in K <=> Working(day + 3 * s)
      BY <1>1, <3>1, Zenon
    <3> QED
      BY <3>2, OneOfThree
  <2>2. CASE 1 \in K
    BY <2>0, <2>2
  <2>3. CASE 1 \notin K /\ 2 \in K
    BY <2>0, <2>3
  <2>4. CASE 1 \notin K /\ 2 \notin K
    BY <2>0, <2>1, <2>4
  <2> QED
    BY <2>2, <2>3, <2>4
<1> DEFINE k == Min(K)
<1>3. k \in K /\ \A j \in K : k <= j
  BY <1>2 DEF Min
<1>4. NextBusinessDay(AtDay(day, time), s) = AddDate(AtDay(day, time), 0, k * s)
  BY DEF NextBusinessDay
<1>5. k \in 1..3
  BY <1>3
<1>6. Working(day + k * s)
  BY <1>1, <1>3, <1>5
<1>7. \A j \in 1..3 : j < k => ~Working(day + j * s)
  <2> HIDE DEF K, k
  <2> QED
    BY <1>1, <1>3, <1>5
<1>8. AddDate(AtDay(day, time), 0, k * s) = AtDay(day + k * s, time)
  BY <1>0, <1>5, WorkingIs
<1> HIDE DEF k
<1> QED
  BY <1>4, <1>5, <1>6, <1>7, <1>8

\* From a business day to the next and back again.
LEMMA NextReturns ==
    ASSUME NEW day \in Int, NEW time \in 0..(TicksPerDay - 1), NEW s \in {1, -1}, Working(day)
    PROVE  NextBusinessDay(NextBusinessDay(AtDay(day, time), s), -s) = AtDay(day, time)
<1>1. PICK k \in 1..3 : /\ NextBusinessDay(AtDay(day, time), s) = AtDay(day + k * s, time)
                        /\ \A j \in 1..3 : j < k => ~Working(day + j * s)
  BY NextIs
<1>2. day + k * s \in Int /\ -s \in {1, -1}
  OBVIOUS
<1>3. PICK l \in 1..3 :
         /\ NextBusinessDay(AtDay(day + k * s, time), -s) = AtDay(day + k * s + l * (-s), time)
         /\ Working(day + k * s + l * (-s))
         /\ \A j \in 1..3 : j < l => ~Working(day + k * s + j * (-s))
  BY <1>2, NextIs
<1>4. ~(k < l)
  <2>1. day + k * s + k * (-s) = day
    BY s = 1 \/ s = -1
  <2> QED
    BY <1>3, <2>1
<1>5. ~(l < k)
  <2> SUFFICES ASSUME l < k PROVE FALSE
    OBVIOUS
  <2>1. k - l \in 1..3 /\ k - l < k
    OBVIOUS
  <2>2. day + k * s + l * (-s) = day + (k - l) * s
    BY s = 1 \/ s = -1
  <2> QED
    BY <1>1, <1>3, <2>1, <2>2
<1>6. k = l
  BY <1>4, <1>5
<1>7. day + k * s + l * (-s) = day
  BY <1>6, s = 1 \/ s = -1
<1> QED
  BY <1>1, <1>3, <1>7

\* The walk that AddBusinessDays makes, c business days long.
Walk(m, s, c) == CHOOSE f : f = [i \in 0..c |-> IF i = 0 THEN m ELSE NextBusinessDay(f[i - 1], s)]

IsWalk(f, m, s, c) == f = [i \in 0..c |-> IF i = 0 THEN m ELSE NextBusinessDay(f[i - 1], s)]

\* There is a walk of any length: one that is a step shorter can be carried on.
LEMMA WalkExists ==
    ASSUME NEW m, NEW s, NEW c \in Nat
    PROVE  \E f : IsWalk(f, m, s, c)
<1> DEFINE T == {d \in Nat : ~\E f : IsWalk(f, m, s, d)}
<1> SUFFICES ASSUME T # {} PROVE FALSE
  OBVIOUS
<1>1. PICK d \in T : \A x \in T : d <= x
  BY LeastOf
<1>2. d \in Nat /\ ~\E f : IsWalk(f, m, s, d)
  OBVIOUS
<1>3. d # 0
  <2>1. IsWalk([i \in 0..0 |-> m], m, s, 0)
    BY DEF IsWalk
  <2> QED
    BY <2>1, <1>2
<1>4. d - 1 \in Nat /\ d - 1 \notin T
  BY <1>1, <1>2, <1>3
<1>5. PICK f : IsWalk(f, m, s, d - 1)
  BY <1>4
<1> HIDE DEF T
<1> DEFINE g == [i \in 0..d |-> IF i = 0 THEN m ELSE NextBusinessDay(f[i - 1], s)]
<1>6. \A i \in 0..(d - 1) : g[i] = f[i]
  BY <1>2, <1>5 DEF IsWalk
<1>7. \A i \in 0..d : i # 0 => g[i - 1] = f[i - 1]
  BY <1>2, <1>6
<1>8. g = [i \in 0..d |-> IF i = 0 THEN m ELSE NextBusinessDay(g[i - 1], s)]
  <2>1. \A i \in 0..d : (IF i = 0 THEN m ELSE NextBusinessDay(f[i - 1], s))
                        = IF i = 0 THEN m ELSE NextBusinessDay(g[i - 1], s)
    <3> HIDE DEF g
    <3> QED
      BY <1>7
  <2> QED
    BY <2>1
<1>9. IsWalk(g, m, s, d)
  BY <1>8 DEF IsWalk
<1> QED
  BY <1>2, <1>9

LEMMA WalkIs ==
    ASSUME NEW m, NEW s, NEW c \in Nat
    PROVE  /\ Walk(m, s, c)[0] = m
           /\ \A i \in 1..c : Walk(m, s, c)[i] = NextBusinessDay(Walk(m, s, c)[i - 1], s)
<1> DEFINE w == Walk(m, s, c)
<1>1. w = [i \in 0..c |-> IF i = 0 THEN m ELSE NextBusinessDay(w[i - 1], s)]
  BY WalkExists DEF IsWalk, Walk
<1> HIDE DEF w
<1>2. w[0] = m
  BY <1>1
<1>3. ASSUME NEW i \in 1..c PROVE w[i] = NextBusinessDay(w[i - 1], s)
  BY <1>1
<1> QED
  BY <1>2, <1>3 DEF w

LEMMA AddBusinessDaysIs ==
    ASSUME NEW m, NEW n \in Int
    PROVE  /\ n >= 0 => AddBusinessDays(m, n) = Walk(m, 1, n)[n]
           /\ n < 0 => AddBusinessDays(m, n) = Walk(m, -1, -n)[-n]
<1>1. ASSUME n >= 0 PROVE AddBusinessDays(m, n) = Walk(m, 1, n)[n]
  <2>1. n * 1 = n /\ n * (IF n >= 0 THEN 1 ELSE -1) = n /\ (IF n >= 0 THEN 1 ELSE -1) = 1
    BY <1>1
  <2> QED
    BY <2>1 DEF AddBusinessDays, Walk
<1>2. ASSUME n < 0 PROVE AddBusinessDays(m, n) = Walk(m, -1, -n)[-n]
  <2>1. n * (IF n >= 0 THEN 1 ELSE -1) = -n /\ (IF n >= 0 THEN 1 ELSE -1) = -1
    BY <1>2
  <2> QED
    BY <2>1 DEF AddBusinessDays, Walk
<1> QED
  BY <1>1, <1>2

\* The working days among the e days that follow, counted from a day.
WorkingDays(day, s, e) == {k \in 1..e : Working(day + k * s)}

LEMMA WorkingDaysFinite ==
    ASSUME NEW day \in Int, NEW s \in {1, -1}, NEW e \in Nat
    PROVE  IsFiniteSet(WorkingDays(day, s, e)) /\ Cardinality(WorkingDays(day, s, e)) \in Nat
<1>1. IsFiniteSet(1..e)
  BY FS_Interval
<1>2. IsFiniteSet(WorkingDays(day, s, e))
  BY <1>1, FS_Subset DEF WorkingDays
<1> QED
  BY <1>2, FS_CardinalityType

\* From one business day to the next there is one more.
LEMMA OneMore ==
    ASSUME NEW day \in Int, NEW s \in {1, -1}, NEW e \in Nat, NEW k \in 1..3,
           Working(day + e * s + k * s), \A j \in 1..3 : j < k => ~Working(day + e * s + j * s)
    PROVE  Cardinality(WorkingDays(day, s, e + k)) = Cardinality(WorkingDays(day, s, e)) + 1
<1>1. \A j \in Int : day + e * s + j * s = day + (e + j) * s
  BY s = 1 \/ s = -1
<1>2. e + k \notin WorkingDays(day, s, e)
  BY DEF WorkingDays
<1>3. WorkingDays(day, s, e + k) = WorkingDays(day, s, e) \cup {e + k}
  <2>1. ASSUME NEW x \in WorkingDays(day, s, e + k), x > e PROVE x = e + k
    <3>1. x \in 1..(e + k) /\ Working(day + x * s)
      BY <2>1 DEF WorkingDays
    <3>2. x - e \in 1..3 /\ x - e <= k
      BY <2>1, <3>1
    <3>3. day + e * s + (x - e) * s = day + x * s
      <4>1. x - e \in Int /\ e + (x - e) = x
        BY <3>2, <3>1
      <4> QED
        BY <4>1, <1>1
    <3>4. ~(x - e < k)
      BY <3>1, <3>2, <3>3
    <3> QED
      BY <3>1, <3>2, <3>4
  <2>2. WorkingDays(day, s, e + k) \subseteq WorkingDays(day, s, e) \cup {e + k}
    <3> SUFFICES ASSUME NEW x \in WorkingDays(day, s, e + k) PROVE x \in WorkingDays(day, s, e) \cup {e + k}
      OBVIOUS
    <3>1. x \in 1..(e + k) /\ Working(day + x * s)
      BY DEF WorkingDays
    <3>2. CASE x > e
      BY <2>1, <3>2
    <3>3. CASE ~(x > e)
      BY <3>1, <3>3 DEF WorkingDays
    <3> QED
      BY <3>2, <3>3
  <2>3. WorkingDays(day, s, e) \subseteq WorkingDays(day, s, e + k)
    <3> SUFFICES ASSUME NEW x \in WorkingDays(day, s, e) PROVE x \in WorkingDays(day, s, e + k)
      OBVIOUS
    <3>1. x \in 1..e /\ Working(day + x * s)
      BY DEF WorkingDays
    <3>2. x \in 1..(e + k)
      BY <3>1
    <3> QED
      BY <3>1, <3>2 DEF WorkingDays
  <2>4. e + k \in WorkingDays(day, s, e + k)
    <3>1. Working(day + (e + k) * s)
      BY <1>1
    <3>2. e + k \in 1..(e + k)
      OBVIOUS
    <3> QED
      BY <3>1, <3>2 DEF WorkingDays
  <2> QED
    BY <2>2, <2>3, <2>4
<1> QED
  BY <1>2, <1>3, WorkingDaysFinite, FS_AddElement

\* Where the walk is after i business days: e days on, i of them working days, the last among them.
Counted(x, day, time, s, i, e) ==
    /\ x = AtDay(day + e * s, time) /\ Cardinality(WorkingDays(day, s, e)) = i
    /\ i # 0 => Working(day + e * s)
    /\ i = 0 => e = 0

LEMMA WalkCounts ==
    ASSUME NEW day \in Int, NEW time \in 0..(TicksPerDay - 1), NEW s \in {1, -1}, NEW c \in Nat
    PROVE  \A i \in 0..c : \E e \in Nat : Counted(Walk(AtDay(day, time), s, c)[i], day, time, s, i, e)
<1> DEFINE w == Walk(AtDay(day, time), s, c)
           T == {i \in 0..c : ~\E e \in Nat : Counted(w[i], day, time, s, i, e)}
<1> SUFFICES ASSUME T # {} PROVE FALSE
  OBVIOUS
<1>1. PICK i \in T : \A x \in T : i <= x
  <2>1. T \in SUBSET Nat
    OBVIOUS
  <2> QED
    BY <2>1, LeastOf
<1>2. i \in 0..c /\ ~\E e \in Nat : Counted(w[i], day, time, s, i, e)
  OBVIOUS
<1>3. w[0] = AtDay(day, time) /\ \A j \in 1..c : w[j] = NextBusinessDay(w[j - 1], s)
  BY WalkIs
<1> HIDE DEF w
<1>4. i # 0
  <2>1. day + 0 * s = day
    OBVIOUS
  <2>2. Cardinality(WorkingDays(day, s, 0)) = 0
    <3>1. WorkingDays(day, s, 0) = {}
      BY DEF WorkingDays
    <3> QED
      BY <3>1, FS_EmptySet
  <2>3. Counted(w[0], day, time, s, 0, 0)
    BY <1>3, <2>1, <2>2 DEF Counted
  <2> QED
    BY <1>2, <2>3
<1>5. i - 1 \in 0..c /\ i - 1 \notin T /\ i \in 1..c
  BY <1>1, <1>2, <1>4
<1>6. PICK e \in Nat : Counted(w[i - 1], day, time, s, i - 1, e)
  BY <1>5
<1> HIDE DEF T
<1>7. day + e * s \in Int
  OBVIOUS
<1>8. PICK k \in 1..3 :
        /\ NextBusinessDay(AtDay(day + e * s, time), s) = AtDay(day + e * s + k * s, time)
        /\ Working(day + e * s + k * s)
        /\ \A j \in 1..3 : j < k => ~Working(day + e * s + j * s)
  BY <1>7, NextIs
<1>9. day + e * s + k * s = day + (e + k) * s /\ e + k \in Nat /\ e + k # 0
  BY s = 1 \/ s = -1
<1>10. w[i] = AtDay(day + (e + k) * s, time)
  BY <1>3, <1>5, <1>6, <1>8, <1>9 DEF Counted
<1>11. Cardinality(WorkingDays(day, s, e + k)) = i
  <2>1. Cardinality(WorkingDays(day, s, e)) = i - 1
    BY <1>6 DEF Counted
  <2>2. Cardinality(WorkingDays(day, s, e + k)) = Cardinality(WorkingDays(day, s, e)) + 1
    BY <1>8, OneMore
  <2> QED
    BY <2>1, <2>2, <1>5
<1>12. Counted(w[i], day, time, s, i, e + k)
  BY <1>4, <1>8, <1>9, <1>10, <1>11 DEF Counted
<1> QED
  BY <1>2, <1>9, <1>12

\* Going back as many business days as one has come returns along the same way.
LEMMA WalkReturns ==
    ASSUME NEW day \in Int, NEW time \in 0..(TicksPerDay - 1), NEW s \in {1, -1}, NEW c \in Nat,
           Working(day)
    PROVE  Walk(Walk(AtDay(day, time), s, c)[c], -s, c)[c] = AtDay(day, time)
<1> DEFINE w == Walk(AtDay(day, time), s, c)
           b == Walk(w[c], -s, c)
           T == {i \in 0..c : b[i] # w[c - i]}
<1>1. w[0] = AtDay(day, time) /\ \A j \in 1..c : w[j] = NextBusinessDay(w[j - 1], s)
  BY WalkIs
<1>2. b[0] = w[c] /\ \A j \in 1..c : b[j] = NextBusinessDay(b[j - 1], -s)
  BY WalkIs
<1>3. \A i \in 0..c : \E e \in Nat : Counted(w[i], day, time, s, i, e)
  BY WalkCounts
<1> HIDE DEF w, b
<1>4. T = {}
  <2> SUFFICES ASSUME T # {} PROVE FALSE
    OBVIOUS
  <2>1. PICK i \in T : \A x \in T : i <= x
    <3>1. T \in SUBSET Nat
      OBVIOUS
    <3> QED
      BY <3>1, LeastOf
  <2>2. i \in 0..c /\ b[i] # w[c - i]
    OBVIOUS
  <2>3. i # 0
    BY <1>2, <2>2
  <2>4. i - 1 \in 0..c /\ i - 1 \notin T /\ i \in 1..c
    BY <2>1, <2>2, <2>3
  <2>5. b[i - 1] = w[c - (i - 1)]
    BY <2>4
  <2> HIDE DEF T
  <2>6. c - (i - 1) \in 1..c /\ c - (i - 1) - 1 = c - i /\ c - i \in 0..c
    BY <2>2, <2>4
  <2>7. b[i - 1] = NextBusinessDay(w[c - i], s)
    BY <1>1, <2>5, <2>6
  <2>8. b[i] = NextBusinessDay(NextBusinessDay(w[c - i], s), -s)
    BY <1>2, <2>4, <2>7
  <2>9. PICK e \in Nat : Counted(w[c - i], day, time, s, c - i, e)
    BY <1>3, <2>6
  <2>10. /\ w[c - i] = AtDay(day + e * s, time) /\ day + e * s \in Int
         /\ Working(day + e * s)
    <3>1. c - i = 0 => day + e * s = day
      BY <2>9 DEF Counted
    <3>2. day + e * s \in Int
      OBVIOUS
    <3> QED
      BY <2>9, <3>1, <3>2 DEF Counted
  <2> QED
    BY <2>2, <2>8, <2>10, NextReturns
<1>5. b[c] = w[c - c]
  <2>1. c \in 0..c
    OBVIOUS
  <2> QED
    BY <1>4, <2>1
<1>6. c - c = 0
  OBVIOUS
<1> QED
  BY <1>1, <1>5, <1>6 DEF w, b

\* What BusinessDaysCounted asks of c days in one direction.
LEMMA CountedOneWay ==
    ASSUME NEW m \in Int, NEW s \in {1, -1}, NEW c \in Nat \ {0}
    PROVE  LET there == Walk(m, s, c)[c]
               days == {k \in 1..(((there - m) * s) \div TicksPerDay) : IsBusinessDay(AddDate(m, 0, k * s))}
           IN  /\ there \in Int /\ IsBusinessDay(there) /\ Cardinality(days) = c
               /\ IsBusinessDay(m) => Walk(there, -s, c)[c] = m
<1> DEFINE day == DayNumber(m)
           time == TimeOfDay(m)
           there == Walk(m, s, c)[c]
<1>1. day \in Int /\ time \in 0..(TicksPerDay - 1) /\ m = AtDay(day, time)
  BY MomentReads
<1> HIDE DEF day, time
<1>2. PICK e \in Nat : Counted(there, day, time, s, c, e)
  <2>1. c \in 0..c
    OBVIOUS
  <2> QED
    BY <1>1, <2>1, WalkCounts
<1> HIDE DEF there
<1>3. day + e * s \in Int
  BY <1>1
<1>4. there = AtDay(day + e * s, time) /\ there \in Int /\ IsBusinessDay(there)
  BY <1>1, <1>2, <1>3, AtDayReads, WorkingIs DEF Counted
<1>5. ((there - m) * s) \div TicksPerDay = e
  <2>1. (there - m) * s = e * TicksPerDay
    <3>1. there - m = (day + e * s) * TicksPerDay - day * TicksPerDay
      BY <1>1, <1>3, <1>4, Ticks DEF AtDay
    <3>2. (day + e * s) * TicksPerDay - day * TicksPerDay = (e * s) * TicksPerDay
      BY <1>1, Ticks
    <3>3. ((e * s) * TicksPerDay) * s = e * TicksPerDay
      <4>1. CASE s = 1
        BY <4>1, Ticks
      <4>2. CASE s = -1
        BY <4>2, Ticks
      <4> QED
        BY <4>1, <4>2
    <3> QED
      BY <3>1, <3>2, <3>3
  <2>2. 0 \in 0..(TicksPerDay - 1) /\ e * TicksPerDay + 0 = e * TicksPerDay
    BY Ticks
  <2> QED
    BY <2>1, <2>2, Ticks, DividedOnce
<1>6. {k \in 1..e : IsBusinessDay(AddDate(m, 0, k * s))} = WorkingDays(day, s, e)
  <2>1. \A k \in 1..e : IsBusinessDay(AddDate(m, 0, k * s)) <=> Working(day + k * s)
    <3>1. \A k \in 1..e : k * s \in Int
      OBVIOUS
    <3> QED
      BY <1>1, <3>1, WorkingIs
  <2> QED
    BY <2>1 DEF WorkingDays
<1>7. Cardinality(WorkingDays(day, s, e)) = c
  BY <1>2 DEF Counted
<1>8. IsBusinessDay(m) => Walk(there, -s, c)[c] = m
  BY <1>1, WorkingIs, WalkReturns DEF there
<1> QED
  BY <1>4, <1>5, <1>6, <1>7, <1>8 DEF there

\* Business days are counted as BusinessDaysCounted says, from any moment.
LEMMA BusinessDaysSound ==
    ASSUME NEW m \in Int, NEW n \in Int, n # 0
    PROVE  LET there == AddBusinessDays(m, n)
               days == {k \in 1..((IF n > 0 THEN there - m ELSE m - there) \div TicksPerDay) :
                          IsBusinessDay(AddDate(m, 0, IF n > 0 THEN k ELSE -k))}
           IN  /\ there \in Int
               /\ IsBusinessDay(there) /\ Cardinality(days) = (IF n > 0 THEN n ELSE -n)
               /\ IsBusinessDay(m) => AddBusinessDays(there, -n) = m
<1> DEFINE there == AddBusinessDays(m, n)
           days == {k \in 1..((IF n > 0 THEN there - m ELSE m - there) \div TicksPerDay) :
                      IsBusinessDay(AddDate(m, 0, IF n > 0 THEN k ELSE -k))}
<1>1. ASSUME n > 0
      PROVE  /\ there \in Int /\ IsBusinessDay(there) /\ Cardinality(days) = n
             /\ IsBusinessDay(m) => AddBusinessDays(there, -n) = m
  <2> DEFINE w == Walk(m, 1, n)[n]
             way == {k \in 1..(((w - m) * 1) \div TicksPerDay) : IsBusinessDay(AddDate(m, 0, k * 1))}
  <2>1. there = w
    BY <1>1, AddBusinessDaysIs
  <2>2. /\ w \in Int /\ IsBusinessDay(w) /\ Cardinality(way) = n
        /\ IsBusinessDay(m) => Walk(w, -1, n)[n] = m
    BY <1>1, CountedOneWay
  <2>3. AddBusinessDays(w, -n) = Walk(w, -1, n)[n]
    <3>1. -n < 0 /\ -n \in Int /\ -(-n) = n
      BY <1>1
    <3> QED
      BY <3>1, AddBusinessDaysIs
  <2> HIDE DEF w, there
  <2>4. days = way
    <3>1. (w - m) * 1 = w - m /\ \A k \in Int : k * 1 = k
      BY <2>2
    <3> QED
      BY <1>1, <2>1, <3>1
  <2> QED
    BY <2>1, <2>2, <2>3, <2>4
<1>2. ASSUME n < 0
      PROVE  /\ there \in Int /\ IsBusinessDay(there) /\ Cardinality(days) = -n
             /\ IsBusinessDay(m) => AddBusinessDays(there, -n) = m
  <2> DEFINE w == Walk(m, -1, -n)[-n]
             way == {k \in 1..(((w - m) * (-1)) \div TicksPerDay) : IsBusinessDay(AddDate(m, 0, k * (-1)))}
  <2>0. -n \in Nat \ {0} /\ -n >= 0 /\ -n \in Int
    BY <1>2
  <2>5. \A r \in {1, -1} : r # 1 => -r = 1
    OBVIOUS
  <2>1. there = w
    BY <1>2, AddBusinessDaysIs
  <2>2. /\ w \in Int /\ IsBusinessDay(w) /\ Cardinality(way) = -n
        /\ IsBusinessDay(m) => Walk(w, 1, -n)[-n] = m
    <3>1. PICK r \in {1, -1} : r # 1 /\ r = -1 /\ -r = 1
      BY <2>5
    <3> QED
      BY <2>0, <3>1, CountedOneWay
  <2>3. AddBusinessDays(w, -n) = Walk(w, 1, -n)[-n]
    BY <2>0, AddBusinessDaysIs
  <2> HIDE DEF w, there
  <2>4. days = way
    <3>1. (w - m) * (-1) = m - w /\ \A k \in Int : k * (-1) = -k
      BY <2>2
    <3>2. days = {k \in 1..((m - w) \div TicksPerDay) : IsBusinessDay(AddDate(m, 0, -k))}
      BY <1>2, <2>1
    <3>3. way = {k \in 1..((m - w) \div TicksPerDay) : IsBusinessDay(AddDate(m, 0, -k))}
      BY <3>1
    <3> QED
      BY <3>2, <3>3
  <2> QED
    BY <2>1, <2>2, <2>3, <2>4
<1> HIDE DEF there
<1>3. CASE n > 0
  BY <1>1, <1>3 DEF there
<1>4. CASE n < 0
  BY <1>2, <1>4 DEF there
<1> QED
  BY <1>3, <1>4

\* What an adjustment gives is a moment.
LEMMA AddUnitsType ==
    ASSUME NEW m \in Int, NEW n \in Int, NEW unit \in Units
    PROVE  AddUnits(m, n, unit) \in Int
<1>1. ASSUME NEW months \in Int, NEW days \in Int PROVE AddDate(m, months, days) \in Int
  <2>1. /\ DayNumber(m) \in Int /\ TimeOfDay(m) \in 0..(TicksPerDay - 1)
        /\ MonthOf(m) \in Int /\ FirstDay(MonthOf(m)) \in Int
        /\ DayOf(m) = DayNumber(m) - FirstDay(MonthOf(m)) + 1
    BY MomentReads
  <2>2. /\ MonthOf(m) + months \in Int /\ DayOf(m) \in Int /\ DayOf(m) + days \in Int
        /\ TimeOfDay(m) \in Int
    BY <2>1
  <2>3. FirstDay(MonthOf(m) + months) + (DayOf(m) + days - 1) \in Int
    <3>1. FirstDay(MonthOf(m) + months) \in Int
      BY <2>2, FirstDayBounds
    <3> QED
      BY <2>2, <3>1
  <2>4. AddDate(m, months, days) = AtDay(FirstDay(MonthOf(m) + months) + (DayOf(m) + days - 1), TimeOfDay(m))
    <3>1. AddDate(m, months, days) = GoDate(MonthOf(m) + months, DayOf(m) + days, TimeOfDay(m))
      BY DEF AddDate
    <3> QED
      BY <2>2, <3>1, GoDateIs
  <2> QED
    BY <2>1, <2>3, <2>4, AtDayReads
<1>2. AddBusinessDays(m, n) \in Int
  <2>1. CASE n = 0
    BY <2>1, AddBusinessDaysIs, WalkIs
  <2>2. CASE n # 0
    BY <2>2, BusinessDaysSound
  <2> QED
    BY <2>1, <2>2
<1>3. m + n * TicksPerHour \in Int
  BY Ticks
<1>4. unit \in {"y", "Q", "M", "w", "d", "b", "h"} /\ 12 * n \in Int /\ 3 * n \in Int /\ 7 * n \in Int
  BY DEF Units, CalendarUnits
<1>5. /\ AddDate(m, 12 * n, 0) \in Int /\ AddDate(m, 3 * n, 0) \in Int /\ AddDate(m, n, 0) \in Int
      /\ AddDate(m, 0, 7 * n) \in Int /\ AddDate(m, 0, n) \in Int
  <2>1. 0 \in Int
    OBVIOUS
  <2> QED
    BY <1>1, <1>4, <2>1, Zenon
<1> QED
  BY <1>2, <1>3, <1>4, <1>5, AddUnitsIs

\* The moment is one, whatever adjustments are made.
MomentType == moment \in Int

LEMMA MomentInit == DateInit => MomentType
BY DateAssumption DEF DateInit, MomentType

LEMMA MomentStep == MomentType /\ [DateNext]_dateVars => MomentType'
<1> SUFFICES ASSUME moment \in Int, [DateNext]_dateVars PROVE moment' \in Int
  BY DEF MomentType
<1>1. CASE Add
  <2>1. PICK n \in Factors, unit \in Units : moment' = AddUnits(moment, n, unit)
    BY <1>1 DEF Add, Adjust
  <2>2. n \in Int
    BY DateAssumption
  <2> QED
    BY <2>1, <2>2, AddUnitsType
<1>2. CASE Round
  <2>1. PICK unit \in Units \ {"b"} : moment' = Truncate(moment, unit)
    BY <1>2 DEF Round, Adjust
  <2> QED
    BY <2>1, RoundingSound DEF Brackets
<1>3. CASE UNCHANGED dateVars
  BY <1>3 DEF dateVars
<1> QED
  BY <1>1, <1>2, <1>3 DEF DateNext

\* Whatever expression led to a moment, the calendar is sound there: each unit rounds
\* to the start of the period the moment lies in, and business days are counted one by
\* one, forth and back (_truncate_units and _add_units), in any zone and for any length
\* of the day.
THEOREM CalendarStaysSound ==
    DateSpec => []CalendarSound
<1>1. MomentType => CalendarSound
  <2> SUFFICES ASSUME moment \in Int PROVE CalendarSound
    BY DEF MomentType
  <2>1. RoundingBrackets
    BY RoundingSound DEF RoundingBrackets, Brackets
  <2>2. BusinessDaysCounted
    <3> SUFFICES ASSUME NEW n \in (-MaxBusinessDays..MaxBusinessDays) \ {0}
                 PROVE  LET there == AddBusinessDays(moment, n)
                            days == {k \in 1..((IF n > 0 THEN there - moment ELSE moment - there) \div TicksPerDay) :
                                       IsBusinessDay(AddDate(moment, 0, IF n > 0 THEN k ELSE -k))}
                        IN  /\ IsBusinessDay(there) /\ Cardinality(days) = (IF n > 0 THEN n ELSE -n)
                            /\ IsBusinessDay(moment) => AddBusinessDays(there, -n) = moment
      BY DEF BusinessDaysCounted
    <3>1. n \in Int /\ n # 0
      BY DateAssumption
    <3> QED
      BY <3>1, BusinessDaysSound
  <2> QED
    BY <2>1, <2>2 DEF CalendarSound
<1> QED
  BY <1>1, MomentInit, MomentStep, PTL DEF DateSpec

-----------------------------------------------------------------------------
(* Repeating tasks.                                                        *)

\* A date moved by whole intervals is the first of them after now.
LEMMA AdvanceIs ==
    ASSUME NEW now \in Nat, NEW d \in Int, NEW interval \in Nat \ {0}
    PROVE  LET r == AddRepeatInterval(now, d, interval)
           IN  /\ r \in Int /\ r > now /\ r > d
               /\ r <= LastMoment => r = FirstAfter(now, d, interval)
<1> DEFINE n == IF d >= now THEN 1 ELSE (now - d) \div interval + 1
           r == AddRepeatInterval(now, d, interval)
           q == (now - d) \div interval
           S == {m \in {d + j * interval : j \in 1..((LastMoment - d) \div interval + 1)} : m > now}
<1>1. q \in Int /\ q * interval <= now - d /\ now - d < q * interval + interval
  <2>1. /\ q \in Int /\ (now - d) % interval \in 0..(interval - 1)
        /\ now - d = q * interval + ((now - d) % interval)
    <3>1. now - d \in Int
      OBVIOUS
    <3> QED
      BY <3>1, Divided
  <2>2. q * interval \in Int
    BY <2>1
  <2> HIDE DEF q
  <2> QED
    BY <2>1, <2>2
<1> HIDE DEF q
<1>2. d < now => q \in Nat
  <2> SUFFICES ASSUME d < now, q < 0 PROVE FALSE
    BY <1>1
  <2>1. q * interval + interval <= 0 * interval
    BY <1>1, WholesOrdered
  <2> QED
    BY <1>1, <2>1
<1>3. n \in Nat /\ n >= 1 /\ r = d + n * interval
  <2>1. CASE d >= now
    BY <2>1 DEF AddRepeatInterval
  <2>2. CASE d < now
    BY <1>2, <2>2 DEF AddRepeatInterval, q
  <2> QED
    BY <2>1, <2>2
<1>4. \A j \in Nat : j >= 1 /\ d + j * interval > now => n <= j
  <2> SUFFICES ASSUME NEW j \in Nat, j >= 1, d + j * interval > now, j < n PROVE FALSE
    BY <1>3
  <2>1. CASE d >= now
    BY <2>1
  <2>2. CASE d < now
    <3>1. n = q + 1
      BY <2>2 DEF q
    <3>2. j <= q
      BY <1>1, <3>1
    <3>3. j * interval <= q * interval
      <4>1. j < q => j * interval + interval <= q * interval
        BY <1>1, WholesOrdered
      <4>2. j * interval \in Int /\ q * interval \in Int
        BY <1>1
      <4> QED
        BY <1>1, <3>2, <4>1, <4>2
    <3>4. j * interval \in Int /\ q * interval \in Int
      BY <1>1
    <3> QED
      BY <1>1, <3>3, <3>4
  <2> QED
    BY <2>1, <2>2
<1>5. n * interval \in Int /\ n * interval >= interval
  BY <1>3, Wholes
<1>6. r \in Int /\ r > d
  BY <1>3, <1>5
<1>7. r > now
  <2>1. CASE d >= now
    BY <1>6, <2>1
  <2>2. CASE d < now
    <3>1. n = q + 1 /\ n * interval = q * interval + interval
      <4>1. n = q + 1
        BY <2>2 DEF q
      <4> QED
        BY <1>1, <4>1
    <3>2. q * interval \in Int
      BY <1>1
    <3> QED
      BY <1>1, <1>3, <3>1, <3>2
  <2> QED
    BY <2>1, <2>2
<1> HIDE DEF n, r
<1>8. ASSUME r <= LastMoment PROVE r = Min(S)
  <2>1. n <= (LastMoment - d) \div interval
    <3> DEFINE p == (LastMoment - d) \div interval
    <3>1. /\ p \in Int /\ (LastMoment - d) % interval \in 0..(interval - 1) /\ LastMoment - d \in Int
          /\ LastMoment - d = p * interval + ((LastMoment - d) % interval)
      <4>1. LastMoment - d \in Int
        BY RepeatAssumption
      <4> QED
        BY <4>1, Divided
    <3>2. p * interval \in Int
      BY <3>1
    <3> HIDE DEF p
    <3> SUFFICES ASSUME p < n PROVE FALSE
      BY <1>3, <3>1 DEF p
    <3>3. p * interval + interval <= n * interval
      BY <1>3, <3>1, WholesOrdered
    <3>4. n * interval <= LastMoment - d
      BY <1>3, <1>5, <1>8, RepeatAssumption
    <3> QED
      BY <1>5, <3>1, <3>2, <3>3, <3>4
  <2>2. r \in S
    <3>1. (LastMoment - d) \div interval \in Int
      BY RepeatAssumption
    <3>2. n \in 1..((LastMoment - d) \div interval + 1)
      BY <1>3, <2>1, <3>1
    <3> QED
      BY <1>3, <1>7, <3>2
  <2>3. \A m \in S : r <= m
    <3> SUFFICES ASSUME NEW m \in S PROVE r <= m
      OBVIOUS
    <3>1. PICK j \in 1..((LastMoment - d) \div interval + 1) : m = d + j * interval /\ m > now
      OBVIOUS
    <3>2. (LastMoment - d) \div interval \in Int
      BY RepeatAssumption
    <3>3. j \in Nat /\ j >= 1
      BY <3>1, <3>2
    <3>4. n <= j
      BY <1>4, <3>1, <3>3
    <3>5. n * interval <= j * interval
      <4>1. n < j => n * interval + interval <= j * interval
        BY <1>3, <3>3, WholesOrdered
      <4>2. j * interval \in Int
        BY <3>3
      <4> QED
        BY <1>3, <1>5, <3>3, <3>4, <4>1, <4>2
    <3>6. j * interval \in Int
      BY <3>3
    <3> QED
      BY <1>3, <1>5, <3>1, <3>5, <3>6
  <2>4. \A m \in S : m \in Int
    <3> SUFFICES ASSUME NEW m \in S PROVE m \in Int
      OBVIOUS
    <3>1. PICK j \in 1..((LastMoment - d) \div interval + 1) : m = d + j * interval
      OBVIOUS
    <3>2. (LastMoment - d) \div interval \in Int
      BY RepeatAssumption
    <3> QED
      BY <3>1, <3>2
  <2> DEFINE least == Min(S)
  <2>5. least \in S /\ \A m \in S : least <= m
    BY <2>2, <2>3 DEF Min
  <2> HIDE DEF least, S
  <2>6. least <= r /\ r <= least /\ least \in Int
    BY <2>2, <2>3, <2>4, <2>5
  <2> QED
    BY <1>6, <2>6 DEF least
<1>9. FirstAfter(now, d, interval) = Min(S)
  BY DEF FirstAfter
<1> QED
  BY <1>6, <1>7, <1>8, <1>9 DEF r

\* The calendar of UTC is the caller's with no distance.
UTCDay(day, time) == day * TicksPerDay + time

LEMMA UTCIs ==
    /\ \A k \in Int : UTC!FirstDay(k) = FirstDay(k)
    /\ \A day \in Int : UTC!MonthHolding(day) = MonthHolding(day)
    /\ UTC!TicksPerDay = TicksPerDay
<1>1. \A k : UTC!FirstDay(k) = FirstDay(k)
  BY DEF UTC!FirstDay, FirstDay
<1>2. \A S : UTC!Max(S) = Max(S)
  BY DEF UTC!Max, Max
<1>3. ASSUME NEW day PROVE UTC!MonthHolding(day) = MonthHolding(day)
  <2> DEFINE near == (day * 1600) \div 48699
             S == {k \in (near - 1)..(near + 1) : FirstDay(k) <= day}
             U == {k \in (near - 1)..(near + 1) : UTC!FirstDay(k) <= day}
  <2>1. U = S
    <3> HIDE DEF near
    <3> QED
      BY <1>1, Zenon
  <2>2. UTC!MonthHolding(day) = UTC!Max(U)
    BY DEF UTC!MonthHolding
  <2>3. MonthHolding(day) = Max(S)
    BY DEF MonthHolding
  <2> HIDE DEF S, U
  <2> QED
    BY <1>2, <2>1, <2>2, <2>3
<1>4. UTC!TicksPerDay = TicksPerDay
  BY DEF UTC!TicksPerDay, TicksPerDay
<1> QED
  BY <1>1, <1>3, <1>4

LEMMA UTCReads ==
    ASSUME NEW day \in Int, NEW time \in 0..(TicksPerDay - 1)
    PROVE  /\ UTCDay(day, time) \in Int
           /\ UTC!DayNumber(UTCDay(day, time)) = day /\ UTC!TimeOfDay(UTCDay(day, time)) = time
           /\ UTC!MonthOf(UTCDay(day, time)) = MonthHolding(day)
           /\ UTC!DayOf(UTCDay(day, time)) = day - FirstDay(MonthHolding(day)) + 1
<1>1. UTCDay(day, time) \in Int /\ UTC!Local(UTCDay(day, time)) = day * TicksPerDay + time
  BY Ticks DEF UTCDay, UTC!Local
<1>2. /\ (day * TicksPerDay + time) \div TicksPerDay = day
      /\ (day * TicksPerDay + time) % TicksPerDay = time
  BY Ticks, DividedOnce
<1>3. UTC!DayNumber(UTCDay(day, time)) = day /\ UTC!TimeOfDay(UTCDay(day, time)) = time
  BY <1>1, <1>2, UTCIs DEF UTC!DayNumber, UTC!TimeOfDay
<1>4. UTC!MonthOf(UTCDay(day, time)) = MonthHolding(day) /\ MonthHolding(day) \in Int
  BY <1>3, UTCIs, MonthHolds DEF UTC!MonthOf
<1>5. UTC!DayOf(UTCDay(day, time)) = day - FirstDay(MonthHolding(day)) + 1
  BY <1>3, <1>4, UTCIs DEF UTC!DayOf
<1> QED
  BY <1>1, <1>3, <1>4, <1>5

LEMMA UTCGoDate ==
    ASSUME NEW k \in Int, NEW day \in Int, NEW time \in Int
    PROVE  UTC!GoDate(k, day, time) = UTCDay(FirstDay(k) + (day - 1), time)
<1>1. UTC!FirstDay(k) = FirstDay(k) /\ UTC!TicksPerDay = TicksPerDay /\ FirstDay(k) \in Int
  BY UTCIs, FirstDayBounds
<1>2. FirstDay(k) + day - 1 = FirstDay(k) + (day - 1) /\ FirstDay(k) + day - 1 \in Int
  BY <1>1
<1>3. UTC!GoDate(k, day, time) = (FirstDay(k) + day - 1) * TicksPerDay + time - 0
  BY <1>1 DEF UTC!GoDate
<1>4. \A q \in Int : q * TicksPerDay + time - 0 = q * TicksPerDay + time
  BY Ticks
<1> QED
  BY <1>2, <1>3, <1>4 DEF UTCDay

\* Every date is a day and a time of UTC.
LEMMA UTCMoment ==
    ASSUME NEW d \in Int
    PROVE  \E day \in Int : \E time \in 0..(TicksPerDay - 1) : d = UTCDay(day, time)
<1>1. /\ d \div TicksPerDay \in Int /\ d % TicksPerDay \in 0..(TicksPerDay - 1)
      /\ d = (d \div TicksPerDay) * TicksPerDay + (d % TicksPerDay)
  BY Ticks, Divided
<1> QED
  BY <1>1 DEF UTCDay

\* A date moved by a month lies in the next month, at its time of day, on its
\* day or, where the month is too short for that, on the month's last.
LEMMA MonthOn ==
    ASSUME NEW d \in Int
    PROVE  AddOneMonth(d) \in Int /\ AddOneMonth(d) > d /\ MonthLater(d, AddOneMonth(d))
<1>1. PICK day, time : day \in Int /\ time \in 0..(TicksPerDay - 1) /\ d = UTCDay(day, time)
  BY UTCMoment
<1> DEFINE k == MonthHolding(day)
           of == day - FirstDay(k) + 1
           length == FirstDay(k + 2) - FirstDay(k + 1)
           to == IF of > length THEN length ELSE of
           e == UTCDay(FirstDay(k + 1) + to - 1, time)
<1>2. /\ UTC!DayNumber(d) = day /\ UTC!TimeOfDay(d) = time
      /\ UTC!MonthOf(d) = k /\ UTC!DayOf(d) = of
  BY <1>1, UTCReads
<1>3. k \in Int /\ FirstDay(k) <= day /\ day < FirstDay(k + 1)
  BY <1>1, MonthHolds
<1> HIDE DEF k
<1>4. /\ FirstDay(k) \in Int /\ FirstDay(k + 1) \in Int /\ FirstDay(k + 2) \in Int
      /\ length \in 28..31
  <2>1. FirstDay(k + 1 + 1) \in Int /\ FirstDay(k + 1 + 1) - FirstDay(k + 1) \in 28..31
    <3>1. k + 1 \in Int /\ k + 1 + 1 \in Int
      BY <1>3
    <3> QED
      BY <3>1, FirstDayBounds
  <2>2. k + 1 + 1 = k + 2 /\ k + 1 \in Int
    BY <1>3
  <2> QED
    BY <1>3, <2>1, <2>2, FirstDayBounds
<1>5. of \in Int /\ of >= 1
  BY <1>1, <1>3, <1>4
<1>6. to \in 1..length /\ (to = of \/ (to < of /\ to = length))
  <2> HIDE DEF length, of
  <2> QED
    BY <1>4, <1>5
<1>17. to \in Int
  <2> HIDE DEF length, of, to
  <2> QED
    BY <1>4, <1>6
<1>7. FirstDay(k + 1) + to - 1 \in Int /\ FirstDay(k + 1) + to \in Int
  <2> HIDE DEF length, of, to
  <2> QED
    BY <1>4, <1>6
<1>8. FirstDay(k + 1) <= FirstDay(k + 1) + to - 1 /\ FirstDay(k + 1) + to - 1 < FirstDay(k + 2)
  <2>1. FirstDay(k + 2) = FirstDay(k + 1) + length
    BY <1>4
  <2> HIDE DEF length, of, to
  <2> QED
    BY <2>1, <1>4, <1>6
<1>9. MonthHolding(FirstDay(k + 1) + to - 1) = k + 1
  <2>1. k + 1 \in Int /\ k + 1 + 1 = k + 2
    BY <1>3
  <2> HIDE DEF to
  <2> QED
    BY <2>1, <1>7, <1>8, MonthIs
<1>10. AddOneMonth(d) = e
  <2>1. DaysInMonth(k + 1) = length
    <3>1. k + 1 + 1 = k + 2 /\ k + 1 \in Int /\ k + 2 \in Int
      BY <1>3
    <3> QED
      BY <3>1, UTCIs DEF DaysInMonth
  <2>2. AddOneMonth(d) = UTC!GoDate(k + 1, to, time)
    BY <1>2, <2>1 DEF AddOneMonth
  <2>3. UTC!GoDate(k + 1, to, time) = UTCDay(FirstDay(k + 1) + (to - 1), time)
    <3>1. k + 1 \in Int /\ time \in Int
      BY <1>1, <1>3
    <3> HIDE DEF to
    <3> QED
      BY <1>17, <3>1, UTCGoDate
  <2>4. FirstDay(k + 1) + (to - 1) = FirstDay(k + 1) + to - 1
    <3> HIDE DEF to
    <3> QED
      BY <1>4, <1>17
  <2> QED
    BY <2>2, <2>3, <2>4
<1>11. /\ e \in Int /\ UTC!TimeOfDay(e) = time /\ UTC!MonthOf(e) = k + 1
       /\ UTC!DayOf(e) = to
  <2> DEFINE x == FirstDay(k + 1) + to - 1
  <2>2. x \in Int /\ MonthHolding(x) = k + 1 /\ x - FirstDay(k + 1) + 1 = to
    <3> HIDE DEF to
    <3>1. x \in Int
      BY <1>7
    <3>2. MonthHolding(x) = k + 1
      BY <1>9
    <3>3. x - FirstDay(k + 1) + 1 = to
      BY <1>4, <1>7, <1>17
    <3> QED
      BY <3>1, <3>2, <3>3
  <2> HIDE DEF x
  <2>3. /\ UTCDay(x, time) \in Int /\ UTC!TimeOfDay(UTCDay(x, time)) = time
        /\ UTC!MonthOf(UTCDay(x, time)) = k + 1 /\ UTC!DayOf(UTCDay(x, time)) = to
    BY <1>1, <2>2, UTCReads
  <2> QED
    BY <2>3 DEF x
<1>12. to < of => UTC!MonthOf(e + TicksPerDay) = k + 2
  <2> SUFFICES ASSUME to < of PROVE UTC!MonthOf(e + TicksPerDay) = k + 2
    OBVIOUS
  <2>1. FirstDay(k + 1) + to - 1 + 1 = FirstDay(k + 2)
    <3>1. to = length
      BY <1>6
    <3> HIDE DEF to
    <3> QED
      BY <1>4, <3>1
  <2>2. e + TicksPerDay = UTCDay(FirstDay(k + 1) + to - 1 + 1, time)
    <3> HIDE DEF to
    <3> QED
      BY <1>1, <1>7, Ticks DEF UTCDay
  <2>3. MonthHolding(FirstDay(k + 2)) = k + 2
    <3>1. k + 2 \in Int /\ FirstDay(k + 2) < FirstDay(k + 2 + 1)
      BY <1>3, FirstDaysRise
    <3> QED
      BY <1>4, <3>1, MonthIs
  <2> HIDE DEF to, e
  <2> QED
    BY <1>1, <1>4, <2>1, <2>2, <2>3, UTCReads
<1>13. e > d
  <2>1. day < FirstDay(k + 1) + to - 1 \/ day = FirstDay(k + 1) + to - 1 \/ FirstDay(k + 1) + to - 1 < day
    <3> HIDE DEF to
    <3> QED
      BY <1>1, <1>7
  <2>2. day < FirstDay(k + 1) + to - 1
    <3> HIDE DEF to
    <3> QED
      BY <1>1, <1>3, <1>4, <1>7, <1>8
  <2>3. day * TicksPerDay + TicksPerDay <= (FirstDay(k + 1) + to - 1) * TicksPerDay
    <3> HIDE DEF to
    <3> QED
      BY <1>1, <1>7, <2>2, Ticks, WholesOrdered
  <2>4. day * TicksPerDay \in Int /\ (FirstDay(k + 1) + to - 1) * TicksPerDay \in Int
    <3> HIDE DEF to
    <3> QED
      BY <1>1, <1>7, Ticks
  <2> HIDE DEF to
  <2> QED
    BY <1>1, <2>3, <2>4, Ticks DEF UTCDay
<1> HIDE DEF e, to, of
<1>14. UTC!MonthOf(e) - UTC!MonthOf(d) = 1
  BY <1>2, <1>3, <1>11
<1>15. to < of => UTC!MonthOf(e + TicksPerDay) - UTC!MonthOf(d) = 2
  BY <1>2, <1>3, <1>12
<1>16. to = of \/ to < of
  BY <1>6
<1> QED
  BY <1>2, <1>10, <1>11, <1>13, <1>14, <1>15, <1>16 DEF MonthLater

\* What a dated task is: dates from the zero time on, a number of ticks and a mode.
DateFields == Dated \cup {"repeat_after", "repeat_mode", "done"}

DatesType ==
    /\ DOMAIN task = DateFields /\ \A k \in Dated : task[k] \in Nat
    /\ task.repeat_after \in Nat /\ task.repeat_mode \in Modes /\ task.done \in BOOLEAN
    /\ clock \in Nat \ {0}

\* The three dates are what they are called, and none is another field.
LEMMA FieldsApart ==
    /\ {"repeat_after", "repeat_mode", "done"} \cap Dated = {} /\ Dated \subseteq DateFields
    /\ {"repeat_after", "repeat_mode", "done"} \subseteq DateFields
    /\ Dated = {"due_date", "start_date", "end_date"}
BY DEF Dated, DateFields

\* reschedule, one repeat mode at a time.
LEMMA RescheduleIs ==
    ASSUME NEW old, NEW dates, NEW now
    PROVE  /\ old.repeat_mode = "month" => Reschedule(old, dates, now) = NextMonth(dates)
           /\ old.repeat_mode = "from_current_date" /\ old.repeat_after > 0 /\ old.repeat_after # 0 =>
                Reschedule(old, dates, now) = FromNow(dates, now, old.repeat_after)
           /\ old.repeat_mode = "default" /\ old.repeat_after > 0 /\ old.repeat_after # 0 =>
                Reschedule(old, dates, now) =
                  [k \in Dated |-> IF dates[k] = ZeroTime THEN ZeroTime
                                   ELSE AddRepeatInterval(now, dates[k], old.repeat_after)]
           /\ old.repeat_mode # "month" /\ old.repeat_after = 0 /\ ~(old.repeat_after > 0) =>
                Reschedule(old, dates, now) = dates
<1>1. "month" # "from_current_date" /\ "month" # "default" /\ "default" # "from_current_date"
  OBVIOUS
<1> QED
  BY <1>1, Zenon DEF Reschedule, EachSet

\* The default mode: each date by itself, to the first of its intervals after now.
LEMMA DefaultDates ==
    ASSUME NEW old, NEW dates \in [Dated -> Nat], NEW now \in Nat \ {0},
           old.repeat_mode = "default", old.repeat_after \in Nat, old.repeat_after > 0
    PROVE  LET new == Reschedule(old, dates, now)
           IN  /\ new \in [Dated -> Int]
               /\ \A k \in Dated : dates[k] = ZeroTime => new[k] = ZeroTime
               /\ \A k \in Dated : dates[k] # ZeroTime /\ new[k] <= LastMoment =>
                                     new[k] = FirstAfter(now, dates[k], old.repeat_after)
<1> DEFINE new == Reschedule(old, dates, now)
           after == old.repeat_after
<1>1. after \in Nat \ {0}
  OBVIOUS
<1>2. new = [k \in Dated |-> IF dates[k] = ZeroTime THEN ZeroTime ELSE AddRepeatInterval(now, dates[k], after)]
  BY <1>1, RescheduleIs
<1> HIDE DEF new, after
<1>3. ASSUME NEW k \in Dated
      PROVE  /\ new[k] \in Int /\ (dates[k] = ZeroTime => new[k] = ZeroTime)
             /\ dates[k] # ZeroTime /\ new[k] <= LastMoment => new[k] = FirstAfter(now, dates[k], after)
  <2>1. dates[k] \in Int /\ now \in Nat
    OBVIOUS
  <2>2. /\ AddRepeatInterval(now, dates[k], after) \in Int
        /\ AddRepeatInterval(now, dates[k], after) <= LastMoment =>
             AddRepeatInterval(now, dates[k], after) = FirstAfter(now, dates[k], after)
    BY <1>1, <2>1, AdvanceIs
  <2>3. new[k] = IF dates[k] = ZeroTime THEN ZeroTime ELSE AddRepeatInterval(now, dates[k], after)
    BY <1>2
  <2>4. ZeroTime \in Int
    BY DEF ZeroTime
  <2> QED
    BY <2>2, <2>3, <2>4
<1>4. new \in [Dated -> Int]
  <2>1. new = [k \in Dated |-> new[k]]
    BY <1>2
  <2> QED
    BY <1>3, <2>1
<1> QED
  BY <1>3, <1>4 DEF new, after

\* By the month: each date a month on, but the end keeps its distance from the start.
LEMMA MonthDates ==
    ASSUME NEW old, NEW dates \in [Dated -> Nat], NEW now, old.repeat_mode = "month"
    PROVE  LET new == Reschedule(old, dates, now)
           IN  /\ new \in [Dated -> Int]
               /\ \A k \in Dated : dates[k] = ZeroTime => new[k] = ZeroTime
               /\ \A k \in Dated \ {"end_date"} : dates[k] # ZeroTime => MonthLater(dates[k], new[k])
               /\ dates["start_date"] # ZeroTime /\ dates["end_date"] # ZeroTime =>
                    new["end_date"] - new["start_date"] = dates["end_date"] - dates["start_date"]
<1> DEFINE new == Reschedule(old, dates, now)
           moved == [k \in Dated |-> IF dates[k] = ZeroTime THEN ZeroTime ELSE AddOneMonth(dates[k])]
           both == dates["start_date"] # ZeroTime /\ dates["end_date"] # ZeroTime
           end == moved["start_date"] + dates["end_date"] - dates["start_date"]
<1>1. new = IF ~both THEN moved ELSE [moved EXCEPT !["end_date"] = end]
  BY RescheduleIs DEF NextMonth, EachSet
<1>2. ASSUME NEW k \in Dated
      PROVE  /\ moved[k] \in Int /\ (dates[k] = ZeroTime => moved[k] = ZeroTime)
             /\ dates[k] # ZeroTime => MonthLater(dates[k], moved[k])
  <2>1. dates[k] \in Int /\ ZeroTime \in Int
    BY DEF ZeroTime
  <2>2. AddOneMonth(dates[k]) \in Int /\ MonthLater(dates[k], AddOneMonth(dates[k]))
    BY <2>1, MonthOn
  <2> QED
    BY <2>1, <2>2
<1>3. moved \in [Dated -> Int]
  <2>1. moved = [k \in Dated |-> moved[k]]
    OBVIOUS
  <2> HIDE DEF moved
  <2> QED
    BY <1>2, <2>1
<1> HIDE DEF new, moved
<1>4. /\ {"start_date", "end_date"} \subseteq Dated /\ "start_date" # "end_date"
      /\ dates["start_date"] \in Int /\ dates["end_date"] \in Int
      /\ moved["start_date"] \in Int /\ end \in Int
  <2>1. "start_date" \in Dated /\ "end_date" \in Dated
    BY DEF Dated
  <2> QED
    BY <1>3, <2>1
<1>5. CASE ~both
  <2>1. new = moved
    BY <1>1, <1>5
  <2> QED
    BY <1>2, <1>3, <1>5, <2>1 DEF new
<1>6. CASE both
  <2> HIDE DEF end
  <2>1. new = [moved EXCEPT !["end_date"] = end]
    BY <1>1, <1>6
  <2>2. new \in [Dated -> Int]
    BY <1>3, <1>4, <2>1
  <2>3. new["end_date"] = end /\ \A k \in Dated \ {"end_date"} : new[k] = moved[k]
    BY <1>3, <1>4, <2>1
  <2>4. \A k \in Dated : dates[k] = ZeroTime => new[k] = ZeroTime
    BY <1>2, <1>6, <2>3
  <2>5. \A k \in Dated \ {"end_date"} : dates[k] # ZeroTime => MonthLater(dates[k], new[k])
    BY <1>2, <2>3
  <2>6. new["end_date"] - new["start_date"] = dates["end_date"] - dates["start_date"]
    <3>1. new["start_date"] = moved["start_date"] /\ new["end_date"] = end
      BY <1>4, <2>3
    <3> QED
      BY <1>4, <3>1 DEF end
  <2> QED
    BY <2>2, <2>4, <2>5, <2>6 DEF new
<1> QED
  BY <1>5, <1>6

\* From the current date: one date lies an interval from now, and the others keep their distance.
LEMMA FromNowDates ==
    ASSUME NEW old, NEW dates \in [Dated -> Nat], NEW now \in Nat \ {0},
           old.repeat_mode = "from_current_date", old.repeat_after \in Nat, old.repeat_after > 0
    PROVE  LET new == Reschedule(old, dates, now)
               set == {k \in Dated : dates[k] # ZeroTime}
           IN  /\ new \in [Dated -> Int]
               /\ \A k \in Dated : dates[k] = ZeroTime => new[k] = ZeroTime
               /\ set # {} => \E k \in set : new[k] = now + old.repeat_after
               /\ \A k, l \in set : new[k] - new[l] = dates[k] - dates[l]
<1> DEFINE new == Reschedule(old, dates, now)
           after == old.repeat_after
           set == {k \in Dated : dates[k] # ZeroTime}
           first == IF dates["due_date"] # ZeroTime THEN dates["due_date"]
                    ELSE IF dates["start_date"] # ZeroTime THEN dates["start_date"] ELSE dates["end_date"]
<1>1. after \in Nat \ {0}
  OBVIOUS
<1>2. new = [k \in Dated |-> IF dates[k] = ZeroTime THEN ZeroTime ELSE now + after + (dates[k] - first)]
  BY <1>1, RescheduleIs DEF FromNow, EachSet
<1>3. Dated = {"due_date", "start_date", "end_date"} /\ \A k \in Dated : dates[k] \in Int
  BY DEF Dated
<1>4. first \in Int /\ (set # {} => \E k \in set : dates[k] = first)
  <2>1. \A k \in set : k = "due_date" \/ k = "start_date" \/ k = "end_date"
    BY <1>3
  <2>2. "due_date" \in Dated /\ "start_date" \in Dated /\ "end_date" \in Dated
    BY <1>3
  <2>3. CASE dates["due_date"] # ZeroTime
    BY <1>3, <2>2, <2>3
  <2>4. CASE dates["due_date"] = ZeroTime /\ dates["start_date"] # ZeroTime
    BY <1>3, <2>2, <2>4
  <2>5. CASE dates["due_date"] = ZeroTime /\ dates["start_date"] = ZeroTime
    BY <1>3, <2>1, <2>2, <2>5
  <2> QED
    BY <2>3, <2>4, <2>5
<1> HIDE DEF new, after, first
<1>5. ASSUME NEW k \in Dated
      PROVE  /\ new[k] \in Int /\ (dates[k] = ZeroTime => new[k] = ZeroTime)
             /\ dates[k] # ZeroTime => new[k] = now + after + (dates[k] - first)
  <2>1. new[k] = IF dates[k] = ZeroTime THEN ZeroTime ELSE now + after + (dates[k] - first)
    BY <1>2
  <2>2. ZeroTime \in Int /\ now + after + (dates[k] - first) \in Int
    BY <1>1, <1>3, <1>4 DEF ZeroTime
  <2> QED
    BY <2>1, <2>2
<1>6. new \in [Dated -> Int]
  <2>1. new = [k \in Dated |-> new[k]]
    BY <1>2
  <2> QED
    BY <1>5, <2>1
<1>7. set # {} => \E k \in set : new[k] = now + after
  <2> SUFFICES ASSUME set # {} PROVE \E k \in set : new[k] = now + after
    OBVIOUS
  <2>1. PICK k \in set : dates[k] = first
    BY <1>4
  <2>2. k \in Dated /\ dates[k] # ZeroTime
    OBVIOUS
  <2>3. new[k] = now + after + (dates[k] - first)
    BY <1>5, <2>2
  <2>4. new[k] = now + after
    BY <1>1, <1>4, <2>1, <2>3
  <2> QED
    BY <2>4
<1>8. ASSUME NEW k \in set, NEW l \in set PROVE new[k] - new[l] = dates[k] - dates[l]
  <2>1. k \in Dated /\ dates[k] # ZeroTime /\ l \in Dated /\ dates[l] # ZeroTime
    OBVIOUS
  <2>2. new[k] = now + after + (dates[k] - first) /\ new[l] = now + after + (dates[l] - first)
    BY <1>5, <2>1
  <2>3. dates[k] \in Int /\ dates[l] \in Int
    BY <1>3, <2>1
  <2> QED
    BY <1>1, <1>4, <2>2, <2>3
<1> QED
  BY <1>5, <1>6, <1>7, <1>8 DEF new, after

\* Whatever the mode, what is rescheduled are dates, and what is not set stays unset.
LEMMA RescheduleType ==
    ASSUME NEW old, NEW dates \in [Dated -> Nat], NEW now \in Nat \ {0},
           old.repeat_mode \in Modes, old.repeat_after \in Nat
    PROVE  /\ Reschedule(old, dates, now) \in [Dated -> Int]
           /\ \A k \in Dated : dates[k] = ZeroTime => Reschedule(old, dates, now)[k] = ZeroTime
<1>1. CASE old.repeat_mode = "month"
  BY <1>1, MonthDates
<1>2. CASE old.repeat_mode # "month" /\ old.repeat_after = 0
  <2>1. Reschedule(old, dates, now) = dates
    BY <1>2, RescheduleIs
  <2> QED
    BY <2>1
<1>3. CASE old.repeat_mode = "from_current_date" /\ old.repeat_after > 0
  BY <1>3, FromNowDates
<1>4. CASE old.repeat_mode = "default" /\ old.repeat_after > 0
  BY <1>4, DefaultDates
<1> QED
  BY <1>1, <1>2, <1>3, <1>4 DEF Modes

\* The row after its dates are set.
LEMMA WithDatesIs ==
    ASSUME NEW t, DOMAIN t = DateFields, NEW dates
    PROVE  /\ DOMAIN WithDates(t, dates) = DateFields
           /\ \A k \in Dated : WithDates(t, dates)[k] = dates[k]
           /\ WithDates(t, dates).repeat_after = t.repeat_after
           /\ WithDates(t, dates).repeat_mode = t.repeat_mode
           /\ WithDates(t, dates).done = t.done
BY FieldsApart DEF WithDates

LEMMA DatesOfIs ==
    ASSUME DatesType
    PROVE  DatesOf(task) \in [Dated -> Nat] /\ \A k \in Dated : DatesOf(task)[k] = task[k]
BY DEF DatesType, DatesOf

\* Dates within bounds are numbers from the zero time on.
LEMMA BoundsType ==
    ASSUME NEW dates \in [Dated -> Int], WithinBounds(dates)
    PROVE  \A k \in Dated : dates[k] \in Nat /\ dates[k] <= LastMoment
BY DEF WithinBounds, ZeroTime

LEMMA DatesInit == RepeatInit => DatesType
<1> SUFFICES ASSUME RepeatInit PROVE DatesType
  OBVIOUS
<1>1. DOMAIN task = DateFields
  BY DEF RepeatInit, DateFields
<1>2. task.repeat_mode = "default" /\ task.done = FALSE /\ task.repeat_after = 0
  <2>1. "repeat_mode" \in DateFields /\ "done" \in DateFields /\ "repeat_after" \in DateFields
    BY DEF DateFields
  <2>2. "repeat_mode" # "done" /\ "repeat_mode" # "repeat_after" /\ "done" # "repeat_after"
    OBVIOUS
  <2> QED
    BY <2>1, <2>2, Zenon DEF RepeatInit, DateFields
<1>3. \A k \in Dated : task[k] = 0
  <2>1. \A k \in Dated : k \in DateFields /\ k # "repeat_mode" /\ k # "done"
    BY DEF DateFields, Dated
  <2> QED
    BY <2>1, Zenon DEF RepeatInit, DateFields
<1>4. clock \in Nat \ {0}
  <2>1. Clocks \in SUBSET Nat /\ Clocks # {} /\ 0 \notin Clocks
    BY RepeatAssumption DEF ZeroTime
  <2>2. \E m \in Clocks : \A x \in Clocks : m <= x
    BY <2>1, LeastOf
  <2>3. Min(Clocks) \in Clocks
    BY <2>2 DEF Min
  <2> QED
    BY <2>1, <2>3 DEF RepeatInit
<1>5. task.done \in BOOLEAN
  BY <1>2, Zenon
<1>6. task.repeat_mode \in Modes /\ task.repeat_after \in Nat /\ \A k \in Dated : task[k] \in Nat
  BY <1>2, <1>3 DEF Modes
<1> QED
  BY <1>1, <1>4, <1>5, <1>6 DEF DatesType

LEMMA DatesUpdate ==
    ASSUME DatesType, NEW sent \in SentDates \cup {DatesOf(task)}, NEW after \in Intervals,
           NEW mode \in Modes, NEW done \in BOOLEAN, NEW wanted, Update(sent, after, mode, done, wanted)
    PROVE  DatesType'
<1> DEFINE next == ~task.done /\ done /\ IsRepeating(task)
           dates == IF next THEN Reschedule(task, sent, clock) ELSE sent
           t == [task EXCEPT !.repeat_after = after, !.repeat_mode = mode, !.done = done /\ ~next]
<1>1. sent \in [Dated -> Nat]
  BY DatesOfIs, RepeatAssumption
<1>2. dates \in [Dated -> Int]
  <2>1. task.repeat_mode \in Modes /\ task.repeat_after \in Nat /\ clock \in Nat \ {0}
    BY DEF DatesType
  <2>2. Reschedule(task, sent, clock) \in [Dated -> Int]
    BY <1>1, <2>1, RescheduleType
  <2>3. sent \in [Dated -> Int]
    BY <1>1
  <2> QED
    BY <2>2, <2>3
<1>3. WithinBounds(dates) /\ task' = WithDates(t, dates) /\ clock' = clock
  BY DEF Update
<1>4. /\ DOMAIN t = DateFields /\ t.repeat_after = after /\ t.repeat_mode = mode
      /\ t.done \in BOOLEAN
  <2>1. DOMAIN task = DateFields
    BY DEF DatesType
  <2> QED
    BY <2>1, FieldsApart
<1> HIDE DEF dates, t
<1>5. \A k \in Dated : dates[k] \in Nat
  BY <1>2, <1>3, BoundsType
<1>6. after \in Nat
  BY RepeatAssumption
<1> QED
  BY <1>3, <1>4, <1>5, <1>6, WithDatesIs DEF DatesType

\* What a drag into the done bucket does to a repeating task.
LEMMA DragIs ==
    ASSUME DatesType, DragDone, IsRepeating(task)
    PROVE  LET dates == Reschedule(task, DatesOf(task), clock)
           IN  /\ dates \in [Dated -> Int] /\ \A k \in Dated : dates[k] \in Nat /\ dates[k] <= LastMoment
               /\ DOMAIN task' = DateFields /\ \A k \in Dated : task'[k] = dates[k]
               /\ task'.repeat_after = task.repeat_after /\ task'.repeat_mode = task.repeat_mode
               /\ task'.done = FALSE /\ clock' = clock
<1> DEFINE dates == Reschedule(task, DatesOf(task), clock)
<1>1. /\ task.repeat_mode \in Modes /\ task.repeat_after \in Nat /\ clock \in Nat \ {0}
      /\ DOMAIN task = DateFields /\ task.done \in BOOLEAN
  BY DEF DatesType
<1>2. dates \in [Dated -> Int]
  BY <1>1, DatesOfIs, RescheduleType
<1>3. WithinBounds(dates) /\ task' = WithDates(task, dates) /\ ~task.done /\ clock' = clock
  BY DEF DragDone
<1> HIDE DEF dates
<1>4. \A k \in Dated : dates[k] \in Nat /\ dates[k] <= LastMoment
  BY <1>2, <1>3, BoundsType
<1> QED
  BY <1>1, <1>2, <1>3, <1>4, WithDatesIs DEF dates

LEMMA DatesStep == DatesType /\ [RepeatNext]_repeatVars => DatesType'
<1> SUFFICES ASSUME DatesType, [RepeatNext]_repeatVars PROVE DatesType'
  OBVIOUS
<1>1. ASSUME NEW sent \in SentDates \cup {DatesOf(task)}, NEW after \in Intervals, NEW mode \in Modes,
             NEW done \in BOOLEAN, NEW wanted \in Reminders, Update(sent, after, mode, done, wanted)
      PROVE  DatesType'
  BY <1>1, DatesUpdate
<1>2. CASE DragDone
  <2>1. CASE IsRepeating(task)
    BY <1>2, <2>1, DragIs DEF DatesType
  <2>2. CASE ~IsRepeating(task)
    <3>1. task' = [task EXCEPT !.done = TRUE] /\ clock' = clock
      BY <1>2, <2>2 DEF DragDone
    <3> QED
      BY <3>1, FieldsApart DEF DatesType
  <2> QED
    BY <2>1, <2>2
<1>3. CASE DragBack
  <2>1. task' = [task EXCEPT !.done = FALSE] /\ clock' = clock
    BY <1>3 DEF DragBack
  <2> QED
    BY <2>1, FieldsApart DEF DatesType
<1>4. CASE Tick
  <2>1. task' = task /\ clock' \in Nat \ {0}
    BY <1>4, RepeatAssumption DEF Tick, ZeroTime
  <2> QED
    BY <2>1 DEF DatesType
<1>5. CASE UNCHANGED repeatVars
  BY <1>5 DEF repeatVars, DatesType
<1> QED
  BY <1>1, <1>2, <1>3, <1>4, <1>5 DEF RepeatNext

\* What NextOccurrence says of one step.
OccursNext ==
    DragDone /\ IsRepeating(task) =>
      LET old == DatesOf(task)
          new == DatesOf(task')
          set == {k \in Dated : old[k] # ZeroTime}
          keepsLength == {"start_date", "end_date"} \subseteq set =>
                           new["end_date"] - new["start_date"] = old["end_date"] - old["start_date"]
      IN  /\ ~task'.done /\ {k \in Dated : new[k] # ZeroTime} \subseteq set
          /\ task.repeat_mode = "default" =>
               \A k \in set : new[k] = FirstAfter(clock, old[k], task.repeat_after)
          /\ task.repeat_mode = "month" =>
               /\ keepsLength /\ \A k \in set \ {"end_date"} : MonthLater(old[k], new[k])
          /\ task.repeat_mode = "from_current_date" =>
               /\ set # {} => \E k \in set : new[k] = clock + task.repeat_after
               /\ \A k, l \in set : new[k] - new[l] = old[k] - old[l]

LEMMA OccurrenceStep == DatesType => OccursNext
<1> SUFFICES ASSUME DatesType, DragDone, IsRepeating(task)
             PROVE  OccursNext
  BY DEF OccursNext
<1> DEFINE old == DatesOf(task)
           new == DatesOf(task')
           dates == Reschedule(task, old, clock)
           set == {k \in Dated : old[k] # ZeroTime}
<1>1. /\ task.repeat_mode \in Modes /\ task.repeat_after \in Nat /\ clock \in Nat \ {0}
      /\ old \in [Dated -> Nat]
  BY DatesOfIs DEF DatesType
<1>2. /\ dates \in [Dated -> Int] /\ \A k \in Dated : dates[k] <= LastMoment
      /\ \A k \in Dated : task'[k] = dates[k] /\ task'.done = FALSE
  BY DragIs
<1>3. new = dates
  <2>1. new = [k \in Dated |-> dates[k]]
    BY <1>2 DEF DatesOf
  <2> QED
    BY <1>2, <2>1
<1>4. \A k \in Dated : old[k] = ZeroTime => dates[k] = ZeroTime
  BY <1>1, RescheduleType
<1>5. {k \in Dated : new[k] # ZeroTime} \subseteq set
  BY <1>3, <1>4
<1>6. ~task'.done
  BY <1>2, FieldsApart
<1>7. ASSUME task.repeat_mode = "default" PROVE \A k \in set : new[k] = FirstAfter(clock, old[k], task.repeat_after)
  <2>1. task.repeat_after > 0
    BY <1>7 DEF IsRepeating
  <2> QED
    BY <1>1, <1>2, <1>3, <1>7, <2>1, DefaultDates
<1>8. ASSUME task.repeat_mode = "month"
      PROVE  /\ {"start_date", "end_date"} \subseteq set =>
                   new["end_date"] - new["start_date"] = old["end_date"] - old["start_date"]
             /\ \A k \in set \ {"end_date"} : MonthLater(old[k], new[k])
  BY <1>1, <1>3, <1>8, MonthDates
<1>9. ASSUME task.repeat_mode = "from_current_date"
      PROVE  /\ set # {} => \E k \in set : new[k] = clock + task.repeat_after
             /\ \A k, l \in set : new[k] - new[l] = old[k] - old[l]
  <2>1. task.repeat_after > 0
    BY <1>9 DEF IsRepeating
  <2> QED
    BY <1>1, <1>3, <1>9, <2>1, FromNowDates
<1> QED
  BY <1>5, <1>6, <1>7, <1>8, <1>9 DEF OccursNext

\* A repeating task dragged into the done bucket always comes back open, at its next
\* occurrence (reschedule, _add_repeat_interval, _add_one_month): in the default mode at
\* the first moment after now that its intervals reach, by the month in the next month
\* and on its last day where it has no such day, from the current date an interval from
\* now; whatever dates, intervals and clocks, and however often it was rescheduled.
THEOREM TheNextOccurrence ==
    RepeatSpec => NextOccurrence
<1>1. DatesType /\ [RepeatNext]_repeatVars => [OccursNext]_repeatVars
  BY OccurrenceStep
<1>2. [][OccursNext]_repeatVars => NextOccurrence
  BY DEF OccursNext, NextOccurrence
<1> QED
  BY <1>1, <1>2, DatesInit, DatesStep, PTL DEF RepeatSpec
=============================================================================
