------------------------------ MODULE Calendar ------------------------------
(***************************************************************************)
(* Moments and the calendar they are read by.  A moment is a number of     *)
(* ticks since the first of March of the year 0, UTC; the zone is a fixed  *)
(* distance from it.  Months are counted from that March, so that a leap   *)
(* day is the last day of its year and January the eleventh month.         *)
(***************************************************************************)
EXTENDS Integers, FiniteSetsExt

CONSTANTS
    Zone,                       \* the distance of the caller's zone, in ticks
    TicksPerHour, HoursPerDay   \* scaled down

ASSUME CalendarAssumption == Zone \in Int /\ {TicksPerHour, HoursPerDay} \subseteq Nat \ {0}

TicksPerDay == TicksPerHour * HoursPerDay

FirstDay(month) ==
    LET year == month \div 12
    IN  365 * year + year \div 4 - year \div 100 + year \div 400 + (153 * (month % 12) + 2) \div 5

\* What the caller's clock and calendar show at m.
Local(m) == m + Zone
DayNumber(m) == Local(m) \div TicksPerDay
TimeOfDay(m) == Local(m) % TicksPerDay
Weekday(m) == (DayNumber(m) + 3) % 7      \* 0 is a Sunday
\* 1600 months have 48699 days: the day's month is the one they tell, or the next to it.
MonthHolding(day) ==
    LET near == (day * 1600) \div 48699
    IN  Max({k \in (near - 1)..(near + 1) : FirstDay(k) <= day})
MonthOf(m) == MonthHolding(DayNumber(m))
DayOf(m) == DayNumber(m) - FirstDay(MonthOf(m)) + 1

\* The moment at a month, day and time of day; a day past the month's last, or
\* before its first, runs over into the months around it.
GoDate(month, day, time) == (FirstDay(month) + day - 1) * TicksPerDay + time - Zone
=============================================================================
