------------------------------ MODULE DateMath ------------------------------
(***************************************************************************)
(* Date math in filters: "now+1M/w" and the like.  Hours stand for minutes *)
(* and seconds too, which are cut off in the same way.  The fiscal year    *)
(* begins with the calendar's, as for every caller.                        *)
(***************************************************************************)
EXTENDS Calendar

CONSTANTS
    Anchors,            \* the moments an expression starts with
    Factors,            \* how many units are added at a time
    MaxBusinessDays,    \* how many business days are counted on or back (bound)
    MaxAdjustments      \* how many adjustments an expression has (bound)

ASSUME DateAssumption ==
    /\ Anchors \subseteq Nat /\ Factors \subseteq Int
    /\ {MaxBusinessDays, MaxAdjustments} \subseteq Nat

VARIABLES moment, adjusted
dateVars == <<moment, adjusted>>

StartOfWeek == 1
CalendarUnits == {"y", "Q", "M", "w", "d"}
Units == CalendarUnits \cup {"b", "h"}

-----------------------------------------------------------------------------
AddDate(m, months, days) == GoDate(MonthOf(m) + months, DayOf(m) + days, TimeOfDay(m))

IsBusinessDay(m) == Weekday(m) \in 1..5

\* The business day next to m: after it for a step of 1, before it for one of -1.
NextBusinessDay(m, step) ==
    AddDate(m, 0, Min({k \in 1..3 : IsBusinessDay(AddDate(m, 0, k * step))}) * step)

\* The n-th business day after m, or before it.
AddBusinessDays(m, n) ==
    LET step == IF n >= 0 THEN 1 ELSE -1
        walk[i \in 0..(n * step)] == IF i = 0 THEN m ELSE NextBusinessDay(walk[i - 1], step)
    IN  walk[n * step]

AddUnits(m, n, unit) ==
    CASE unit = "y" -> AddDate(m, 12 * n, 0)
      [] unit = "Q" -> AddDate(m, 3 * n, 0)
      [] unit = "M" -> AddDate(m, n, 0)
      [] unit = "w" -> AddDate(m, 0, 7 * n)
      [] unit = "d" -> AddDate(m, 0, n)
      [] unit = "b" -> AddBusinessDays(m, n)
      [] unit = "h" -> m + n * TicksPerHour

\* Sunday ends the week that began on the Monday before it.
\* MUTANT of ToWeek: it begins the week of the Monday after.
ToNearWeek(m) == GoDate(MonthOf(m), DayOf(m) - (Weekday(m) - StartOfWeek), 0)
ToWeek(m) ==
    LET difference == Weekday(m) - StartOfWeek
    IN  GoDate(MonthOf(m), DayOf(m) - (IF difference < 0 THEN 7 ELSE 0) - difference, 0)

\* Hours are cut off in UTC, whatever the zone; the rest in the zone.
Truncate(m, unit) ==
    CASE unit = "y" -> GoDate(MonthOf(m) - ((MonthOf(m) + 2) % 12), 1, 0)
      [] unit = "Q" -> GoDate(MonthOf(m) - ((MonthOf(m) + 2) % 3), 1, 0)
      [] unit = "M" -> GoDate(MonthOf(m), 1, 0)
      [] unit = "w" -> ToWeek(m)
      [] unit = "d" -> GoDate(MonthOf(m), DayOf(m), 0)
      [] unit = "h" -> m - (m % TicksPerHour)

-----------------------------------------------------------------------------
DateInit == moment \in Anchors /\ adjusted = 0

Adjust(m) ==
    /\ adjusted < MaxAdjustments
    /\ moment' = m /\ adjusted' = adjusted + 1

Add == \E n \in Factors, unit \in Units : Adjust(AddUnits(moment, n, unit))
Round == \E unit \in Units \ {"b"} : Adjust(Truncate(moment, unit))

DateNext == Add \/ Round
DateSpec == DateInit /\ [][DateNext]_dateVars

-----------------------------------------------------------------------------
(* Properties.                                                             *)

\* Rounding finds the start of the period that a moment lies in: not after it, less
\* than one unit before it, and the same again when rounded once more (_truncate_units).
RoundingBrackets ==
    \A unit \in Units \ {"b"} :
      LET start == Truncate(moment, unit)
      IN  /\ start <= moment /\ moment < AddUnits(start, 1, unit)
          /\ Truncate(start, unit) = start

\* Business days are counted one by one: n of them after a moment is a business day
\* with n - 1 more between, and going back as many returns to where one started.
BusinessDaysCounted ==
    \A n \in (-MaxBusinessDays..MaxBusinessDays) \ {0} :
      LET there == AddBusinessDays(moment, n)
          days == {k \in 1..((IF n > 0 THEN there - moment ELSE moment - there) \div TicksPerDay) :
                     IsBusinessDay(AddDate(moment, 0, IF n > 0 THEN k ELSE -k))}
      IN  /\ IsBusinessDay(there) /\ Cardinality(days) = (IF n > 0 THEN n ELSE -n)
          /\ IsBusinessDay(moment) => AddBusinessDays(there, -n) = moment

\* What an adjustment of either kind must be, whatever came before it.
CalendarSound == RoundingBrackets /\ BusinessDaysCounted
=============================================================================
