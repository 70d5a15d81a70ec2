----------------------------- MODULE Repeating ------------------------------
(***************************************************************************)
(* A task that repeats: its dates, its reminders and how it is completed.  *)
(* Completing it, by an update or by a drag into the done bucket, leaves   *)
(* it open and moves its dates to the next occurrence.  KanbanBoard has    *)
(* the buckets and the done flag; here are the dates.                      *)
(*                                                                         *)
(* A date that is not set is the zero time; dates are in UTC.              *)
(***************************************************************************)
EXTENDS Calendar, Sequences, Functions

CONSTANTS
    SentDates,      \* the dates that a request carries, besides those that are stored
    Intervals,      \* the values of repeat_after, 0 among them, in ticks
    Reminders,      \* the lists of reminders that a request carries
    Clocks,         \* the moments at which requests are handled
    LastMoment      \* how far dates are moved (bound)

VARIABLES
    task,           \* the row of tasks: dates, repeat_after, repeat_mode, done
    reminders,      \* the rows of task_reminders
    clock
repeatVars == <<task, reminders, clock>>

ZeroTime == 0
Dated == {"due_date", "start_date", "end_date"}
Modes == {"default", "month", "from_current_date"}

ASSUME RepeatAssumption ==
    /\ Intervals \subseteq Nat /\ SentDates \subseteq [Dated -> Nat] /\ LastMoment \in Nat
    /\ Clocks \subseteq Nat \ {ZeroTime} /\ Clocks # {}

UTC == INSTANCE Calendar WITH Zone <- 0

-----------------------------------------------------------------------------
IsRepeating(old) == old.repeat_after > 0 \/ old.repeat_mode = "month"

\* MUTANT of AddRepeatInterval: as many intervals as have passed, and no more.
AddElapsedIntervals(now, d, interval) ==
    IF d >= now THEN d + interval ELSE d + ((now - d) \div interval) * interval
AddRepeatInterval(now, d, interval) ==
    IF d >= now THEN d + interval ELSE d + ((now - d) \div interval + 1) * interval

DaysInMonth(month) == UTC!FirstDay(month + 1) - UTC!FirstDay(month)
AddOneMonth(d) ==
    LET month == UTC!MonthOf(d) + 1
        day == IF UTC!DayOf(d) > DaysInMonth(month) THEN DaysInMonth(month) ELSE UTC!DayOf(d)
    IN  UTC!GoDate(month, day, UTC!TimeOfDay(d))

\* f of every date that is set.
EachSet(dates, f(_)) == [k \in Dated |-> IF dates[k] = ZeroTime THEN ZeroTime ELSE f(dates[k])]

\* A task with both a start and an end keeps its length; the due date goes by itself.
NextMonth(dates) ==
    LET moved == EachSet(dates, AddOneMonth)
    IN  IF dates["start_date"] = ZeroTime \/ dates["end_date"] = ZeroTime THEN moved
        ELSE [moved EXCEPT !["end_date"] = moved["start_date"] + dates["end_date"] - dates["start_date"]]

\* The due date, or else the start, is moved to an interval from now and carries the rest.
FromNow(dates, now, interval) ==
    LET first == IF dates["due_date"] # ZeroTime THEN dates["due_date"]
                 ELSE IF dates["start_date"] # ZeroTime THEN dates["start_date"] ELSE dates["end_date"]
        Moved(d) == now + interval + (d - first)
    IN  EachSet(dates, Moved)

Reschedule(old, dates, now) ==
    LET Advanced(d) == AddRepeatInterval(now, d, old.repeat_after)
    IN  CASE old.repeat_mode = "month" -> NextMonth(dates)
          [] old.repeat_mode # "month" /\ old.repeat_after = 0 -> dates
          [] old.repeat_mode = "from_current_date" /\ old.repeat_after > 0 ->
               FromNow(dates, now, old.repeat_after)
          [] old.repeat_mode = "default" /\ old.repeat_after > 0 -> EachSet(dates, Advanced)

-----------------------------------------------------------------------------
(* Reminders.                                                              *)

\* A distance needs something to be a distance to (4022).
Accepted(wanted) == \A i \in DOMAIN wanted : wanted[i].relative_to = "none" => wanted[i].period = 0

At(reminder, dates) ==
    CASE reminder.relative_to = "none" -> reminder.at
      [] reminder.relative_to # "none" ->
           IF dates[reminder.relative_to] = ZeroTime THEN ZeroTime
           ELSE dates[reminder.relative_to] + reminder.period

\* Of reminders for the same moment the last one stays.
Resolved(wanted, dates) ==
    {[wanted[i] EXCEPT !.at = At(wanted[i], dates)] : i \in
        {x \in DOMAIN wanted : ~\E y \in DOMAIN wanted : y > x /\ At(wanted[y], dates) = At(wanted[x], dates)}}

-----------------------------------------------------------------------------
DatesOf(t) == [k \in Dated |-> t[k]]
WithDates(t, dates) == [k \in DOMAIN t |-> IF k \in Dated THEN dates[k] ELSE t[k]]

\* A date before the zero time is an error, as one past the last moment is.
WithinBounds(dates) == \A k \in Dated : ZeroTime <= dates[k] /\ dates[k] <= LastMoment

RepeatInit ==
    /\ task = [k \in Dated \cup {"repeat_after", "repeat_mode", "done"} |->
                 CASE k = "repeat_mode" -> "default" [] k = "done" -> FALSE [] OTHER -> 0]
    /\ reminders = {} /\ clock = Min(Clocks)

\* apply_update: the dates and reminders of the request replace the stored ones.
Update(sent, after, mode, done, wanted) ==
    LET next == ~task.done /\ done /\ IsRepeating(task)
        dates == IF next THEN Reschedule(task, sent, clock) ELSE sent
    IN  /\ Accepted(wanted) /\ WithinBounds(dates)
        /\ task' = WithDates([task EXCEPT !.repeat_after = after, !.repeat_mode = mode,
                                           !.done = done /\ ~next], dates)
        /\ reminders' = Resolved(wanted, sent)
        /\ UNCHANGED clock

\* _apply_done_transition: what is stored is rescheduled; reminders are not looked at.
DragDone ==
    /\ ~task.done
    /\ IF IsRepeating(task)
       THEN LET dates == Reschedule(task, DatesOf(task), clock)
            IN  WithinBounds(dates) /\ task' = WithDates(task, dates)
       ELSE task' = [task EXCEPT !.done = TRUE]
    /\ UNCHANGED <<reminders, clock>>

DragBack == task.done /\ task' = [task EXCEPT !.done = FALSE] /\ UNCHANGED <<reminders, clock>>

Tick == /\ \E later \in Clocks : clock < later /\ clock' = later
        /\ UNCHANGED <<task, reminders>>

RepeatNext ==
    \/ \E sent \in SentDates \cup {DatesOf(task)}, after \in Intervals, mode \in Modes,
          done \in BOOLEAN, wanted \in Reminders : Update(sent, after, mode, done, wanted)
    \/ DragDone \/ DragBack \/ Tick

RepeatSpec == RepeatInit /\ [][RepeatNext]_repeatVars

-----------------------------------------------------------------------------
(* Properties.                                                             *)

\* The first moment after now that lies whole intervals, one or more, after d.
FirstAfter(now, d, interval) ==
    Min({m \in {d + n * interval : n \in 1..((LastMoment - d) \div interval + 1)} : m > now})

\* e is at the time of day of d, in the month after it, on its day or the last one.
MonthLater(d, e) ==
    LET monthsOn == UTC!MonthOf(e) - UTC!MonthOf(d)
        dayAfter == UTC!MonthOf(e + TicksPerDay) - UTC!MonthOf(d)
    IN  /\ UTC!TimeOfDay(e) = UTC!TimeOfDay(d) /\ monthsOn = 1
        /\ UTC!DayOf(e) = UTC!DayOf(d) \/ (UTC!DayOf(e) < UTC!DayOf(d) /\ dayAfter = 2)

\* A repeating task that is dragged into the done bucket comes back open at its next
\* occurrence (reschedule): each date at the first time after now that its intervals
\* reach, or a month on and never two; counted from now, or by the month, what has a
\* start and an end keeps its length.
NextOccurrence ==
    [][DragDone /\ IsRepeating(task) =>
         LET old == DatesOf(task)
             new == DatesOf(task')
             set == {k \in Dated : old[k] # ZeroTime}
             keepsLength == {"start_date", "end_date"} \subseteq set =>
                              new["end_date"] - new["start_date"] = old["end_date"] - old["start_date"]
         IN  /\ ~task'.done /\ {k \in Dated : new[k] # ZeroTime} \subseteq set
             /\ task.repeat_mode = "default" =>
                  \A k \in set : new[k] = FirstAfter(clock, old[k], task.repeat_after)
             /\ task.repeat_mode = "month" =>
                  /\ keepsLength /\ \A k \in set \ {"end_date"} : MonthLater(old[k], new[k])
             /\ task.repeat_mode = "from_current_date" =>
                  /\ set # {} => \E k \in set : new[k] = clock + task.repeat_after
                  /\ \A k, l \in set : new[k] - new[l] = old[k] - old[l]]_repeatVars

\* A relative reminder stands at its date plus its period (_apply_reminders).
RemindersFollow ==
    \A r \in reminders : r.relative_to # "none" => r.at = At(r, DatesOf(task))
=============================================================================
