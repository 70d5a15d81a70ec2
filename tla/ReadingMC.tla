------------------------------ MODULE ReadingMC ------------------------------
(***************************************************************************)
(* Filters, date math and repeating tasks for TLC.  They share no state,   *)
(* so that each is explored while the others are at their start.           *)
(***************************************************************************)
EXTENDS FilterLanguage, DateMath, Repeating

SomeComparisons == {
    <<"title", "=", "x">>, <<"title", "=", "it", "'", "s">>, <<"title", "=", "'", "x", "in", "y", "'">>,
    <<"labels", "in", "1,2">>, <<"labels", "!=", "1">>, <<"reminders", ">", "1">>,
    <<"reminders", "<", "3">>, <<"||", "priority", "!=", "1">>, <<"assignees", "like", "x">>}
SomeFragments == SomeComparisons \cup {<<"&&">>, <<"||">>, <<"(">>, <<")">>, <<")", "||", "(">>, <<"//">>}

SomeViewFilters == {<<"title", "=", "x", "||", "labels", "in", "2">>,
                    <<"reminders", ">", "1", "&&", "reminders", "<", "3">>}

SomeNumbers == [w \in {"1", "2", "3", "1,2"} |->
                  CASE w = "1" -> {1} [] w = "2" -> {2} [] w = "3" -> {3} [] w = "1,2" -> {1, 2}]
SomeWords == Fields \cup DOMAIN SomeNumbers \cup {"x", "y", "it", "s"}

Task(title, priority, labels, reminded) ==
    [title |-> title, priority |-> priority, labels |-> labels, reminders |-> reminded, assignees |-> {}]

\* Two reminders around a window, none in it; labels besides the one asked for; nulls.
SomeTasks == {
    Task(<<"x">>, 0, {1}, {}), Task(<<"x", "in", "y">>, 1, {1, 2}, {2}), Task(<<"y">>, 2, {3}, {3}),
    Task(<<"it", "'", "s">>, Unset, {}, {1, 3}), Task(<<"x">>, Unset, {2, 3}, {0}), Task(<<"y">>, 1, {}, {0, 4})}

\* Two moments of every day from before Christmas 2023 to after the leap day of 2024.
AroundLeapDay == {d * TicksPerDay + t : d \in 739179..739255, t \in {0, 3}}

SomeFactors == {-2, -1, 1}

\* The 30th of January 2024 and on: a month later there is no such day.
Jan30 == 739220 * TicksPerDay
DatesAre(due, start, end) ==
    [k \in Dated |-> CASE k = "due_date" -> due [] k = "start_date" -> start [] k = "end_date" -> end]
AroundMonthsEnd == {DatesAre(0, 0, 0), DatesAre(Jan30 + 5, 0, 0), DatesAre(0, Jan30 + 1, Jan30 + 6),
                    DatesAre(Jan30 + 4, Jan30, Jan30 + 7)}
TwoMornings == {Jan30 + 3, Jan30 + 12}
TwoMonthsOn == Jan30 + 130
NoReminders == {<<>>}
BeforeDue == {<<[relative_to |-> "due_date", period |-> -2, at |-> 0]>>}

\* Each is at its start while another one moves; date math starts at any anchor.
DateAtStart == adjusted = 0 /\ moment = Min(Anchors)
ReadingInit == FilterInit /\ DateInit /\ RepeatInit
ReadingNext ==
    \/ FilterInit /\ RepeatInit /\ DateNext /\ UNCHANGED <<filterVars, repeatVars>>
    \/ DateAtStart /\ RepeatInit /\ Type /\ UNCHANGED <<dateVars, repeatVars>>
    \/ FilterInit /\ DateAtStart /\ RepeatNext /\ UNCHANGED <<filterVars, dateVars>>
ReadingSpec == ReadingInit /\ [][ReadingNext]_<<filterVars, dateVars, repeatVars>>
=============================================================================
