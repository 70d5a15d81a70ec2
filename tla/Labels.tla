------------------------------- MODULE Labels -------------------------------
(***************************************************************************)
(* Labels and the tasks they are on.  A label belongs to nobody's project: *)
(* its creator sees it, and everyone who may read a task it is on; whoever *)
(* sees it may put it on any task they may write, and so show it to        *)
(* others.  Deleting a label leaves its rows in label_tasks behind.        *)
(*                                                                         *)
(* A request decides on what it reads and writes later, and others may     *)
(* commit in between.  A replacement reads the rows of its task a second   *)
(* time before it writes: under SQLite it then sees what others committed, *)
(* under MySQL what it saw the first time.                                 *)
(***************************************************************************)
EXTENDS Naturals, Sequences, SequencesExt, FiniteSetsExt

CONSTANTS
    Askers,         \* the requests that run at the same time
    People,
    LabelledTasks,
    Shared,         \* what each person may do with each task while it is shared with them
    LastLabel,      \* bounds on the ids handed out
    LastLabelRow,
    MaxListed       \* the longest list a replacement brings (bound)

ASSUME LabelsAssumption == /\ LastLabel \in Nat /\ LastLabelRow \in Nat /\ MaxListed \in Nat
                           /\ Shared \in [People -> [LabelledTasks -> {"read", "write"}]]

VARIABLES
    labels,         \* the rows of labels: who created each
    issued,         \* the highest label id handed out
    labelRows,      \* the rows of label_tasks: the task and the label of each
    issuedRow,      \* the highest row id handed out
    level,          \* what each person may do with each task, which is decided elsewhere
    asked           \* by request: what it decided on

labelVars == <<labels, issued, labelRows, issuedRow, level, asked>>

NotAsked == [kind |-> "none"]

LabelsInit ==
    /\ labels = <<>> /\ issued = 0 /\ labelRows = <<>> /\ issuedRow = 0
    /\ level = [u \in People |-> [t \in LabelledTasks |-> "none"]]
    /\ asked = [r \in Askers |-> NotAsked]

-----------------------------------------------------------------------------
RowsOn(t) == {i \in DOMAIN labelRows : labelRows[i].task = t}
On(t) == {labelRows[i].label : i \in RowsOn(t)}

\* visible_labels_query
VisibleLabels(u) ==
    {l \in DOMAIN labels : labels[l] = u \/ \E t \in LabelledTasks : level[u][t] # "none" /\ l \in On(t)}

MayLabel(u, t) == level[u][t] = "write"

\* MUTANT of NextLabel: without AUTOINCREMENT SQLite hands out what the highest row had.
NextLabelInUse == 1 + Max({0} \cup DOMAIN labels)
NextLabel == issued + 1

CreateLabel(u) ==
    /\ NextLabel <= LastLabel
    /\ labels' = [l \in DOMAIN labels \cup {NextLabel} |-> IF l = NextLabel THEN u ELSE labels[l]]
    /\ issued' = NextLabel
    /\ UNCHANGED <<labelRows, issuedRow, level, asked>>

\* Sharing, unsharing and deleting a project or a task.
Regrant(u, t) ==
    /\ level' = [level EXCEPT ![u][t] = IF @ = "none" THEN Shared[u][t] ELSE "none"]
    /\ UNCHANGED <<labels, issued, labelRows, issuedRow, asked>>

-----------------------------------------------------------------------------
(* What a request reads and decides.  `saw` is for the property alone.     *)

Asked(r, request) ==
    /\ asked[r] = NotAsked /\ asked' = [asked EXCEPT ![r] = request]
    /\ UNCHANGED <<labels, issued, labelRows, issuedRow, level>>

\* The creator alone; its rows are not looked at.
AskDelete(r, u, l) ==
    /\ l \in DOMAIN labels /\ labels[l] = u
    /\ Asked(r, [kind |-> "delete", label |-> l, saw |-> {}])

AskAttach(r, u, t, l) ==
    /\ l \in DOMAIN labels /\ l \in VisibleLabels(u)
    /\ MayLabel(u, t) /\ l \notin On(t)
    /\ Asked(r, [kind |-> "attach", task |-> t, label |-> l, saw |-> VisibleLabels(u)])

FirstRow(t, l) == Min({i \in RowsOn(t) : labelRows[i].label = l})
AskDetach(r, u, t, l) ==
    /\ MayLabel(u, t) /\ l \in On(t)
    /\ Asked(r, [kind |-> "detach", row |-> FirstRow(t, l), saw |-> {}])

\* MUTANT of MayList: the label exists.
MayListAny(u, t, l) == l \in On(t) \cup DOMAIN labels
\* What is on the task already is not checked again.
MayList(u, t, l) == l \in On(t) \/ (l \in DOMAIN labels /\ l \in VisibleLabels(u))
AskReplace(r, u, t, list) ==
    /\ MayLabel(u, t) /\ \A i \in DOMAIN list : MayList(u, t, list[i])
    /\ Asked(r, [kind |-> "replace", task |-> t, list |-> list, rows |-> RowsOn(t), saw |-> VisibleLabels(u)])

Ask(r) == \E u \in People :
    \/ \E l \in 1..issued : \/ AskDelete(r, u, l)
                          \/ \E t \in LabelledTasks : AskAttach(r, u, t, l) \/ AskDetach(r, u, t, l)
    \/ \E n \in 0..MaxListed : \E list \in [1..n -> 1..issued] :
         \E t \in LabelledTasks : AskReplace(r, u, t, list)

-----------------------------------------------------------------------------
(* What it then writes.                                                    *)

Answered(r) == asked' = [asked EXCEPT ![r] = NotAsked] /\ UNCHANGED <<issued, level>>

\* Rows of task t for the labels at the places `fresh` of a list, in their order, in
\* place of the rows `gone`.  An id may be passed over: only their order matters.
Rewrite(t, list, fresh, gone) ==
    LET new == {issuedRow + n : n \in fresh}
    IN  /\ issuedRow' = Max({issuedRow} \cup new) /\ issuedRow' <= LastLabelRow
        /\ labelRows' = [i \in (DOMAIN labelRows \ gone) \cup new |->
                           IF i \in new THEN [task |-> t, label |-> list[i - issuedRow]] ELSE labelRows[i]]

DeleteLabel(r) ==
    /\ asked[r].kind = "delete" /\ Answered(r)
    /\ labels' = [l \in DOMAIN labels \ {asked[r].label} |-> labels[l]]
    /\ UNCHANGED <<labelRows, issuedRow>>

AttachLabel(r) ==
    /\ asked[r].kind = "attach" /\ Answered(r)
    /\ Rewrite(asked[r].task, <<asked[r].label>>, {1}, {}) /\ UNCHANGED labels

\* A row that is gone is no error.
DetachLabel(r) ==
    /\ asked[r].kind = "detach" /\ Answered(r)
    /\ labelRows' = [i \in DOMAIN labelRows \ {asked[r].row} |-> labelRows[i]]
    /\ UNCHANGED <<labels, issuedRow>>

\* Of the rows of a label, the replacement knows the last.
LastRows(rows) == {Max({j \in rows : labelRows[j].label = labelRows[i].label}) : i \in rows}

\* replace_task_labels.
ReplaceLabels(r) ==
    /\ asked[r].kind = "replace" /\ Answered(r)
    /\ \E known \in {RowsOn(asked[r].task), asked[r].rows \cap DOMAIN labelRows} :
         LET list == asked[r].list
             attached == {labelRows[i].label : i \in known}
         IN  Rewrite(asked[r].task, list, {n \in DOMAIN list : list[n] \notin attached},
                     {i \in LastRows(known) : labelRows[i].label \notin ToSet(list)})
    /\ UNCHANGED labels

AnswerLabels(r) == DeleteLabel(r) \/ AttachLabel(r) \/ DetachLabel(r) \/ ReplaceLabels(r)

LabelsNext ==
    \/ \E u \in People : CreateLabel(u) \/ \E t \in LabelledTasks : Regrant(u, t)
    \/ \E r \in Askers : Ask(r) \/ AnswerLabels(r)

LabelsSpec == LabelsInit /\ [][LabelsNext]_labelVars

-----------------------------------------------------------------------------
(* Properties.                                                             *)

Finishes(r) == asked[r] # NotAsked /\ asked'[r] = NotAsked

\* "Visible is usable", and nothing else is: a label comes into someone's sight because
\* they made it, because they were given a task it is on, or because someone who saw it
\* when they asked put it on a task.  No request shows its own user a label, and none
\* shows others what its user could not see, whatever is deleted or detached meanwhile;
\* and a new label is seen by nobody else, whatever rows deleted labels left behind.
LabelsSpreadBySight ==
    [][\A u \in People : \A l \in VisibleLabels(u)' \ VisibleLabels(u) :
         \/ l \notin DOMAIN labels /\ labels'[l] = u
         \/ level'[u] # level[u]
         \/ \E r \in Askers : Finishes(r) /\ l \in asked[r].saw]_labelVars

\* "Set the task's labels to exactly label_ids" (label_service.py), when nobody else has
\* written to the task's rows since the request read them.
ReplacementSetsLabels ==
    [][\A r \in Askers : \A t \in LabelledTasks :
         asked[r].kind = "replace" /\ Finishes(r) /\ asked[r].task = t /\ asked[r].rows = RowsOn(t)
         => On(t)' = ToSet(asked[r].list)]_labelVars
=============================================================================
