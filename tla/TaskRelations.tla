---------------------------- MODULE TaskRelations ----------------------------
(***************************************************************************)
(* Relations between tasks.  A relation is two rows, one a direction, that  *)
(* are written and removed together.  A request decides on what it reads   *)
(* and then writes; another request may commit between the two.  Deleting  *)
(* a task only marks it: its rows stay.                                    *)
(*                                                                         *)
(* The caller may write both tasks; what a caller may see is in Access.    *)
(***************************************************************************)
EXTENDS Integers, FiniteSets

CONSTANTS
    Tasks,      \* the ids of the tasks
    Kinds,      \* the kinds of relation that requests name (bound)
    Deletable,  \* the tasks that may be deleted (bound)
    Linkers,   \* how many requests run at the same time (bound)
    LastRow     \* the highest id task_relations hands out (bound)

Hierarchical == {"subtask", "parenttask"}

InverseKind == [k \in {"subtask", "parenttask", "related", "blocking", "blocked"} |->
              CASE k = "subtask" -> "parenttask" [] k = "parenttask" -> "subtask"
                [] k = "blocking" -> "blocked"   [] k = "blocked" -> "blocking"
                [] k = "related" -> "related"]

ASSUME RelationsAssumption ==
    /\ Tasks \subseteq Nat \ {0} /\ LastRow \in Nat
    /\ Kinds \subseteq DOMAIN InverseKind /\ \A k \in Kinds : InverseKind[k] \in Kinds

VARIABLES
    alive,      \* the tasks that are not deleted
    rows,       \* task_relations: a function from row ids
    issued,     \* the highest row id handed out (AUTOINCREMENT)
    request     \* by request: what it has checked and is about to write; alone: no other
                \* request has committed since it read

relationVars == <<alive, rows, issued, request>>

Row == [task : Tasks, other : Tasks, kind : Kinds]
Idle == [phase |-> "idle", alone |-> TRUE]

RelationsInit ==
    /\ alive = Tasks
    /\ rows = [r \in {} |-> Idle] /\ issued = 0
    /\ request = [q \in Linkers |-> Idle]

-----------------------------------------------------------------------------
Mirror(row) == [task |-> row.other, other |-> row.task, kind |-> InverseKind[row.kind]]

Stored(row) == \E r \in DOMAIN rows : rows[r] = row
Holding(row) == {r \in DOMAIN rows : rows[r] = row}

\* S holds every task with a row of kind k to a member of S.
ClosedUpwards(S, k) == \A r \in DOMAIN rows :
                         rows[r].kind = k /\ rows[r].other \in S => rows[r].task \in S

\* What a walk against the rows of kind k meets, from the tasks in From.
Reached(From, k) == {t \in Tasks : \A S \in SUBSET Tasks :
                                      From \subseteq S /\ ClosedUpwards(S, k) => t \in S}

\* MUTANT of WouldCycle: only the direct parents are looked at.
WouldShortCycle(row) ==
    \/ row.task = row.other
    \/ Stored([task |-> row.other, other |-> row.task, kind |-> row.kind])
WouldCycle(row) == row.other \in Reached({row.task}, row.kind)

LinkAllowed(row) ==
    /\ {row.task, row.other} \subseteq alive /\ row.task # row.other
    /\ ~Stored(row)
    /\ row.kind \in Hierarchical => ~WouldCycle(row)

ReadCreate(q, row) ==
    /\ request[q] = Idle /\ LinkAllowed(row)
    /\ request' = [request EXCEPT ![q] = [phase |-> "create", row |-> row, alone |-> TRUE]]
    /\ UNCHANGED <<alive, rows, issued>>

\* Twin rows make the lookup fail (one_or_none), and no request removes them.
ReadDelete(q, row) ==
    /\ request[q] = Idle /\ row.task \in alive /\ Cardinality(Holding(row)) = 1
    /\ request' = [request EXCEPT ![q] =
          [phase |-> "delete", row |-> row, alone |-> TRUE,
           doomed |-> Holding(row) \cup Holding(Mirror(row))]]
    /\ UNCHANGED <<alive, rows, issued>>

\* q is done; whoever else is under way has been overtaken.
LinkCommits(q) ==
    request' = [s \in Linkers |-> IF s = q \/ request[s] = Idle THEN Idle
                                   ELSE [request[s] EXCEPT !.alone = FALSE]]

\* MUTANT of BothRows: only the direction that the request names.
OneRow(row) == [r \in DOMAIN rows \cup {issued + 1} |-> IF r > issued THEN row ELSE rows[r]]
BothRows(row) == [r \in DOMAIN rows \cup {issued + 1, issued + 2} |->
                    IF r = issued + 1 THEN row
                    ELSE IF r = issued + 2 THEN Mirror(row) ELSE rows[r]]

WriteCreate(q) ==
    /\ request[q].phase = "create" /\ issued + 2 <= LastRow
    /\ rows' = BothRows(request[q].row) /\ issued' = issued + 2
    /\ LinkCommits(q)
    /\ UNCHANGED alive

WriteDelete(q) ==
    /\ request[q].phase = "delete"
    /\ rows' = [r \in DOMAIN rows \ request[q].doomed |-> rows[r]]
    /\ LinkCommits(q)
    /\ UNCHANGED <<alive, issued>>

\* delete_task: one mark on the task, and nothing cascades.
MarkDeleted(t) ==
    /\ t \in alive \cap Deletable /\ alive' = alive \ {t}
    /\ UNCHANGED <<rows, issued, request>>

RelationsNext ==
    \/ \E q \in Linkers : \/ \E row \in Row : ReadCreate(q, row) \/ ReadDelete(q, row)
                           \/ WriteCreate(q) \/ WriteDelete(q)
    \/ \E t \in Tasks : MarkDeleted(t)

RelationsSpec == RelationsInit /\ [][RelationsNext]_relationVars

-----------------------------------------------------------------------------
(* Properties.                                                             *)

\* A child cannot be orphaned from its end: whatever overlaps, every stored row
\* has its mirror image (create_relation and delete_relation write both).
Mirrored == \A r \in DOMAIN rows : Stored(Mirror(rows[r]))

\* No task is above itself.
Acyclic == \A t \in Tasks : \A k \in Hierarchical :
              ~\E r \in DOMAIN rows : rows[r].kind = k /\ rows[r].other = t
                                      /\ t \in Reached({rows[r].task}, k)

\* No relation is stored twice: delete_relation could no longer remove it.
NoTwins == \A r, s \in DOMAIN rows : rows[r] = rows[s] => r = s

\* The cycle check and the duplicate check look at one direction only, and yet a
\* request that no other overtook keeps tasks a forest and relations single.
AloneKeepsForest ==
    [][\A q \in Linkers : request[q] # Idle /\ request'[q] = Idle /\ request[q].alone =>
          (Acyclic /\ NoTwins => (Acyclic /\ NoTwins)')]_relationVars
=============================================================================
