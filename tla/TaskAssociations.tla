-------------------------- MODULE TaskAssociations --------------------------
(***************************************************************************)
(* Who is assigned to a task, and whether the caller keeps it as a         *)
(* favourite: the rows of task_assignees and favorites that belong to one  *)
(* task, under the five requests that write them.                          *)
(*                                                                         *)
(* A request reads what it decides on before it writes: under SQLite       *)
(* outside of any transaction, under MySQL in its own snapshot, so that    *)
(* either way other requests may commit in between.  Sessions do not flush *)
(* on a query (autoflush is off): what a request has added is not yet in   *)
(* what it reads.  Users are those who may be assigned.                    *)
(***************************************************************************)
EXTENDS Naturals, FiniteSets, FiniteSetsExt

CONSTANTS
    Assigners,   \* how many requests run at the same time
    Users, NoUser,
    Kinds,      \* the kinds of request that arrive
    RowIds      \* the ids task_assignees can hand out (bound)

ASSUME RowsAssumption == RowIds \subseteq Nat \ {0} /\ NoUser \notin Users /\ IsFiniteSet(Users)
ASSUME KindsAssumption == Kinds \subseteq {"assign", "unassign", "replace", "update", "bulk"}

VARIABLES
    present,    \* the task_assignees rows of the task
    userOf,     \* by row id: its user, which no write changes
    favorite,   \* whether the caller's row in favorites exists
    asking,         \* by request: what it was asked
    seen        \* by request: what it has read, or NotRead

assigneeVars == <<present, userOf, favorite, asking, seen>>

Asking == [kind : Kinds, users : SUBSET Users, favorite : BOOLEAN]
NotAsking == [kind |-> "none", users |-> {}, favorite |-> FALSE]

Nothing == [rows |-> {}, favorite |-> FALSE]

AssigneesInit ==
    /\ present = {} /\ userOf = [i \in RowIds |-> NoUser]
    /\ favorite = FALSE
    /\ asking = [r \in Assigners |-> NotAsking]
    /\ seen = [r \in Assigners |-> Nothing]

-----------------------------------------------------------------------------

RowsOf(u, rows) == {i \in rows : userOf[i] = u}
UsersOf(rows) == {userOf[i] : i \in rows}

\* MUTANT of Unwanted: it looks at the rows there are, not at those it has read.
UnwantedNow(rows, wanted) == {i \in present : userOf[i] \notin wanted}
\* The rows a replacement deletes: one for every user it does not want, since
\* it looks rows up by user and the last row of a user shadows the others.
Unwanted(rows, wanted) == {Max(RowsOf(u, rows)) : u \in UsersOf(rows) \ wanted}

NextId == 1 + Max({0} \cup {i \in RowIds : userOf[i] # NoUser})

\* Rows for the users of S, `times` of each, under the next ids.
AddRows(S, times, removed) ==
    LET ids == NextId..(NextId + times * Cardinality(S) - 1)
    IN  /\ ids \subseteq RowIds
        /\ \E f \in [ids -> S] :
             /\ \A u \in S : Cardinality({i \in ids : f[i] = u}) = times
             /\ userOf' = [i \in RowIds |-> IF i \in ids THEN f[i] ELSE userOf[i]]
        /\ present' = (present \ removed) \cup ids

\* The request is over: a refusal or an error rolls everything back.
Close(r) == /\ asking' = [asking EXCEPT ![r] = NotAsking]
            /\ seen' = [seen EXCEPT ![r] = Nothing]
Fail(r) == Close(r) /\ UNCHANGED <<present, userOf, favorite>>

\* set_favorite, done `times` over: the row is added each time, as none of them
\* sees the one before, and the primary key takes one row.
FavoriteAdds(r, times) == IF asking[r].favorite /\ ~seen[r].favorite THEN times ELSE 0
FavoriteFits(r, times) == FavoriteAdds(r, times) + (IF favorite THEN 1 ELSE 0) <= 1
                          \/ FavoriteAdds(r, times) = 0
SetFavorite(r) == favorite' = IF asking[r].favorite = seen[r].favorite THEN favorite
                              ELSE asking[r].favorite

-----------------------------------------------------------------------------

ReadAssignees(r) ==
    /\ asking[r] = NotAsking
    /\ \E o \in Asking :
         /\ o.kind \in {"assign", "unassign"} => Cardinality(o.users) = 1
         /\ o.kind \notin {"update", "bulk"} => ~o.favorite
         /\ asking' = [asking EXCEPT ![r] = o]
    /\ seen' = [seen EXCEPT ![r] = [rows |-> present, favorite |-> favorite]]
    /\ UNCHANGED <<present, userOf, favorite>>

\* MUTANT of Found: the lookup before the insert is skipped.
FoundNothing(r) == {}
\* The rows the request found of the user it names.
Found(r) == {i \in seen[r].rows : userOf[i] \in asking[r].users}

\* PUT /tasks/{t}/assignees: 4021 when the user has a row.  Two rows are more
\* than one_or_none accepts.
Assign(r) ==
    /\ asking[r].kind = "assign"
    /\ IF Found(r) = {}
       THEN AddRows(asking[r].users, 1, {}) /\ Close(r) /\ UNCHANGED favorite
       ELSE Fail(r)

\* DELETE /tasks/{t}/assignees/{u}
Unassign(r) ==
    /\ asking[r].kind = "unassign"
    /\ IF Cardinality(Found(r)) > 1
       THEN Fail(r)
       ELSE /\ present' = present \ Found(r)
            /\ Close(r) /\ UNCHANGED <<userOf, favorite>>

\* replace_assignees_for_task_write, as POST /tasks/{t}/assignees/bulk commits it.
Replace(r) ==
    /\ asking[r].kind = "replace"
    /\ AddRows(asking[r].users \ UsersOf(seen[r].rows), 1, Unwanted(seen[r].rows, asking[r].users))
    /\ Close(r) /\ UNCHANGED favorite

\* POST /tasks/{t}: the same replacement, and the favourite.
UpdateTask(r) ==
    /\ asking[r].kind = "update"
    /\ IF FavoriteFits(r, 1)
       THEN /\ AddRows(asking[r].users \ UsersOf(seen[r].rows), 1, Unwanted(seen[r].rows, asking[r].users))
            /\ SetFavorite(r) /\ Close(r)
       ELSE Fail(r)

\* POST /tasks/bulk, on one task: _apply_associations and then apply_update
\* write the same values, and the second does not see what the first added.
\* Without assignees the first deletes every row at once.
Bulk(r) ==
    /\ asking[r].kind = "bulk"
    /\ IF FavoriteFits(r, 2)
       THEN /\ IF asking[r].users = {}
               THEN AddRows({}, 2, present)
               ELSE AddRows(asking[r].users \ UsersOf(seen[r].rows), 2,
                            Unwanted(seen[r].rows, asking[r].users))
            /\ SetFavorite(r) /\ Close(r)
       ELSE Fail(r)

WriteAssignees(r) == Assign(r) \/ Unassign(r) \/ Replace(r) \/ UpdateTask(r) \/ Bulk(r)

AssigneesNext == \E r \in Assigners : ReadAssignees(r) \/ WriteAssignees(r)

AssigneesSpec == AssigneesInit /\ [][AssigneesNext]_assigneeVars

-----------------------------------------------------------------------------

\* r's write, or its failure.
Ends(r) == asking[r] # NotAsking /\ asking'[r] = NotAsking

UserOncePer(rows, user) == \A i, j \in rows : user[i] = user[j] => i = j

\* Nobody else has written since r's read.
Undisturbed(r) == seen[r] = [rows |-> present, favorite |-> favorite]

\* A user is assigned to the task once: assigning twice is 4021, and a
\* replacement keeps the row of a user who has one.  It takes an overlap, or a
\* bulk update, for a user to get a second row.
OneRowPerAssignee ==
    [][\A r \in Assigners :
         /\ asking[r].kind # "bulk" /\ Ends(r) /\ Undisturbed(r)
         /\ UserOncePer(present, userOf)
         => UserOncePer(present', userOf')]_assigneeVars

\* What a request does not see it does not undo: a row that was added after
\* the request's read is still there after its write.
LaterRowsSurvive ==
    [][\A r \in Assigners :
         asking[r].kind # "bulk" /\ Ends(r)
         => present \ seen[r].rows \subseteq present']_assigneeVars

\* "The request can still change the favourite through values" (task_bulk.py): a bulk
\* update that asks for the favourite, while nobody else writes, gets it.
BulkFavouriteLands ==
    [][\A r \in Assigners :
         asking[r].kind = "bulk" /\ asking[r].favorite /\ Ends(r) /\ Undisturbed(r)
         => favorite']_assigneeVars
=============================================================================
