------------------------------ MODULE OwnedRows ------------------------------
(***************************************************************************)
(* Rows that are somebody's and that requests name by id: the views of     *)
(* projects and of saved filters, the filters, comments and webhooks.  A   *)
(* saved filter is a project with a negative id; deleting it leaves its    *)
(* views behind.  Webhooks of projects and of people share a table.  A     *)
(* part of the name may be on the path and again in the body, which wins.  *)
(*                                                                         *)
(* Changing a row and removing it ask the same questions; a change alters  *)
(* nothing that is modelled here.  What people may do in projects is       *)
(* decided in Access.  Each project has one task, which has its number.    *)
(***************************************************************************)
EXTENDS Integers, FiniteSets

CONSTANTS
    Makers,         \* people
    Places,         \* the ids of the projects
    Rights,         \* what each person may do in each project while it is shared with them
    MaxMade         \* how many rows are made in all (bound)

Ranks == {"none", "read", "write", "admin"}

ASSUME OwnedAssumption ==
    /\ Places \subseteq Nat \ {0} /\ MaxMade \in Nat
    /\ Rights \in [Makers -> [Places -> Ranks]]

VARIABLES
    owned,      \* the rows, by table and id: the project, task or nothing they are in, and who made each
    handedOut,  \* by table: the highest id
    inside      \* the people the projects are shared with

ownedVars == <<owned, handedOut, inside>>

OwnedTables == {"project_views", "saved_filters", "task_comments", "webhooks"}
NoPlace == 0

OwnedInit ==
    /\ owned = <<>> /\ handedOut = [t \in OwnedTables |-> 0] /\ inside = Makers

-----------------------------------------------------------------------------
Id(k) == k[2]
In(table) == {k \in DOMAIN owned : k[1] = table}
Rank(u, p) == IF u \in inside /\ p \in Places THEN Rights[u][p] ELSE "none"
MayWriteIn(u, p) == Rank(u, p) \in {"write", "admin"}

-----------------------------------------------------------------------------
(* Pseudo projects.                                                        *)

FavoritesProject == -1
FilterProject(f) == -f - 1
FilterOf(p) == IF -p - 1 < 0 THEN 0 ELSE -p - 1

OwnsFilter(u, f) == \E k \in In("saved_filters") : Id(k) = f /\ owned[k].maker = u

Kind(p) == IF p = FavoritesProject THEN "favorites" ELSE IF FilterOf(p) > 0 THEN "filter" ELSE "project"

\* A filter that is gone answers 404, whoever asks.
IsAdminAt(u, p) == \/ Kind(p) = "filter" /\ OwnsFilter(u, FilterOf(p))
                   \/ Kind(p) = "project" /\ Rank(u, p) = "admin"

-----------------------------------------------------------------------------
(* Names.                                                                  *)

\* What a body may send of the values S.
Sendable(S) == {<<>>} \cup {<<x>> : x \in S}
PlaceIds == Places \cup {FavoritesProject} \cup {FilterProject(f) : f \in 1..handedOut["saved_filters"]}
RowIdsOf(table) == 1..handedOut[table]

\* What a request names: each part that the body sends overrides the path's.
Preferred(sent, onPath) == IF sent = <<>> THEN onPath ELSE sent[1]
Effective(path, body) == [place |-> Preferred(body.place, path.place), id |-> Preferred(body.id, path.id)]

\* MUTANT of Gate: permission is asked for the project on the path.
GateOnPath(path, body) == path.place
Gate(path, body) == Effective(path, body).place

-----------------------------------------------------------------------------
(* The rows that a person's request is let to change, however it is named. *)

ViewsOpen(u, path, body) ==
    {k \in In("project_views") : /\ [place |-> owned[k].place, id |-> Id(k)] = Effective(path, body)
                                 /\ IsAdminAt(u, Gate(path, body))}
ViewNames == [place : PlaceIds, id : RowIdsOf("project_views")]
ViewBodies == [place : Sendable(PlaceIds), id : Sendable(RowIdsOf("project_views"))]
ViewRequests(u) == UNION {ViewsOpen(u, path, body) : path \in ViewNames, body \in ViewBodies}

FiltersOpen(u, id) == {k \in In("saved_filters") : Id(k) = id /\ owned[k].maker = u}
\* Update alone reads an id from the body.
FilterRequests(u) ==
    UNION {FiltersOpen(u, Preferred(sent, path)) :
             path \in RowIdsOf("saved_filters"), sent \in Sendable(RowIdsOf("saved_filters"))}

CommentsOpen(u, task, id) ==
    {k \in In("task_comments") : /\ owned[k].place = task /\ Id(k) = id
                                 /\ MayWriteIn(u, task) /\ owned[k].maker = u}
CommentRequests(u) ==
    UNION {CommentsOpen(u, task, Preferred(sent, path)) :
             task \in Places, path \in RowIdsOf("task_comments"), sent \in Sendable(RowIdsOf("task_comments"))}

\* The project on the path is parsed and not looked at; a person's webhook is in no project.
WebhookOf(id) == {k \in In("webhooks") : Id(k) = id}
HooksOpen(u, id) == {k \in WebhookOf(id) : MayWriteIn(u, owned[k].place)}
OwnHooksOpen(u, id) == {k \in WebhookOf(id) : owned[k].place = NoPlace /\ owned[k].maker = u}
HookRequests(u) == UNION {HooksOpen(u, id) \cup OwnHooksOpen(u, id) : id \in RowIdsOf("webhooks")}

Open(u) == ViewRequests(u) \cup FilterRequests(u) \cup CommentRequests(u) \cup HookRequests(u)

-----------------------------------------------------------------------------
(* Requests.                                                               *)

Made == handedOut["project_views"] + handedOut["saved_filters"] + handedOut["task_comments"]
        + handedOut["webhooks"]

\* MUTANT of NextIn: without AUTOINCREMENT SQLite hands out what the highest row had.
NextInUse(table) == CHOOSE i \in 1..(Made + 1) : /\ \A k \in In(table) : Id(k) < i
                                                 /\ \A j \in 1..(i - 1) : \E k \in In(table) : Id(k) >= j
NextIn(table) == handedOut[table] + 1

\* One new row a table, in the places given; u made them.
Make(u, places) ==
    LET new == [k \in {<<t, NextIn(t)>> : t \in DOMAIN places} |-> [place |-> places[k[1]], maker |-> u]]
    IN  /\ Made + Cardinality(DOMAIN new) <= MaxMade
        /\ owned' = [k \in DOMAIN owned \cup DOMAIN new |-> IF k \in DOMAIN new THEN new[k] ELSE owned[k]]
        /\ handedOut' = [t \in OwnedTables |-> IF t \in DOMAIN places THEN NextIn(t) ELSE handedOut[t]]
        /\ UNCHANGED inside

CreateView(u, p) == IsAdminAt(u, p) /\ Make(u, [t \in {"project_views"} |-> p])

\* With its default views, of which the model has one.
CreateFilter(u) ==
    Make(u, [t \in {"saved_filters", "project_views"} |->
               IF t = "saved_filters" THEN NoPlace ELSE FilterProject(NextIn("saved_filters"))])

CreateComment(u, p) == MayWriteIn(u, p) /\ Make(u, [t \in {"task_comments"} |-> p])

CreateWebhook(u, p) == MayWriteIn(u, p) /\ Make(u, [t \in {"webhooks"} |-> p])
CreateOwnWebhook(u) == Make(u, [t \in {"webhooks"} |-> NoPlace])

\* The row alone: a filter's views stay.
RemoveRow(u) == \E gone \in Open(u) :
    /\ owned' = [k \in DOMAIN owned \ {gone} |-> owned[k]]
    /\ UNCHANGED <<handedOut, inside>>

\* Sharing and unsharing.
Share(u) == inside' = (IF u \in inside THEN inside \ {u} ELSE inside \cup {u}) /\ UNCHANGED <<owned, handedOut>>

OwnedNext == \E u \in Makers :
    \/ CreateFilter(u) \/ CreateOwnWebhook(u) \/ RemoveRow(u) \/ Share(u)
    \/ \E p \in PlaceIds : CreateView(u, p) \/ CreateComment(u, p) \/ CreateWebhook(u, p)

OwnedSpec == OwnedInit /\ [][OwnedNext]_ownedVars

-----------------------------------------------------------------------------
(* Properties.                                                             *)

\* Whose a row is, by who made it: ids do not enter.
Entitled(u, row, table) ==
    CASE table = "project_views" /\ row.place > 0 -> Rank(u, row.place) = "admin"
      [] table = "webhooks" /\ row.place > 0 -> MayWriteIn(u, row.place)
      [] table = "task_comments" -> row.maker = u /\ MayWriteIn(u, row.place)
      [] OTHER -> row.maker = u

\* A filter's view whose filter is gone: nobody can name it any more.
Orphan(k) == /\ k[1] = "project_views" /\ Kind(owned[k].place) = "filter"
             /\ <<"saved_filters", FilterOf(owned[k].place)>> \notin DOMAIN owned

\* However a request mixes the names on its path and in its body, and through whichever
\* of two routes, it changes what is its user's and nothing else; and what an earlier
\* filter left behind comes to nobody with a later one.
OnlyTheirs == \A u \in Makers :
    Open(u) = {k \in DOMAIN owned : Entitled(u, owned[k], k[1]) /\ ~Orphan(k)}
=============================================================================
