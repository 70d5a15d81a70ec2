----------------------------- MODULE ProjectTree -----------------------------
(***************************************************************************)
(* The hierarchy of projects, and the two ways of being archived: by the   *)
(* column is_archived, which an update copies to everything below, and by  *)
(* an ancestor's column, which reads inherit.                              *)
(*                                                                         *)
(* A request decides on what it reads and then writes: Read is every check *)
(* up to the first write, and the other step every statement from there to *)
(* the commit.  Under SQLite the first write takes the write lock, so that *)
(* nothing gets between these; between Read and the write anything may.    *)
(*                                                                         *)
(* A request here is one whose caller holds the grants it needs and that   *)
(* concerns nobody's default project.  Favourites and saved filters, which *)
(* have negative ids, are no projects of this tree.                        *)
(***************************************************************************)
EXTENDS Integers, FiniteSets

CONSTANTS
    Requests,    \* how many requests run at the same time
    ProjectIds   \* the ids that projects can hand out (bound)

ASSUME ProjectIdsAssumption == ProjectIds \subseteq Nat \ {0}

VARIABLES
    projects,    \* the projects that exist
    parent,      \* parent_project_id, 0 for none
    archived,    \* is_archived, the column
    last,        \* the highest id handed out (AUTOINCREMENT)
    op           \* by request: what it has checked and is about to write

vars == <<projects, parent, archived, last, op>>

\* A column that the request leaves alone.
Keep == -1

\* alone records that no other request has committed since this one read.
Create == [kind : {"create"}, parent : ProjectIds \cup {0}, alone : BOOLEAN]
Update == [kind : {"update"}, project : ProjectIds, parent : ProjectIds \cup {0, Keep},
           archived : BOOLEAN, marks : BOOLEAN, alone : BOOLEAN]
Delete == [kind : {"delete"}, project : ProjectIds, alone : BOOLEAN]
NoOp == [kind |-> "none", alone |-> TRUE]
Op == Create \cup Update \cup Delete \cup {NoOp}

\* The type of the state.
TypeOK ==
    /\ projects \subseteq ProjectIds
    /\ parent \in [ProjectIds -> ProjectIds \cup {0}]
    /\ archived \in [ProjectIds -> BOOLEAN]
    /\ last \in Nat
    /\ op \in [Requests -> Op]

Init ==
    /\ projects = {} /\ last = 0
    /\ parent = [p \in ProjectIds |-> 0]
    /\ archived = [p \in ProjectIds |-> FALSE]
    /\ op = [r \in Requests |-> NoOp]

-----------------------------------------------------------------------------
(* Walks over the tree.                                                    *)

Children(p) == {c \in projects : parent[c] = p}

\* S holds the children of all of its members.
Closed(S) == \A c \in projects : parent[c] \in S => c \in S

\* The descendants of p: the least closed set with its children.  p itself is
\* one of them when the parents form a cycle through it.
Below(p) == {d \in projects : \A S \in SUBSET projects :
                                Closed(S) /\ Children(p) \subseteq S => d \in S}

\* No walk up from p ends: permissions on p cannot be resolved.
Endless(p) == \E a \in projects : a \in Below(a) /\ p \in Below(a) \cup {a}

\* MUTANT of ClosesCycle: only the new parent's own parent is looked at.
ClosesShortCycle(p, q) == p = q \/ q \in Children(p) \/ Endless(q)
\* check_no_cycle walks up from the new parent q of p.
ClosesCycle(p, q) == p = q \/ q \in Below(p) \/ Endless(q)

ArchivedAbove(p) == \E a \in projects : archived[a] /\ p \in Below(a)
ReadsAsArchived(p) == archived[p] \/ ArchivedAbove(p)

-----------------------------------------------------------------------------
(* Requests.                                                               *)

\* MUTANT of CreateAllowed: the gate of an archived parent is forgotten.
CreateAnywhere(q) == q = 0 \/ (q \in projects /\ ~Endless(q))
CreateAllowed(q) == q = 0 \/ (q \in projects /\ ~Endless(q) /\ ~ReadsAsArchived(q))

\* A parent that is sent again unchanged is not looked at.
MoveAllowed(p, q) == q = parent[p] \/ q = 0 \/ (q \in projects /\ ~ClosesCycle(p, q))

\* The session writes the columns whose value differs from what it loaded.
UpdateOp(p, q, archive) ==
    [kind |-> "update", project |-> p, parent |-> IF q = parent[p] THEN Keep ELSE q,
     archived |-> archive, marks |-> archive # archived[p], alone |-> TRUE]

Read(r) ==
    /\ op[r] = NoOp
    /\ \/ \E q \in ProjectIds \cup {0} :
            /\ CreateAllowed(q)
            /\ op' = [op EXCEPT ![r] = [kind |-> "create", parent |-> q, alone |-> TRUE]]
       \/ \E p \in projects, q \in ProjectIds \cup {0}, archive \in BOOLEAN :
            /\ ~Endless(p) /\ MoveAllowed(p, q)
            /\ op' = [op EXCEPT ![r] = UpdateOp(p, q, archive)]
       \/ \E p \in projects :
            /\ ~Endless(p)
            /\ op' = [op EXCEPT ![r] = [kind |-> "delete", project |-> p, alone |-> TRUE]]
    /\ UNCHANGED <<projects, parent, archived, last>>

\* r is done; whoever else is under way has been overtaken.
Commits(r) ==
    op' = [s \in Requests |-> IF s = r \/ op[s] = NoOp THEN NoOp
                              ELSE [op[s] EXCEPT !.alone = FALSE]]

CreateProject(r) ==
    LET p == last + 1
    IN  /\ op[r].kind = "create" /\ p \in ProjectIds
        /\ projects' = projects \cup {p}
        /\ parent' = [parent EXCEPT ![p] = op[r].parent]
        /\ archived' = [archived EXCEPT ![p] = FALSE]
        /\ last' = p
        /\ Commits(r)

WithParent(p, q) == IF q = Keep THEN parent ELSE [parent EXCEPT ![p] = q]

\* The columns first, then everything below the project.
UpdateProject(r) ==
    LET o == op[r]
        p == o.project
    IN  /\ o.kind = "update"
        /\ p \in projects \/ (o.parent = Keep /\ ~o.marks)
        /\ parent' = WithParent(p, o.parent)
        /\ archived' = [d \in ProjectIds |-> IF d \in Below(p) \ {p} THEN o.archived
                                             ELSE IF d = p /\ o.marks THEN o.archived
                                             ELSE archived[d]]
        /\ Commits(r)
        /\ UNCHANGED <<projects, last>>

\* The project's row is gone: an UPDATE that matches no row is an error.
UpdateFails(r) ==
    /\ op[r].kind = "update" /\ op[r].project \notin projects
    /\ op' = [op EXCEPT ![r] = NoOp]
    /\ UNCHANGED <<projects, parent, archived, last>>

\* delete_project goes down through all children, whoever owns them.
Removed(p) == {p} \cup Below(p)

DeleteProject(r) ==
    LET gone == Removed(op[r].project)
    IN  /\ op[r].kind = "delete"
        /\ projects' = projects \ gone
        /\ parent' = [p \in ProjectIds |-> IF p \in gone THEN 0 ELSE parent[p]]
        /\ archived' = [p \in ProjectIds |-> archived[p] /\ p \notin gone]
        /\ Commits(r)
        /\ UNCHANGED last

Next == \E r \in Requests :
          Read(r) \/ CreateProject(r) \/ UpdateProject(r) \/ UpdateFails(r) \/ DeleteProject(r)

Spec == Init /\ [][Next]_vars

-----------------------------------------------------------------------------
(* Properties.                                                             *)

\* No project is below itself, and no project hangs below one that is gone.
Forest == \A p \in projects : p \notin Below(p)
Rooted == \A p \in projects : parent[p] \in projects \cup {0}
Tree == Forest /\ Rooted

\* r commits, and nobody has since it read.
CommitsAlone(r) == op[r] # NoOp /\ op[r].alone /\ op'[r] = NoOp
Updates(r, p) == op[r].kind = "update" /\ op[r].project = p

\* A request that no other one has overtaken leaves a tree a tree, whatever it
\* moves, creates or deletes.
TreeKeptAlone == [][\A r \in Requests : CommitsAlone(r) /\ Tree => Tree']_vars

\* The column and what reads inherit say the same of every project.
RulesAgree == \A p \in projects : archived[p] = ReadsAsArchived(p)

\* Such a request keeps the two rules of archiving together, with one
\* exception: an update of a project that has, or is given, an archived parent.
RulesPartOnlyBelowArchived ==
    [][\A r \in Requests :
         /\ CommitsAlone(r) /\ Tree /\ RulesAgree
         /\ ~\E p \in ProjectIds : Updates(r, p) /\ ArchivedAbove(p)'
         => RulesAgree']_vars

\* No request, overtaken or not, leaves a project below itself: permissions/
\* project.py calls the error of such a hierarchy unreachable through the API.
NeverCyclic == Forest

=============================================================================
