-------------------------- MODULE ProjectTreeProofs --------------------------
(***************************************************************************)
(* Proofs about ProjectTree: a request that nobody overtakes keeps the     *)
(* hierarchy a tree, for any number of projects and requests, and so do    *)
(* all requests where they come one at a time.                             *)
(***************************************************************************)
EXTENDS ProjectTree, TLAPS

-----------------------------------------------------------------------------
(* Descendants.                                                            *)

\* Descendants form a closed set around the children, and the least one.
LEMMA BelowIsClosed ==
    ASSUME NEW p
    PROVE  Below(p) \subseteq projects /\ Children(p) \subseteq Below(p) /\ Closed(Below(p))
BY DEF Below, Children, Closed

LEMMA BelowIsLeast ==
    ASSUME NEW p, NEW S \in SUBSET projects, Closed(S), Children(p) \subseteq S
    PROVE  Below(p) \subseteq S
BY DEF Below

\* What is below p has below it only what is below p.
LEMMA BelowNests ==
    ASSUME NEW p, NEW x \in Below(p) \cup {p}
    PROVE  Below(x) \subseteq Below(p)
<1>1. Below(p) \subseteq projects /\ Closed(Below(p)) /\ Children(p) \subseteq Below(p)
  BY BelowIsClosed
<1>2. Children(x) \subseteq Below(p)
  BY <1>1 DEF Children, Closed
<1> QED
  BY <1>1, <1>2, BelowIsLeast

\* A set that is closed after the step, has x's children and not x itself,
\* shows that x is not below itself.
LEMMA NotBelowItself ==
    ASSUME NEW x, NEW S \in SUBSET projects', Closed(S)', Children(x)' \subseteq S, x \notin S
    PROVE  x \notin Below(x)'
BY DEF Below

-----------------------------------------------------------------------------
(* What each kind of write does to a tree.                                 *)

\* A project that moves below one that is not below it closes no cycle.
LEMMA MoveKeepsTree ==
    ASSUME Tree, TypeOK, NEW p \in projects, NEW q \in projects \cup {0},
           q # p, q \notin Below(p),
           projects' = projects, parent' = [parent EXCEPT ![p] = q]
    PROVE  Tree'
<1>1. Rooted'
  BY DEF Tree, Rooted, TypeOK
<1>2. \A c \in projects : parent'[c] = IF c = p THEN q ELSE parent[c]
  BY DEF TypeOK
<1> DEFINE B == Below(p) \cup {p}
<1>3. ASSUME NEW x \in projects, x \in B PROVE x \notin Below(x)'
  <2> PICK S : S = Below(x)
    OBVIOUS
  <2>1. S \subseteq Below(p) /\ x \notin S
    BY <1>3, BelowNests DEF Tree, Forest
  <2>2. S \subseteq projects /\ Closed(S) /\ Children(x) \subseteq S
    BY BelowIsClosed
  <2>3. Closed(S)' /\ Children(x)' \subseteq S
    BY <1>2, <1>3, <2>1, <2>2 DEF Closed, Children
  <2> QED
    BY <2>1, <2>2, <2>3, NotBelowItself
<1>4. ASSUME NEW x \in projects, x \notin B PROVE x \notin Below(x)'
  <2> PICK S : S = Below(x) \cup B
    OBVIOUS
  <2>1. x \notin S
    BY <1>4 DEF Tree, Forest
  <2>2. S \subseteq projects
    BY BelowIsClosed
  <2>3. Closed(S)' /\ Children(x)' \subseteq S
    <3>1. /\ Closed(Below(x)) /\ Children(x) \subseteq Below(x)
          /\ Closed(Below(p)) /\ Children(p) \subseteq Below(p)
      BY BelowIsClosed
    <3> QED
      BY <1>2, <3>1 DEF Closed, Children
  <2> QED
    BY <2>1, <2>2, <2>3, NotBelowItself
<1> QED
  BY <1>1, <1>3, <1>4 DEF Tree, Forest

\* A new project below an existing one, or below none, is a new leaf.
LEMMA NewLeafKeepsTree ==
    ASSUME Tree, TypeOK, NEW n \in ProjectIds \ projects, n # 0, NEW q \in projects \cup {0},
           projects' = projects \cup {n}, parent' = [parent EXCEPT ![n] = q]
    PROVE  Tree'
<1>1. Rooted'
  BY DEF Tree, Rooted, TypeOK
<1>2. \A c \in ProjectIds : parent'[c] = IF c = n THEN q ELSE parent[c]
  BY DEF TypeOK
<1>3. \A c \in projects : parent[c] # n
  BY DEF Tree, Rooted
<1>4. ASSUME NEW x \in projects PROVE x \notin Below(x)'
  <2> PICK S : S = Below(x) \cup {n}
    OBVIOUS
  <2>1. x \notin S
    BY <1>4 DEF Tree, Forest
  <2>2. Closed(Below(x)) /\ Children(x) \subseteq Below(x) /\ Below(x) \subseteq projects
    BY BelowIsClosed
  <2>3. Closed(S)' /\ Children(x)' \subseteq S
    BY <1>2, <1>3, <2>2 DEF Closed, Children, TypeOK
  <2> QED
    BY <2>1, <2>2, <2>3, NotBelowItself
<1>5. n \notin Below(n)'
  <2>1. Closed({})' /\ Children(n)' \subseteq {}
    BY <1>2, <1>3 DEF Closed, Children, TypeOK
  <2> QED
    BY <2>1, NotBelowItself
<1> QED
  BY <1>1, <1>4, <1>5 DEF Tree, Forest

\* A project leaves with everything below it.
LEMMA RemovalKeepsTree ==
    ASSUME Tree, TypeOK, NEW p \in ProjectIds, NEW gone, gone = Removed(p),
           projects' = projects \ gone,
           parent' = [d \in ProjectIds |-> IF d \in gone THEN 0 ELSE parent[d]]
    PROVE  Tree'
<1>1. Closed(Below(p)) /\ Children(p) \subseteq Below(p)
  BY BelowIsClosed
<1>2. \A c \in projects' : c \in projects /\ c \notin gone /\ parent'[c] = parent[c]
  BY DEF TypeOK
<1>3. \A c \in projects' : parent[c] \notin gone
  BY <1>1, <1>2 DEF Removed, Closed, Children
<1>4. Rooted'
  BY <1>2, <1>3 DEF Tree, Rooted
<1>5. ASSUME NEW x \in projects' PROVE x \notin Below(x)'
  <2> PICK S : S = Below(x) \ gone
    OBVIOUS
  <2>1. x \notin S
    BY <1>2, <1>5 DEF Tree, Forest
  <2>2. Closed(Below(x)) /\ Children(x) \subseteq Below(x) /\ Below(x) \subseteq projects
    BY BelowIsClosed
  <2>3. Closed(S)' /\ Children(x)' \subseteq S
    BY <1>2, <2>2 DEF Closed, Children
  <2> QED
    BY <2>1, <2>2, <2>3, NotBelowItself
<1> QED
  BY <1>4, <1>5 DEF Tree, Forest

-----------------------------------------------------------------------------
(* Types.                                                                  *)

\* Being overtaken leaves a request one of its kind.
LEMMA OvertakenType ==
    ASSUME NEW o \in Op, o # NoOp
    PROVE  /\ [o EXCEPT !.alone = FALSE] \in Op /\ [o EXCEPT !.alone = FALSE] # NoOp
           /\ [o EXCEPT !.alone = FALSE].alone = FALSE
<1>1. CASE o \in Create
  BY <1>1 DEF Create, Op, NoOp
<1>2. CASE o \in Update
  BY <1>2 DEF Update, Op, NoOp
<1>3. CASE o \in Delete
  BY <1>3 DEF Delete, Op, NoOp
<1> QED
  BY <1>1, <1>2, <1>3 DEF Op

\* After a commit every request is still one of its kind, and none that goes on
\* is alone any more.
LEMMA CommitsType ==
    ASSUME TypeOK, NEW r \in Requests, Commits(r)
    PROVE  /\ op' \in [Requests -> Op]
           /\ \A s \in Requests : op'[s] = NoOp \/ ~op'[s].alone
<1>1. \A s \in Requests : op[s] \in Op
  BY DEF TypeOK
<1>2. NoOp \in Op
  BY DEF Op
<1>3. \A s \in Requests : op'[s] = IF s = r \/ op[s] = NoOp THEN NoOp
                                   ELSE [op[s] EXCEPT !.alone = FALSE]
  BY DEF Commits
<1>4. op' = [s \in Requests |-> op'[s]]
  BY DEF Commits
<1>5. \A s \in Requests : op'[s] \in Op /\ (op'[s] = NoOp \/ ~op'[s].alone)
  BY <1>1, <1>2, <1>3, OvertakenType
<1> QED
  BY <1>4, <1>5

\* What a request is when it has passed its checks.
LEMMA ReadType ==
    ASSUME TypeOK
    PROVE  /\ \A q \in ProjectIds \cup {0} :
                [kind |-> "create", parent |-> q, alone |-> TRUE] \in Op
           /\ \A p \in ProjectIds, q \in ProjectIds \cup {0}, archive \in BOOLEAN :
                UpdateOp(p, q, archive) \in Op
           /\ \A p \in ProjectIds : [kind |-> "delete", project |-> p, alone |-> TRUE] \in Op
<1>1. \A q \in ProjectIds \cup {0} :
        [kind |-> "create", parent |-> q, alone |-> TRUE] \in Create
  BY DEF Create
<1>2. \A p \in ProjectIds, q \in ProjectIds \cup {0}, archive \in BOOLEAN :
        UpdateOp(p, q, archive) \in Update
  BY DEF UpdateOp, Update
<1>3. \A p \in ProjectIds : [kind |-> "delete", project |-> p, alone |-> TRUE] \in Delete
  BY DEF Delete
<1> QED
  BY <1>1, <1>2, <1>3 DEF Op

\* The fields of a request of each kind.
LEMMA OpFields ==
    ASSUME NEW o \in Op
    PROVE  /\ o.kind = "create" => o.parent \in ProjectIds \cup {0}
           /\ o.kind = "update" => /\ o.project \in ProjectIds
                                   /\ o.parent \in ProjectIds \cup {0, Keep}
                                   /\ o.archived \in BOOLEAN /\ o.marks \in BOOLEAN
           /\ o.kind = "delete" => o.project \in ProjectIds
           /\ o.kind \in {"create", "update", "delete", "none"}
           /\ o.kind = "none" => o = NoOp
BY DEF Op, Create, Update, Delete, NoOp

\* Ids are handed out in order, and a request that nobody has overtaken still
\* has what it checked: a parent that exists and is not below the project, nor archived
\* where a project is created below it, and the flag that it set out to change.
CheckedOp(o) ==
    /\ o.kind = "create" => /\ o.parent \in projects \cup {0}
                            /\ o.parent \in projects => ~archived[o.parent]
    /\ o.kind = "update" => /\ o.project \in projects
                            /\ o.marks = (o.archived # archived[o.project])
                            /\ o.parent \in projects \cup {0, Keep}
                            /\ o.parent # o.project /\ o.parent \notin Below(o.project)
TreeInv ==
    /\ TypeOK
    /\ \A p \in projects : p <= last
    /\ \A r \in Requests : op[r].alone => CheckedOp(op[r])

\* An empty database satisfies it.
LEMMA TreeInvInit == Init => TreeInv
<1> SUFFICES ASSUME Init PROVE TreeInv
  OBVIOUS
<1>1. NoOp \in Op
  BY DEF Op
<1> QED
  BY <1>1 DEF Init, TreeInv, TypeOK, CheckedOp, NoOp

\* A request that passes its checks has what they ask for.
LEMMA TreeInvRead == ASSUME TreeInv, NEW r \in Requests, Read(r) PROVE TreeInv'
<1>1. /\ projects' = projects /\ parent' = parent /\ archived' = archived /\ last' = last
  BY DEF Read
<1>2. PICK o \in Op : op' = [op EXCEPT ![r] = o] /\ CheckedOp(o)
  <2>1. ASSUME NEW q \in ProjectIds \cup {0}, CreateAllowed(q),
               op' = [op EXCEPT ![r] = [kind |-> "create", parent |-> q, alone |-> TRUE]]
        PROVE  \E o \in Op : op' = [op EXCEPT ![r] = o] /\ CheckedOp(o)
    <3> DEFINE o == [kind |-> "create", parent |-> q, alone |-> TRUE]
    <3>1. CheckedOp(o)
      BY <2>1, ProjectIdsAssumption DEF CreateAllowed, ReadsAsArchived, CheckedOp, TreeInv, TypeOK
    <3> QED
      BY <2>1, <3>1, ReadType DEF TreeInv
  <2>2. ASSUME NEW p \in projects, NEW q \in ProjectIds \cup {0}, NEW archive \in BOOLEAN,
               ~Endless(p), MoveAllowed(p, q), op' = [op EXCEPT ![r] = UpdateOp(p, q, archive)]
        PROVE  \E o \in Op : op' = [op EXCEPT ![r] = o] /\ CheckedOp(o)
    <3> DEFINE o == UpdateOp(p, q, archive)
    <3>1. p \in ProjectIds /\ p \in Nat \ {0} /\ Keep \notin Nat
      BY ProjectIdsAssumption DEF TreeInv, TypeOK, Keep
    <3>2. Below(p) \subseteq Nat \ {0}
      BY BelowIsClosed, ProjectIdsAssumption DEF TreeInv, TypeOK
    <3>3. /\ o.kind = "update" /\ o.project = p /\ o.parent = IF q = parent[p] THEN Keep ELSE q
          /\ o.marks = (o.archived # archived[p])
      BY DEF UpdateOp
    <3>4. CheckedOp(o)
      BY <2>2, <3>1, <3>2, <3>3 DEF MoveAllowed, ClosesCycle, CheckedOp
    <3> QED
      BY <2>2, <3>1, <3>4, ReadType DEF TreeInv
  <2>3. ASSUME NEW p \in projects,
               op' = [op EXCEPT ![r] = [kind |-> "delete", project |-> p, alone |-> TRUE]]
        PROVE  \E o \in Op : op' = [op EXCEPT ![r] = o] /\ CheckedOp(o)
    <3> DEFINE o == [kind |-> "delete", project |-> p, alone |-> TRUE]
    <3>1. p \in ProjectIds /\ CheckedOp(o)
      BY DEF CheckedOp, TreeInv, TypeOK
    <3> QED
      BY <2>3, <3>1, ReadType DEF TreeInv
  <2> QED
    BY <2>1, <2>2, <2>3 DEF Read
<1>3. \A p : Below(p)' = Below(p)
  BY <1>1 DEF Below, Closed, Children
<1>4. TypeOK'
  BY <1>1, <1>2 DEF TreeInv, TypeOK
<1>5. \A s \in Requests : op'[s].alone => CheckedOp(op'[s])
  BY <1>2 DEF TreeInv, TypeOK
<1>6. \A s \in Requests : op'[s].alone => CheckedOp(op[s])'
  BY <1>1, <1>3, <1>5 DEF CheckedOp
<1> QED
  BY <1>1, <1>4, <1>6 DEF TreeInv

\* A commit leaves no request alone that is still under way.
LEMMA TreeInvCommit ==
    ASSUME TreeInv, NEW r \in Requests, Commits(r),
           projects' \subseteq ProjectIds, parent' \in [ProjectIds -> ProjectIds \cup {0}],
           archived' \in [ProjectIds -> BOOLEAN], last' \in Nat,
           \A p \in projects' : p <= last'
    PROVE  TreeInv'
<1>1. /\ op' \in [Requests -> Op]
      /\ \A s \in Requests : op'[s] = NoOp \/ ~op'[s].alone
  BY CommitsType DEF TreeInv
<1>2. \A s \in Requests : op'[s].alone => CheckedOp(op[s])'
  BY <1>1 DEF CheckedOp, NoOp
<1> QED
  BY <1>1, <1>2 DEF TreeInv, TypeOK

\* Every step keeps the invariant.
LEMMA TreeInvStep == TreeInv /\ [Next]_vars => TreeInv'
<1> SUFFICES ASSUME TreeInv, [Next]_vars PROVE TreeInv'
  OBVIOUS
<1>0. /\ \A r \in Requests : op[r] \in Op
      /\ last \in Nat /\ projects \subseteq ProjectIds /\ ProjectIds \subseteq Nat
  BY ProjectIdsAssumption DEF TreeInv, TypeOK
<1>1. ASSUME NEW r \in Requests, CreateProject(r) PROVE TreeInv'
  <2>1. op[r].parent \in ProjectIds \cup {0}
    BY <1>0, <1>1, OpFields DEF CreateProject
  <2>2. /\ projects' \subseteq ProjectIds /\ parent' \in [ProjectIds -> ProjectIds \cup {0}]
        /\ archived' \in [ProjectIds -> BOOLEAN] /\ last' \in Nat
    BY <1>0, <1>1, <2>1 DEF CreateProject, TreeInv, TypeOK
  <2>3. \A p \in projects' : p <= last'
    BY <1>0, <1>1 DEF CreateProject, TreeInv
  <2> QED
    BY <1>1, <2>2, <2>3, TreeInvCommit DEF CreateProject
<1>2. ASSUME NEW r \in Requests, UpdateProject(r) PROVE TreeInv'
  <2>1. /\ op[r].project \in ProjectIds /\ op[r].parent \in ProjectIds \cup {0, Keep}
        /\ op[r].archived \in BOOLEAN
    BY <1>0, <1>2, OpFields DEF UpdateProject
  <2>2. parent' \in [ProjectIds -> ProjectIds \cup {0}]
    BY <1>2, <2>1 DEF UpdateProject, WithParent, TreeInv, TypeOK
  <2>3. archived' \in [ProjectIds -> BOOLEAN]
    BY <1>2, <2>1 DEF UpdateProject, TreeInv, TypeOK
  <2> QED
    BY <1>0, <1>2, <2>2, <2>3, TreeInvCommit DEF UpdateProject, TreeInv
<1>3. ASSUME NEW r \in Requests, DeleteProject(r) PROVE TreeInv'
  <2>1. parent' \in [ProjectIds -> ProjectIds \cup {0}] /\ archived' \in [ProjectIds -> BOOLEAN]
    <3>1. \A p \in ProjectIds : parent[p] \in ProjectIds \cup {0} /\ archived[p] \in BOOLEAN
      BY DEF TreeInv, TypeOK
    <3>2. \A p \in ProjectIds : (archived[p] /\ p \notin Removed(op[r].project)) \in BOOLEAN
      OBVIOUS
    <3> QED
      BY <1>3, <3>1, <3>2 DEF DeleteProject
  <2>2. projects' \subseteq projects /\ last' = last
    BY <1>3 DEF DeleteProject
  <2> QED
    BY <1>0, <1>3, <2>1, <2>2, TreeInvCommit DEF DeleteProject, TreeInv
<1>4. ASSUME NEW r \in Requests, UpdateFails(r) \/ UNCHANGED vars PROVE TreeInv'
  <2>1. /\ projects' = projects /\ parent' = parent /\ archived' = archived /\ last' = last
        /\ op' = [op EXCEPT ![r] = NoOp] \/ op' = op
    BY <1>4 DEF UpdateFails, vars
  <2>2. \A p : Below(p)' = Below(p)
    BY <2>1 DEF Below, Closed, Children
  <2>3. NoOp \in Op /\ CheckedOp(NoOp)
    BY DEF Op, NoOp, CheckedOp
  <2>4. op' \in [Requests -> Op] /\ \A s \in Requests : op'[s].alone => CheckedOp(op'[s])
    BY <2>1, <2>3 DEF TreeInv, TypeOK
  <2>5. \A s \in Requests : op'[s].alone => CheckedOp(op[s])'
    BY <2>1, <2>2, <2>4 DEF CheckedOp
  <2> QED
    BY <2>1, <2>4, <2>5 DEF TreeInv, TypeOK
<1>5. CASE UNCHANGED vars
  <2>1. \A p : Below(p)' = Below(p)
    BY <1>5 DEF Below, Closed, Children, vars
  <2> QED
    BY <1>5, <2>1 DEF TreeInv, TypeOK, CheckedOp, vars
<1> QED
  BY <1>1, <1>2, <1>3, <1>4, <1>5, TreeInvRead DEF Next

\* The state always has its type, ids are handed out in order, and who is alone
\* has what it checked.
THEOREM TreeTypeCorrect == Spec => []TypeOK
<1>1. TreeInv => TypeOK
  BY DEF TreeInv
<1> QED
  BY <1>1, TreeInvInit, TreeInvStep, PTL DEF Spec

-----------------------------------------------------------------------------
(* Requests that nobody overtakes.                                         *)

\* A request ends in a step of its own.
LEMMA OwnCommit ==
    ASSUME TreeInv, [Next]_vars, NEW r \in Requests, CommitsAlone(r)
    PROVE  CreateProject(r) \/ UpdateProject(r) \/ UpdateFails(r) \/ DeleteProject(r)
<1>1. op[r] \in Op /\ op[r] # NoOp /\ op'[r] = NoOp
  BY DEF CommitsAlone, TreeInv, TypeOK
<1>2. ASSUME NEW s \in Requests, s # r, Commits(s) PROVE FALSE
  <2>1. op'[r] = [op[r] EXCEPT !.alone = FALSE]
    BY <1>1, <1>2 DEF Commits
  <2> QED
    BY <1>1, <2>1, OvertakenType
<1>3. ASSUME NEW s \in Requests, Read(s) PROVE FALSE
  BY <1>1, <1>3 DEF Read, TreeInv, TypeOK
<1>4. ASSUME NEW s \in Requests, s # r, UpdateFails(s) PROVE FALSE
  BY <1>1, <1>4 DEF UpdateFails, TreeInv, TypeOK
<1> QED
  BY <1>1, <1>2, <1>3, <1>4 DEF Next, vars, CreateProject, UpdateProject, DeleteProject

\* check_no_cycle, the lookup of the new parent and the recursion of
\* delete_project are enough for a request that runs on its own.
LEMMA AloneKeepsTree ==
    ASSUME TreeInv, [Next]_vars, NEW r \in Requests, CommitsAlone(r), Tree
    PROVE  Tree'
<1>0. TypeOK /\ op[r] \in Op /\ CheckedOp(op[r])
  BY DEF TreeInv, TypeOK, CommitsAlone
<1>1. CASE CreateProject(r)
  <2>1. last + 1 \in ProjectIds \ projects /\ last + 1 # 0
    BY <1>1, ProjectIdsAssumption DEF CreateProject, TreeInv, TypeOK
  <2>2. op[r].parent \in projects \cup {0}
    BY <1>0, <1>1 DEF CreateProject, CheckedOp
  <2> QED
    BY <1>0, <1>1, <2>1, <2>2, NewLeafKeepsTree DEF CreateProject
<1>2. CASE UpdateProject(r)
  <2>1. /\ op[r].project \in projects /\ op[r].parent \in projects \cup {0, Keep}
        /\ op[r].parent # op[r].project /\ op[r].parent \notin Below(op[r].project)
    BY <1>0, <1>2 DEF UpdateProject, CheckedOp
  <2>2. CASE op[r].parent = Keep
    <3>1. projects' = projects /\ parent' = parent
      BY <1>2, <2>2 DEF UpdateProject, WithParent
    <3> QED
      BY <3>1 DEF Tree, Forest, Rooted, Below, Closed, Children
  <2>3. CASE op[r].parent # Keep
    <3>1. projects' = projects /\ parent' = [parent EXCEPT ![op[r].project] = op[r].parent]
      BY <1>2, <2>3 DEF UpdateProject, WithParent
    <3> QED
      BY <1>0, <2>1, <2>3, <3>1, MoveKeepsTree
  <2> QED
    BY <2>2, <2>3
<1>3. CASE DeleteProject(r)
  <2>1. op[r].project \in ProjectIds
    BY <1>0, <1>3, OpFields DEF DeleteProject
  <2>2. PICK gone : gone = Removed(op[r].project)
    OBVIOUS
  <2> QED
    BY <1>0, <1>3, <2>1, <2>2, RemovalKeepsTree DEF DeleteProject
<1>4. CASE UpdateFails(r)
  BY <1>4 DEF UpdateFails, Tree, Forest, Rooted, Below, Closed, Children
<1> QED
  BY <1>1, <1>2, <1>3, <1>4, OwnCommit

\* Whatever else is under way: the requests that lose the race are the only
\* ones that can close a cycle or leave a project below one that is gone.
THEOREM AloneTreeKept == Spec => TreeKeptAlone
<1>1. ASSUME TreeInv, [Next]_vars
      PROVE  \A r \in Requests : CommitsAlone(r) /\ Tree => Tree'
  BY <1>1, AloneKeepsTree
<1> QED
  BY <1>1, TreeInvInit, TreeInvStep, PTL DEF Spec, TreeKeptAlone

-----------------------------------------------------------------------------
(* The two rules of archiving.                                             *)

Marked == {p \in projects : archived[p]}

\* The rules agree where the column reaches from every project to its children.
LEMMA RulesAgreeWhenClosed ==
    ASSUME TypeOK
    PROVE  RulesAgree <=> Closed(Marked)
<1>1. ASSUME Closed(Marked), NEW a \in projects, archived[a], NEW p \in Below(a) PROVE archived[p]
  <2>1. Children(a) \subseteq Marked /\ Marked \in SUBSET projects
    BY <1>1 DEF Marked, Children, Closed
  <2> QED
    BY <1>1, <2>1, BelowIsLeast DEF Marked
<1>2. ASSUME RulesAgree, NEW c \in projects, parent[c] \in Marked PROVE c \in Marked
  <2>1. c \in Below(parent[c])
    BY BelowIsClosed DEF Children
  <2> QED
    BY <1>2, <2>1 DEF RulesAgree, ReadsAsArchived, ArchivedAbove, Marked
<1>3. \A p \in projects : archived[p] \in BOOLEAN
  BY DEF TypeOK
<1> QED
  BY <1>1, <1>2, <1>3 DEF RulesAgree, ReadsAsArchived, ArchivedAbove, Closed

LEMMA RulesAgreeWhenClosedNext ==
    ASSUME TypeOK'
    PROVE  Closed(Marked)' => RulesAgree'
<1>1. ASSUME Closed(Marked)', NEW a \in projects', archived'[a], NEW p \in Below(a)' PROVE archived'[p]
  <2>1. Children(a)' \subseteq Marked' /\ Marked' \in SUBSET projects'
    BY <1>1 DEF Marked, Children, Closed
  <2> QED
    BY <1>1, <2>1 DEF Marked, Below
<1>2. \A p \in projects' : archived'[p] \in BOOLEAN
  BY DEF TypeOK
<1> QED
  BY <1>1, <1>2 DEF RulesAgree, ReadsAsArchived, ArchivedAbove

\* What is below a project hangs directly below it, or below something else that is.
LEMMA ParentBelow ==
    ASSUME NEW p, NEW c \in Below(p)
    PROVE  parent[c] \in Below(p) \cup {p}
<1> DEFINE S == {d \in Below(p) : parent[d] \in Below(p) \cup {p}}
<1>1. Below(p) \subseteq projects /\ Children(p) \subseteq Below(p) /\ Closed(Below(p))
  BY BelowIsClosed
<1>2. S \in SUBSET projects /\ Closed(S) /\ Children(p) \subseteq S
  BY <1>1 DEF Closed, Children
<1> HIDE DEF S
<1>3. Below(p) \subseteq S
  BY <1>2, BelowIsLeast
<1> QED
  BY <1>3 DEF S

\* An update writes the column of its project and of everything below it; above that,
\* the column does not reach it.
LEMMA UpdateKeepsRules ==
    ASSUME TreeInv, Tree, Closed(Marked), NEW r \in Requests, op[r].alone, UpdateProject(r),
           NEW p, p = op[r].project, ~ArchivedAbove(p)'
    PROVE  Closed(Marked)'
<1> DEFINE o == op[r]
           B == Below(p) \cup {p}
<1>1. o \in Op /\ CheckedOp(o) /\ o.kind = "update"
  BY DEF TreeInv, TypeOK, UpdateProject
<1>2. p \in projects /\ o.archived \in BOOLEAN /\ (o.marks = (o.archived # archived[p]))
  BY <1>1, OpFields DEF CheckedOp
<1>3. p \notin Below(p) /\ archived[p] \in BOOLEAN /\ projects \subseteq ProjectIds
  BY <1>2 DEF Tree, Forest, TreeInv, TypeOK
<1>4. \A d \in projects : archived'[d] = IF d \in B THEN o.archived ELSE archived[d]
  <2>1. \A d \in projects : archived'[d] = IF d \in Below(p) \ {p} THEN o.archived
                                          ELSE IF d = p /\ o.marks THEN o.archived ELSE archived[d]
    BY <1>3 DEF UpdateProject
  <2> QED
    BY <1>2, <1>3, <2>1
<1>5. projects' = projects /\ \A d \in projects : d # p => parent'[d] = parent[d]
  BY DEF UpdateProject, WithParent, TreeInv, TypeOK
<1>6. Closed(Below(p)) /\ Children(p) \subseteq Below(p)
  BY BelowIsClosed
<1>7. \A c \in Below(p) : parent[c] \in B
  BY ParentBelow
<1> SUFFICES ASSUME NEW c \in projects, parent'[c] \in projects, archived'[parent'[c]]
             PROVE  archived'[c]
  BY <1>5 DEF Closed, Marked
<1>8. CASE c = p
  <2> PICK q \in projects : q = parent'[c]
    OBVIOUS
  <2>1. c \in Below(q)'
    BY <1>5 DEF Below, Children
  <2> QED
    BY <1>5, <1>8, <2>1 DEF ArchivedAbove
<1> HIDE DEF o
<1>9. CASE c \in Below(p) /\ c # p
  BY <1>4, <1>5, <1>7, <1>9
<1>10. CASE c \notin B
  <2>1. parent'[c] = parent[c] /\ parent[c] \notin B
    BY <1>5, <1>6, <1>10 DEF Closed, Children
  <2> QED
    BY <1>4, <1>10, <2>1 DEF Closed, Marked
<1> QED
  BY <1>8, <1>9, <1>10

\* Nor does any other request that nobody overtakes.
LEMMA AloneKeepsRules ==
    ASSUME TreeInv, [Next]_vars, NEW r \in Requests, CommitsAlone(r), Tree, RulesAgree,
           ~\E p \in ProjectIds : Updates(r, p) /\ ArchivedAbove(p)'
    PROVE  RulesAgree'
<1>0. TypeOK /\ TypeOK' /\ op[r] \in Op /\ CheckedOp(op[r]) /\ Closed(Marked)
  BY TreeInvStep, RulesAgreeWhenClosed DEF TreeInv, TypeOK, CommitsAlone
<1>1. CASE CreateProject(r)
  <2> DEFINE n == last + 1
  <2>1. n \in ProjectIds /\ n \notin projects
    BY <1>1, ProjectIdsAssumption DEF CreateProject, TreeInv, TypeOK
  <2>2. op[r].parent \notin Marked
    BY <1>0, <1>1 DEF CreateProject, CheckedOp, Marked
  <2>3. /\ projects' = projects \cup {n} /\ ~archived'[n] /\ parent'[n] = op[r].parent
        /\ \A d \in projects : parent'[d] = parent[d] /\ archived'[d] = archived[d]
    BY <1>0, <1>1, <2>1 DEF CreateProject, TypeOK
  <2> HIDE DEF n
  <2>4. Marked' = Marked
    BY <2>1, <2>3 DEF Marked
  <2>5. Closed(Marked)'
    BY <1>0, <2>2, <2>3, <2>4 DEF Closed
  <2> QED
    BY <1>0, <2>5, RulesAgreeWhenClosedNext
<1>2. CASE UpdateProject(r)
  <2>1. op[r].project \in ProjectIds /\ op[r].alone
    BY <1>0, <1>2, OpFields DEF UpdateProject, CommitsAlone
  <2> PICK p \in ProjectIds : p = op[r].project
    BY <2>1
  <2>2. ~ArchivedAbove(p)'
    BY <1>2 DEF Updates, UpdateProject
  <2> QED
    BY <1>0, <1>2, <2>1, <2>2, UpdateKeepsRules, RulesAgreeWhenClosedNext
<1>3. CASE DeleteProject(r)
  <2>1. /\ projects' \subseteq projects
        /\ \A d \in projects' : parent'[d] = parent[d] /\ archived'[d] = archived[d]
    BY <1>0, <1>3 DEF DeleteProject, TypeOK
  <2>2. Closed(Marked)'
    BY <1>0, <2>1 DEF Closed, Marked
  <2> QED
    BY <1>0, <2>2, RulesAgreeWhenClosedNext
<1>4. CASE UpdateFails(r)
  <2>1. Closed(Marked)'
    BY <1>0, <1>4 DEF UpdateFails, Closed, Marked
  <2> QED
    BY <1>0, <2>1, RulesAgreeWhenClosedNext
<1> QED
  BY <1>1, <1>2, <1>3, <1>4, OwnCommit

\* An update of a project with an archived parent is the only request that can part the
\* two rules when nobody overtakes it.
THEOREM OnlyBelowArchived == Spec => RulesPartOnlyBelowArchived
<1>1. ASSUME TreeInv, [Next]_vars
      PROVE  \A r \in Requests :
               /\ CommitsAlone(r) /\ Tree /\ RulesAgree
               /\ ~\E p \in ProjectIds : Updates(r, p) /\ ArchivedAbove(p)'
               => RulesAgree'
  BY <1>1, AloneKeepsRules
<1> QED
  BY <1>1, TreeInvInit, TreeInvStep, PTL DEF Spec, RulesPartOnlyBelowArchived

-----------------------------------------------------------------------------
(* Requests one at a time.                                                 *)

\* Where requests come one at a time the hierarchy is a tree forever.
THEOREM OneAtATime ==
    ASSUME \A r, s \in Requests : r = s
    PROVE  Spec => []NeverCyclic
<1> DEFINE Inv == TreeInv /\ Tree /\ \A r \in Requests : op[r].alone
<1>1. Init => Inv
  <2> SUFFICES ASSUME Init PROVE Inv
    OBVIOUS
  <2>1. Tree
    BY DEF Init, Tree, Forest, Rooted
  <2> QED
    BY <2>1, TreeInvInit DEF Init, NoOp
<1>2. Inv /\ [Next]_vars => Inv'
  <2> SUFFICES ASSUME Inv, [Next]_vars PROVE Inv'
    OBVIOUS
  <2>1. TreeInv'
    BY TreeInvStep
  <2>2. CASE \E r \in Requests : Read(r)
    <3>1. projects' = projects /\ parent' = parent
      BY <2>2 DEF Read
    <3>2. Tree'
      BY <3>1 DEF Tree, Forest, Rooted, Below, Closed, Children
    <3>3. \A r \in Requests : op'[r].alone
      BY <2>2 DEF Read, UpdateOp, TreeInv, TypeOK
    <3> QED
      BY <2>1, <3>2, <3>3
  <2>3. ASSUME NEW r \in Requests,
               CreateProject(r) \/ UpdateProject(r) \/ UpdateFails(r) \/ DeleteProject(r)
        PROVE  Inv'
    <3>1. op[r] # NoOp /\ op[r].alone
      BY <2>3 DEF CreateProject, UpdateProject, UpdateFails, DeleteProject, NoOp
    <3>2. op'[r] = NoOp
      BY <2>3 DEF CreateProject, UpdateProject, UpdateFails, DeleteProject, Commits, TreeInv, TypeOK
    <3>3. Tree'
      BY <3>1, <3>2, AloneKeepsTree DEF CommitsAlone
    <3>4. \A s \in Requests : op'[s].alone
      BY <3>2 DEF NoOp
    <3> QED
      BY <2>1, <3>3, <3>4
  <2>4. CASE UNCHANGED vars
    BY <2>1, <2>4 DEF vars, Tree, Forest, Rooted, Below, Closed, Children
  <2> QED
    BY <2>2, <2>3, <2>4 DEF Next
<1>3. Inv => NeverCyclic
  BY DEF Tree, NeverCyclic
<1> QED
  BY <1>1, <1>2, <1>3, PTL DEF Spec
=============================================================================
