------------------------------- MODULE Access -------------------------------
(***************************************************************************)
(* What a user may do in a project: the grants to users and to teams, the  *)
(* members of teams, and the query that resolves them up the project tree. *)
(*                                                                         *)
(* A request decides what to write on what it reads.  Any overlap of two   *)
(* is one request that reads before, and writes after, the commits of      *)
(* others: Pending holds such a request, the others commit at once.        *)
(* The project tree and its owners stand still; ProjectTree moves them.    *)
(***************************************************************************)
EXTENDS Integers, FiniteSets, FiniteSetsExt

CONSTANTS
    Users,      \* the ids of the users
    Projects,   \* the ids of the projects
    Parent,     \* the parent of each project; 0 for a root
    Owner,      \* the owner of each project
    LastId      \* the highest row id handed out (bound)

Levels == {0, 1, 2}     \* READ, WRITE, ADMIN
ADMIN == 2
NoPermission == -1

\* The recursive walk: each project on p's way up, p itself first, with its distance.
Way == [p \in Projects |->
          {a \in Projects : \A S \in SUBSET Projects :
             p \in S /\ (\A x \in S : Parent[x] # 0 => Parent[x] \in S) => a \in S}]
Hierarchy(p) == Way[p]
Level(p, a) == Cardinality(Way[p] \ Way[a])

ASSUME AccessAssumption ==
    /\ Projects \subseteq Nat \ {0} /\ IsFiniteSet(Projects) /\ LastId \in Nat
    /\ Parent \in [Projects -> Projects \cup {0}]
    /\ \A p \in Projects : Parent[p] # 0 => p \notin Hierarchy(Parent[p])
    /\ Owner \in [Projects -> Users]

VARIABLES
    db,         \* the rows of users_projects, team_projects, teams, team_members, by id
    issued,     \* the highest id handed out
    pending     \* the write that a slow request has decided upon

accessVars == <<db, issued, pending>>

UserGrants == [table : {"users_projects"}, user : Users, project : Projects, level : Levels]
TeamGrants == [table : {"team_projects"}, team : 1..LastId, project : Projects, level : Levels]
Members == [table : {"team_members"}, team : 1..LastId, user : Users, admin : BOOLEAN]
Team == [table |-> "teams"]
Row == UserGrants \cup TeamGrants \cup Members \cup {Team}

Rows(d, table) == {r \in DOMAIN d : d[r].table = table}
Teams(d) == Rows(d, "teams")
GrantsTo(d, u, p) == {r \in Rows(d, "users_projects") : d[r].user = u /\ d[r].project = p}
TeamGrantsTo(d, t, p) == {r \in Rows(d, "team_projects") : d[r].team = t /\ d[r].project = p}
MembersOf(d, t) == {r \in Rows(d, "team_members") : d[r].team = t}
Membership(d, t, u) == {r \in MembersOf(d, t) : d[r].user = u}

Nothing == [do |-> "nothing"]

-----------------------------------------------------------------------------
(* The permission query.                                                   *)

\* The levels that u's teams have on a; a membership is not checked for its team.
TeamLevels(d, u, a) == {d[r].level : r \in {g \in Rows(d, "team_projects") :
                                             d[g].project = a /\ Membership(d, d[g].team, u) # {}}}

\* What u holds on a itself: one candidate a row of users_projects, or one in all.
Held(d, u, a) ==
    LET team == IF TeamLevels(d, u, a) = {} THEN 0 ELSE Max(TeamLevels(d, u, a))
        own == {d[r].level : r \in GrantsTo(d, u, a)}
    IN  IF Owner[a] = u THEN {ADMIN}
        ELSE IF own # {} THEN {IF l > team THEN l ELSE team : l \in own}
        ELSE IF TeamLevels(d, u, a) # {} THEN {team} ELSE {}

Candidates(d, u, p) ==
    UNION {[at : {a}, level : Held(d, u, a),
            priority : {IF Owner[a] = u THEN 1 ELSE Level(p, a) + 1}] : a \in Hierarchy(p)}

\* MUTANT of Granted: the highest candidate decides.
GrantedAnywhere(d, u, p) ==
    {c \in Candidates(d, u, p) : \A other \in Candidates(d, u, p) : c.level >= other.level}
\* ROW_NUMBER() = 1: candidates of equal priority are left to the database.
Granted(d, u, p) ==
    LET all == Candidates(d, u, p)
    IN  {c \in all : \A other \in all : c.priority <= other.priority}

\* Which candidate wins for each project of a batch.
Winners(d, u, S) == {w \in [S -> {Nothing} \cup UNION {Granted(d, u, p) : p \in S}] :
                       \A p \in S : IF Granted(d, u, p) = {} THEN w[p] = Nothing
                                    ELSE w[p] \in Granted(d, u, p)}

\* The last join asks that the winner lies on p's way up, not that it won for p.
Joined(w, p) == {w[o].level : o \in {x \in DOMAIN w : w[x] # Nothing /\ w[x].at \in Hierarchy(p)}}

\* max_permissions_for_projects: what the query may answer for the projects S.
MaxPermissions(d, u, S) ==
    {[p \in S |-> IF Joined(w, p) = {} THEN NoPermission ELSE Max(Joined(w, p))] : w \in Winners(d, u, S)}
\* max_permission: the query for one project, where only p's own winner can join.
MaxPermission(d, u, p) ==
    LET granted == Granted(d, u, p)
    IN  IF granted = {} THEN {NoPermission} ELSE {c.level : c \in granted}

\* MUTANT of IsAdmin: whoever may write passes for an administrator.
CanWrite(d, u, p) == MaxPermission(d, u, p) \cap {1, ADMIN} # {}
\* is_admin: membership of a set, never a comparison.
IsAdmin(d, u, p) == MaxPermission(d, u, p) \cap {ADMIN} # {}

IsTeamAdmin(d, u, t) == \E r \in Membership(d, t, u) : d[r].admin

-----------------------------------------------------------------------------
(* The list of projects, which a query of its own selects.                 *)

DirectlyVisible(d, u) ==
    {p \in Projects : Owner[p] = u \/ GrantsTo(d, u, p) # {} \/ TeamLevels(d, u, p) # {}}

\* From everything visible directly down to the children, until none is new.
VisibleProjects(d, u) ==
    {p \in Projects : \A S \in SUBSET Projects :
       DirectlyVisible(d, u) \subseteq S /\ (\A c \in Projects : Parent[c] \in S => c \in S) => p \in S}

\* Where tasks are listed from, for the projects of a batch and for one; which of
\* them are archived is left out.
ReadableProjects(d, u) ==
    {{p \in Projects : answer[p] > NoPermission} : answer \in MaxPermissions(d, u, Projects)}
ProjectScope(d, u, p) ==
    IF p = 0 THEN ReadableProjects(d, u)
    ELSE {IF level > NoPermission THEN {p} ELSE {} : level \in MaxPermission(d, u, p)}

-----------------------------------------------------------------------------
(* What each request decides to write, on the rows d that it reads.  A     *)
(* refused request decides nothing.                                        *)

Insert(rows) == [do |-> "insert", rows |-> rows]
Update(r, row) == [do |-> "update", row |-> r, to |-> row]
Delete(r) == [do |-> "delete", rows |-> {r}]

GrantToUser(d, u, p, l) ==
    IF GrantsTo(d, u, p) = {} /\ Owner[p] # u
    THEN {Insert(<<[table |-> "users_projects", user |-> u, project |-> p, level |-> l]>>)} ELSE {}

GrantToTeam(d, t, p, l) ==
    IF t \in Teams(d) /\ TeamGrantsTo(d, t, p) = {}
    THEN {Insert(<<[table |-> "team_projects", team |-> t, project |-> p, level |-> l]>>)} ELSE {}

GrantsOn(d, p) == {r \in Rows(d, "users_projects") \cup Rows(d, "team_projects") : d[r].project = p}
ChangeGrant(d, r, l) == Update(r, [d[r] EXCEPT !.level = l])
RevokeGrant(r) == Delete(r)

\* Every one of these first asks for the administrator of the project.
Sharing(d, by) ==
    UNION {(UNION {GrantToUser(d, u, p, l) : u \in Users, l \in Levels})
             \cup (UNION {GrantToTeam(d, t, p, l) : t \in Teams(d), l \in Levels})
             \cup {ChangeGrant(d, r, l) : r \in GrantsOn(d, p), l \in Levels}
             \cup {RevokeGrant(r) : r \in GrantsOn(d, p)} : p \in {x \in Projects : IsAdmin(d, by, x)}}

CreateTeam(by, last) ==
    Insert(<<Team, [table |-> "team_members", team |-> last + 1, user |-> by, admin |-> TRUE]>>)

DeleteTeam(d, by, t) ==
    IF t \in Teams(d) /\ IsTeamAdmin(d, by, t) THEN {[do |-> "drop", team |-> t]} ELSE {}

AddMember(d, by, t, u) ==
    IF IsTeamAdmin(d, by, t) /\ Membership(d, t, u) = {}
    THEN {Insert(<<[table |-> "team_members", team |-> t, user |-> u, admin |-> FALSE]>>)} ELSE {}

\* MUTANT of RemoveMember: nobody counts the members that stay.
RemoveAnyMember(d, by, t, u) ==
    IF u = by \/ IsTeamAdmin(d, by, t) THEN {Delete(r) : r \in Membership(d, t, u)} ELSE {}
\* The members are counted before the named one is looked for; a team of one keeps it.
RemoveMember(d, by, t, u) ==
    IF (u = by \/ IsTeamAdmin(d, by, t)) /\ Cardinality(MembersOf(d, t)) # 1
    THEN {Delete(r) : r \in Membership(d, t, u)} ELSE {}

ToggleAdmin(d, by, t, u) ==
    IF IsTeamAdmin(d, by, t) THEN {Update(r, [d[r] EXCEPT !.admin = ~@]) : r \in Membership(d, t, u)} ELSE {}

\* What a request of by may decide, on the rows d.
Decisions(d, by, last) ==
    Sharing(d, by) \cup {CreateTeam(by, last)}
      \cup UNION {UNION {AddMember(d, by, t, u), RemoveMember(d, by, t, u), ToggleAdmin(d, by, t, u),
                         DeleteTeam(d, by, t)} :
                    t \in Teams(d) \cup {d[r].team : r \in Rows(d, "team_members")}, u \in Users}

-----------------------------------------------------------------------------
(* The writes.                                                             *)

Without(d, gone) == [r \in DOMAIN d \ gone |-> d[r]]

\* Members and grants go by a query of their own, at the time of the write.
DropTeam(d, t) ==
    Without(d, {t} \cup MembersOf(d, t) \cup {r \in Rows(d, "team_projects") : d[r].team = t})

\* A new team's member names its team by the id just handed out.
Renumbered(rows, last) ==
    IF rows[1] = Team THEN <<Team, [rows[2] EXCEPT !.team = last + 1]>> ELSE rows

\* A row that is gone cannot be updated (the request fails); deleting it again is nothing.
Written(d, last, w) ==
    CASE w.do = "insert" ->
           LET rows == Renumbered(w.rows, last)
           IN  [r \in DOMAIN d \cup {last + i : i \in DOMAIN rows} |->
                  IF r > last THEN rows[r - last] ELSE d[r]]
      [] w.do = "update" -> IF w.row \in DOMAIN d THEN [d EXCEPT ![w.row] = w.to] ELSE d
      [] w.do = "delete" -> Without(d, w.rows)
      [] w.do = "drop" -> DropTeam(d, w.team)

Taken(w) == IF w.do = "insert" THEN Cardinality(DOMAIN w.rows) ELSE 0

Commit(w) == /\ issued + Taken(w) <= LastId
             /\ db' = Written(db, issued, w) /\ issued' = issued + Taken(w)

\* A request that no other overtakes.
Serve(by) == \E w \in Decisions(db, by, issued) : Commit(w) /\ UNCHANGED pending

Read(by) == /\ pending = Nothing
            /\ \E w \in Decisions(db, by, issued) : pending' = w
            /\ UNCHANGED <<db, issued>>

Write == /\ pending # Nothing /\ Commit(pending) /\ pending' = Nothing

AccessInit == db = [r \in {} |-> Team] /\ issued = 0 /\ pending = Nothing

AccessNext == (\E by \in Users : Serve(by) \/ Read(by)) \/ Write

AccessSpec == AccessInit /\ [][AccessNext]_accessVars

-----------------------------------------------------------------------------
(* Properties.                                                             *)

\* These are about the rows alone, which do not change while a request is slow.
Quiet == pending = Nothing

\* The rule in the words of permissions/project.py: who owns a project on the way
\* up is its administrator, and otherwise the nearest grant decides, not the
\* highest.  A grant on the project itself may stand before an owned ancestor.
NearestDecides ==
    Quiet => \A u \in Users, p \in Projects :
      LET owned == \E a \in Hierarchy(p) : Owner[a] = u
          granted == {a \in Hierarchy(p) : Held(db, u, a) # {}}
          nearest == CHOOSE a \in granted : \A b \in granted : Level(p, a) <= Level(p, b)
      IN  MaxPermission(db, u, p) =
            CASE owned -> {ADMIN} \cup Held(db, u, p)
              [] ~owned /\ granted # {} -> Held(db, u, nearest)
              [] granted = {} -> {NoPermission}

\* Resolving several projects at once agrees with resolving each
\* (test_batching_agrees_with_resolving_one_at_a_time).
BatchAgreesWithSingle ==
    Quiet => \A u \in Users, S \in SUBSET Projects : \A answer \in MaxPermissions(db, u, S), p \in S :
      answer[p] \in MaxPermission(db, u, p)

\* Three queries find what a user may read: the list of projects walks down, tasks
\* of all projects are listed by a batch, those of one project by itself.  They agree
\* on the projects, also where a batch errs on what may be done there.
ListedIsReadable ==
    Quiet => \A u \in Users : LET listed == VisibleProjects(db, u) IN
      /\ ProjectScope(db, u, 0) = {listed}
      /\ \A p \in Projects : ProjectScope(db, u, p) = {listed \cap {p}}

\* The most that u was ever granted on p or above.
Ceiling(d, u, p) == Max({NoPermission} \cup UNION {Held(d, u, a) : a \in Hierarchy(p)})

\* What somebody may come to hold is raised only by an administrator on the way
\* up, or by a team's administrator to what the team holds, and by nobody for
\* himself.  (Leaving a team may still raise what is resolved: the next grant up
\* decides then.)
RaisedByAdminsOnly ==
    Quiet => \A by \in Users : \A w \in Decisions(db, by, issued) :
      LET after == Written(db, issued, w)
      IN  \A u \in Users, p \in Projects : Ceiling(after, u, p) > Ceiling(db, u, p) =>
            /\ u # by
            /\ \/ Ceiling(db, by, p) = ADMIN
               \/ \E a \in Hierarchy(p), t \in Teams(db) :
                    IsTeamAdmin(db, by, t) /\ Ceiling(after, u, p) \in TeamLevels(db, by, a)

\* Every team has a member, every row of a team has its team, and no row has a twin.
WellKept(d) ==
    /\ \A t \in Teams(d) : MembersOf(d, t) # {}
    /\ \A r \in Rows(d, "team_members") \cup Rows(d, "team_projects") : d[r].team \in Teams(d)
    /\ \A r, s \in Rows(d, "team_members") :
          d[r].team = d[s].team /\ d[r].user = d[s].user => r = s
    /\ \A r, s \in Rows(d, "team_projects") :
          d[r].team = d[s].team /\ d[r].project = d[s].project => r = s
    /\ \A r, s \in Rows(d, "users_projects") :
          d[r].user = d[s].user /\ d[r].project = d[s].project => r = s

\* No table has a constraint for any of that: a request alone keeps it by what it
\* checks (overlapping ones do not, see README).
AloneKeepsRows ==
    Quiet /\ WellKept(db) => \A by \in Users : \A w \in Decisions(db, by, issued) : WellKept(Written(db, issued, w))

=============================================================================
