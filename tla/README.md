# TLA+ models of Calton

Calton is a to-do service: a Python server (FastAPI, SQLAlchemy, SQLite or
MySQL) that reproduces the HTTP interface of an existing Go server, and a React
client. This directory holds its TLA+ models, the TLC configurations that check
them, and proofs that TLAPS checks. `PROJECT.json` lists the components, the
runs, the source lines behind every definition, the hazards and the findings.

Paths below are relative to `src/server/src/calton/` unless they start with
`web-react/`.

## The system

Every request is a plain `def` that FastAPI runs on a thread of its pool, with a
database session of its own (`db/session.py`). All shared state but the bytes of
attachments is in the database; a service reads, decides, writes and commits
once, and an exception closes the session without a commit. Sessions do not flush
on a query (`autoflush=False`). SQLite runs in WAL mode with a busy timeout of
5 s; pysqlite opens a transaction only at the first INSERT, UPDATE or DELETE, so
that what a request reads before it writes is outside of any transaction. MySQL
runs with InnoDB's default REPEATABLE READ. Nothing is queued, and no background
job runs. Few of the rules below are constraints of the database.

| Component | State | Operations | Hard behaviour | What makes it correct |
|---|---|---|---|---|
| Boards (`bucket_service`, `task_placement`) | `buckets`, `task_buckets`, `task_positions` | create, update, delete a bucket; drag a task; place a task | the done bucket and the task's `done` are two copies of one fact; deletion rehomes rows; paths name views that nobody checks | rows stay in their own view, pointers live, nothing drops out of a board, `done_at` follows `done` |
| Projects and views (`project_service`, `project_view_service`) | `projects`, `project_views` | create (with five default rows), update, re-parent, archive, delete recursively; create, replace, delete a view | replacing a view resets its pointers; deletions leave rows behind; concurrent re-parenting | no cycle of projects; an archived parent archives its children; every live task has a row in every view |
| Tasks (`task_service`) | `tasks` | create, update, move between projects, soft delete | index allocation under a unique index, with savepoints and retries | unique indices, a task appears whole or not at all |
| Repeating tasks (`reschedule`) | dates and reminders of a task | complete by an update or a drag | intervals that elapsed, short months | the next occurrence is on the series and in the future; a series goes on |
| Assignees, favourites, bulk (`assignee_service`, `task_bulk`) | `task_assignees`, `favorites` | assign, unassign, replace, update, bulk update | requests overlap between read and write; the bulk path writes twice | one row per user, later rows survive |
| Labels (`label_service`) | `labels`, `label_tasks` | create, attach, detach, replace, delete | visible is usable; rows of deleted labels stay | nobody is shown a label by someone who could not see it |
| Relations (`relation_service`) | `task_relations`, two rows a relation | create, delete | cycle check before the write; two rows that belong together | symmetry, no cycle of subtasks |
| Collections (`task_collection`, `task_sort`, `core/pagination`) | none | sort, page, expand, prefetch | ties between pages, recursion over subtasks | pages partition the result, the walk ends, the prefetch shows what a single read shows |
| Filter language (`filters/`) | none | rewrite, scan, parse, compile, date arithmetic | quotes, precedence, rows of sub-tables, ends of months | the condition means what was written |
| Permissions, sharing, teams (`permissions/`, `sharing_service`, `team_*`) | owners, `users_projects`, `team_projects`, `teams`, `team_members` | grant, change, revoke; join, leave, promote | inherited along a chain; counted, then written | the nearest grant decides, lists agree with it, only administrators raise |
| Accounts (`user_*`, `admin_service`) | `users`, `totp`, `user_tokens` | register, change, reset, enroll, promote | lookups by name or address; overlapping writes | an administrator stays, a login finds one user, nothing is taken back |
| Sessions and tokens (`auth/`) | `sessions`, JWTs, API tokens | log in, refresh (rotates the secret), log out | two refreshes with one cookie, a lost answer | a revoked session stays revoked |
| Route registry (`core/route_registry`) | the keys of routes | register, look up | keys derived from paths collide | a token reaches what it was granted |
| Comments, saved filters, webhooks, views | one table each | CRUD by the ids of a path | the body may name another place than the path | a request changes what is its user's |
| Attachments (`attachment_service`, `file_storage`) | `files`, `task_attachments`, bytes on disk | upload, download, delete | two stores and no transaction over both | a committed row has its bytes |
| Web client (`web-react/src/`) | query cache, token, one refresh in flight | optimistic drag, refetch, refresh, retry | answers out of order, one of two calls failing | the board converges to the server's, one retry |
| Notifications, event bus, registries of errors, contract tooling, pages | - | - | - | see *Not modelled* |

Tasks call placement inside their own transaction; buckets call tasks for
`reschedule` and `is_repeating`; bulk calls assignees and tasks; views and
projects create buckets and placements; collections read what relations write and
what filters compile to; everything asks the permissions first. The web client
talks to all of it through one API client, which renews its token by itself.

## The modules

Except where something else is said, a request is what happens from its first
check to its commit. Where requests overlap it is split in two: what it reads,
with the decisions taken on it, and what it then writes and commits. In between
others may commit. That is the finest interleaving the engines show: a write
becomes visible at a commit, and what a request read is not read again unless the
code reads it again. Some modules let every request be slow, others keep one
slow request while the others commit at once (`Access`, `Accounts`): any overlap
of two is then still a behaviour.

### Boards, projects and tasks

**KanbanBoard** models the tables behind a board and all requests that write
them, one action per request. A table is a function from ids to rows and `last`
holds the highest id each table ever issued (AUTOINCREMENT).

| Actions | Code |
|---|---|
| `CreateProject`, `DeleteProject` | `create_project`, `create_default_views`, `create_default_buckets`, `delete_project` |
| `CreateView`, `UpdateView`, `DeleteView` | `project_view_service`, `api/v1/views.py` |
| `CreateBucket`, `UpdateBucket`, `DeleteBucket`, `MoveTask` | `bucket_service`, `api/v1/buckets.py` |
| `CreateTask`, `CreateTaskRejected`, `UpdateTask`, `DeleteTask` | `task_service`, `task_placement` |

Data is abstracted to what decides: `board` is "Kanban with manual buckets",
`stamped` is a non-zero `done_at`, `repeating` is `is_repeating(...)`, a
position is whether the row exists, and List, Gantt and Table are one kind of
view. A deletion looks its bucket up by id alone, so `DeleteBucket(v, b)` takes any
view as the path's. `SavepointCommits` selects behaviour (SQLite); `BoardKinds`,
`BodyStamps` and `BodyRepeats` are what the bodies of requests may ask for.

**TaskCreation** models the same creation, and the move into a project, step by
step and concurrently: `Start`, `Number` (`_next_index`), `Insert` and `Collide`
(`_insert_with_index`), `Refuse` (`_apply_assignees`, `_apply_reminders`),
`Commit`; `LockTimeout` and `Crash` may strike in between; `Delete` and
`MoveOut` act on finished tasks. The engine is chosen at the start. The two
differ in what a read sees, in who waits for whom and in what releasing a
savepoint does; these are modelled from the way the code drives them.
**TaskLedger** is what creating a task promises: one answer per request, and a
task that is there whole, or not at all. TaskCreation implements it
(`ImplementsLedger`), under SQLite for the tasks whose creation was answered for
alone: others can show there as well, see finding 2.

**ProjectTree** models the hierarchy of projects and its two ways of being
archived: the column, which an update copies to everything below, and what reads
inherit. A request is `Read`, every check up to its first write, and then
`CreateProject`, `UpdateProject`, `UpdateFails` or `DeleteProject`. Descendants
are defined as the least closed set around the children, which is what the
breadth-first walk, the recursive query and the climb of `check_no_cycle` all
compute, and which can be proved about. `alone` records whether another request
has committed since the read; only properties look at it. Under SQLite the first
write takes the write lock, so that the descendants are those at the commit;
under MySQL they would be those of the request's snapshot.

**Repeating** models completing a task that repeats, by `apply_update` or by
`_apply_done_transition`, in the three modes of `reschedule`: counted from the
stored date, from now, or by calendar months. Dates are moments of **Calendar**,
which has the lengths of the real months and leap years but short days of
`HoursPerDay * TicksPerHour` moments. The clock only moves forward.

### What belongs to a task

**TaskAssociations** models the `task_assignees` and `favorites` rows of one
task. A request is `ReadAssignees` and one of `Assign`, `Unassign`, `Replace`,
`UpdateTask`, `Bulk`.

**Labels** models labels and their rows on tasks: who sees which, the requests
that attach, detach and replace (through the task or on their own), the deletion
of a label, which leaves its rows behind, and regranting access to a task. The
replacement reads twice; what it sees the second time depends on the engine.

**TaskRelations** models relations as the pairs of rows they are, with the cycle
check (`_would_cycle`) between read and write, and the deletion of a task, which
only marks it. **Collections** has no actions of its own: it defines, over the
rows TaskRelations writes, the sort of a listing, its pages, the expansion by
subtasks (roots by rows of one direction, descendants by rows of the other), the
columns of a board and the related tasks with the prefetch and without it.

**Attachments** models uploads that flush a row for its id, write the bytes and
commit last; deletions that commit first and unlink after; downloads that read
the row and then the bytes; and failures at any point. Under SQLite a rollback
gives an id back.

### Reading

**FilterLanguage** follows the text of a filter through the two rewrites, the
scanner, the parser, the compiler and the conjunction with a view's filter, to the
tasks it selects. A text is a sequence of lexemes; strings are not taken apart
into characters. It is one line, so that a comment goes on to its end. **DateMath** models `datemath.py`: adding units, rounding to them
and counting business days, on the same Calendar.

### Who may do what

**Access** models grants to users and teams, memberships and teams, and the query
that resolves them up a tree of projects, for one project, for a batch, and for
the list of visible projects. The two recursive queries are given by their results, as
least closed sets, so that one can prove about trees of any depth. **Accounts** models registration, names and
addresses, settings, password resets, TOTP and administrators. **OwnedRows**
models rows that are reached through the ids of a path: views of projects and of
saved filters, filters, comments, webhooks. A saved filter is a pseudo project
with a negative id, and the body of a view's request may name another place than
its path. **RouteKeys** models how a route derives the key under which API tokens
reach it, how collisions get resolved at registration, and how a request is held
to a key; one route answers any token (`Unchecked`). **RouteLists** holds the 130 routes
that the server registers.

### The web client

**Sessions** models both sides of a login: the rows, secrets and tokens of the
server (`auth/sessions.py`), and the client of each tab (`web-react/src/api/client.ts`):
its cached token, the shared cookie and local storage, the one renewal that the
refused calls wait for, the single retry, the logout. Answers get lost.

**BoardDrag** models the board page: an optimistic move, its two requests side by
side, the snapshot a failure puts back, the refetch, and the redirect of a
repeating task, with drags and fetches that overlap. The cache library
(TanStack Query) is external and modelled from its use.

### Composition

`OverlapMC`, `ReadingMC` and `IdentityMC` check several modules in one run. The
parts of one share no variable and none decides on what another writes, so that
mixing them would show nothing more than each by itself: a behaviour moves one
part while the others are at their start. `CollectionsMC` gives Collections its
values; Collections itself extends TaskRelations and is checked in every state
that relations can reach.

## The runs

| Run | Question | Bounds, and why they are enough |
|---|---|---|
| `board` | Do `done` and `done_at` agree on both paths, do drags and the done flag, does a repeating task ever complete? | one project, 2 views that may become boards, 4 buckets (those of a board and one that is made later, at a position that another has), one task with a row in each view, and a limit of 1: a row that was rehomed from the other view fills a bucket; rejected creations and other views' paths included. `BoardTasks.cfg` asks the same of two tasks and 3 buckets |
| `board_projects` | Does a task that is created or moves arrive, and stay, in all views of its project? Does a request on one board reach into another, does any view come to point at a bucket that is gone? | two projects of two views, any of which may be a board, 6 buckets and a task that does not repeat: two boards in one project, or one in each; deletions of either project, of views, and of buckets through any view's path. `BoardPaths.cfg` asks the last question, and that of drags, of three views in one project and a task that may repeat |
| `creation` | Does every creation find an index, does every request end without lock timeouts, is a task visible whole or not at all? | either engine, 3 creators, a mover, 3 attempts, an index asked for: a collision of each with each |
| `overlap` | What do requests keep when others commit between their read and their write? | 2 requests of each kind. Projects: 3, as a chain of three is the shortest that is not seen from the parent alone. Assignees: 2 users, 3 row ids, a row that is there, one that comes in between, one that is written. Labels: 2 people who see different tasks. Files: 2 ids and 3 contents, so that an id can come back. Board page: one card that repeats, 2 columns, 2 places, 2 drags |
| `collections` | Do relations stay symmetric and a forest, and do pages, expansion and prefetch show all of it? | 3 tasks, one of them deletable, 2 requests, pages of one task and of two (the server's maximum here), with a view, a pseudo view and none, two tasks with the same title, all 6 row ids: a chain of three with a deleted middle |
| `reading` | Does a filter mean what it says? Is date arithmetic sound, and the next occurrence next? | all texts of up to 4 of 15 fragments (conditions, signs, brackets, the begin of a comment), 2 stored filters, 6 tasks with the sub-table rows that tell the readings apart; 77 days around Christmas and a leap day; dates around 30 January, two mornings |
| `identity` | Who may do what after any sequence of grants, memberships and changes of account? | 3 users, 2 projects one below the other, up to 3 rows of each kind; 2 accounts whose names may be each other's addresses; 4 owned rows; 13 routes that cover each rule of the keys, in any order of registration, and twice, 3 more that are mounted only. It evaluates `ServerListsFit`: what RouteKeys assumes of its lists holds of all 130 routes of the server |
| `sessions` | Can a logged out session come back, may a login get lost, does every call end? | 2 tabs, 2 calls each, 3 secrets and 3 tokens: a renewal, one that overlaps it, one after both |
| `board_self_rehome`, `creation_refused`, `favourite_bulk`, `project_cycle` | findings 1 to 4 below, in this order | the smallest that show them |

Ids are never reused, so behaviours end when the ids do: except for `creation`
and `sessions` the runs do not look for deadlocks. In `creation` the only terminal
state is the one in which every request has its answer.

**Symmetry** is used in `overlap` and `collections` among the names of requests
only, and never in a run with a liveness property.

**Fairness.** In TaskCreation `FairSpec` assumes weak fairness of each request's
own next step: the thread pool keeps running it. Crashes and lock timeouts are not
fair. So `EveryRequestAnswered` says that no request depends on a timeout to end:
whoever waits for a lock waits for a request that can go on. In Sessions the
renewals in flight and the answers to calls are fair: a request of the browser is
answered or fails in the end (the failure is one of the outcomes). Logging in, sending
a call, expiry and what other tabs do are not. `CallsEnd` says that the client does
not wait or retry for ever. All other specifications are about safety only.

## Properties

* `PlacementsKept`, `PointersKept` relate three tables. They are about
  requests that only touch one of them: deleting a view, replacing one, deleting
  a bucket while others point at it. They say that
  deleting a bucket through another view's path (`BoardCrossPath.cfg`) is the only way to
  a pointer or a row that leaves its view, and that it harms no view but the bucket's own.
* `RowsComplete`: no sequence of moves, flips and resets makes a live task
  disappear from a view. A board that lost both of its pointers in a replacement
  is excepted: a task that completes there keeps its old place, and one created
  before any bucket existed has none.
* `DoneFlipStamps`, `RepeatingNeverCompletes`, `DragMirrorsDone` are about both
  paths that write `done`.
* `CreatorsConverge`, `EveryRequestAnswered`, `ImplementsLedger`,
  `RefusedLeavesNothing`: concurrency, refusals and crashes of creation.
* `TreeKeptAlone`, `RulesPartOnlyBelowArchived`, `AloneKeepsForest`,
  `AloneKeepsRows`, `AloneKeepsSound`, `OneRowPerAssignee` say what a request that
  nobody overtook keeps, from any state others left. They say where a cycle, an
  orphan, an empty team or a second row can come from at all: from an overlap.
* `LaterRowsSurvive`, `NothingTakenBack`, `Mirrored`, `LabelsSpreadBySight` hold
  however requests overlap: a slow request does not undo what it has not seen.
* `FilesWhole`: whatever fails between the two stores, a row has its own bytes and
  a download answers with no others.
* `PagesPartition`, `ExpansionCovers`, `RelatedAgrees`, `ListedIsReadable` compare
  two ways in which the code computes one thing.
* `ViewFilterHolds`: in a view, its own filter holds whatever the request's says, unless
  that one both leaves a bracket or a quote unbalanced and holds a comment (`ReadingComment.cfg`).
* `LastJoinsAll`, `NegationComplements`, `QuotedKept`, `CalendarSound`,
  `NextOccurrence`, `NearestDecides` compare an algorithm of the code with a
  definition of what it is for.
* `RaisedByAdminsOnly`, `OnlyTheirs`, `RoutesToldApart`, `AdmittedAsGranted` are
  about who may bring about what, through any sequence of requests.
* `LoggedOutStaysOut`, `LoggedOutWithReason`, `CallsEnd`: the client and the server
  of a session together. `CaughtUp`: a board page at rest shows the server's board,
  unless a request of a drag was carried out after the drag had settled.

## Findings

1. Deleting the leftmost bucket when it is the default one rehomes its tasks
   onto itself (`NoDanglingPlacement`, `bucket_service.py:346`).
2. Under SQLite the savepoint of the insert is the whole transaction, and a task
   whose assignee is refused stays (`RefusedLeavesNothing`,
   `task_service.py:1260`).
3. A bulk update that marks a favourite violates the primary key
   (`BulkFavouriteLands`, `task_bulk.py:236`).
4. Two moves of projects that overlap close a cycle, and no request can take it
   apart (`NeverCyclic`, `project_service.py:228`).

Further counterexamples, each a configuration that TLC refutes:

| Configuration | Module | Property | What it shows |
|---|---|---|---|
| `BoardCrossPath.cfg` | KanbanBoard | `PointersLive` | A bucket that is deleted through another view's path: it is looked up by id alone, and only the path's view has its pointers cleared (`bucket_service.py:340`, against 337: "A view pointing at a bucket that is about to disappear has its pointer cleared"). Its rows go to the path's view |
| `ReadingComment.cfg` | ReadingMC | `Narrowed` | A request's filter that closes the bracket it stands in and opens a comment turns the view's filter, which is appended to it, into a comment (`task_collection.py:292`, against 281: "Both are ANDed and each is parenthesised") |
| `CreationSnapshot.cfg` | TaskCreation | `ConvergeAnywhere` | Under MySQL a retry reads the snapshot of its transaction again and collides ten times (`task_service.py:1257`, against 148-150) |
| `DragRefetch.cfg` | BoardDrag | `RefetchAligns` | The server has no route for a task's position, so that every drag on the board page settles, and is fetched for, on the first answer of the two, while the other request may still go on (`useMoveTask.ts:26-29` says the refetch aligns) |
| `LabelsExact.cfg` | OverlapMC | `ReplacementSetsLabels` | A label that is listed twice gets two rows (`label_service.py`: "Set the task's labels to exactly") |
| `ReadingReminders.cfg` | ReadingMC | `RemindersFollow` | Completing a repeating task by a drag moves its dates and leaves its relative reminders where they were (`bucket_service.py:446`) |
| `RoutesUnregistered.cfg` | IdentityMC | `UnregisteredRefused` | A route that is left unregistered on purpose (`api/v1/notifications.py:7-12`) is still resolved when its path derives the key of another |

Met while modelling:

* Boards. Finding 1 and deletions through another view's path are why
  `NoDanglingPlacement` is not an invariant. The default bucket takes a repeating task
  that is dragged into the done one without a look at its limit (`bucket_service.py:458`),
  as upstream does. A drag into a done bucket is not
  mirrored into the project's other boards, as `events/bus.py` says it is.
* Projects. `project_service.py:489-496` says that the two rules of archiving could
  only part at a child created below an archived parent. Moving a project below an
  archived one, and updating a project whose parent is archived (every update that
  does not send `is_archived` clears it), part them as well.
* Overlaps that leave two rows where one is meant: assignments of one user (every
  later assign or unassign of that user then fails on `one_or_none()`), grants,
  memberships and labels; a bulk update writes every new assignee twice. Overlapping
  relations close a cycle, and the recursive walk over subtasks, a UNION ALL, does
  not end on one. Two administrators can remove each other, two registrations take one
  address, a team can lose its last member.
* Repeating tasks. `reschedule` says that it reads the old task for every input, but
  an update passes the dates of the request. Start and end advance by themselves, each
  by the intervals it needs. By months, the next occurrence may still lie in the past.
* Filters. A quoted value that holds `&&`, `||` or a bracket is taken apart by
  `_quote_value` when what stands before it is not quoted as expected.
* Permissions. The batch query may resolve another level than the single one
  (`BatchAgreesWithSingle`, not an invariant) although the two agree on which projects
  are readable. `users_with_access` lists direct holders only.
* Sessions. A token is valid until it expires, after a logout too; a changed password
  revokes no session; refresh secrets do not expire; a lost answer to a refresh, or two
  tabs that refresh at once, log the user out. A reset token does not expire.
* Routes. Of two applications built in one process the second finds the first one's
  registry. A third route on one plain key and method would overwrite silently.
* Web client. After a failed removal `useReassignTask` keeps the columns it had, as it
  invalidates on success only (`web-react/src/features/board/queries.ts:132-162`).

## Proofs

Every theorem holds for all values of the constants within the assumptions that the
modules name and TLC evaluates: ids are positive naturals, inputs are naturals,
users, requests and tasks are finitely many; there are enough indices for all requests
(TaskCreation), a word and an address to register with (Accounts), finitely many
projects none of which is above itself (Access; `OneAtATime` and finding 4 are
about when that holds), and lists of routes that share keys only where they may
(RouteKeys, see below). Two theorems have hypotheses of their own, which are cases
of the code: `SavepointCommits = FALSE`, a refused creation is rolled back whole (the
engine is not SQLite), for `NoViewMissesATask`; `Attempts > 1`, of the ten that the code
has, for `CreationsConverge`. (`OneAtATime`, too, is about a case: a single requester.)

`KanbanBoardProofs`:

* `TypeCorrect`: `Spec => []TypeOK`. `TypeOK` is inductive by itself; what has to
  be shown is that a resolved bucket is one of the table's or none
  (`DefaultBucketType`, `LandingType`), for which a minimum over positions need
  not be computed.
* `PlacementsStayInView` (`PlacementsKept`) and `PointersStayLive` (`PointersKept`), through
  whichever path buckets are deleted. Both are about steps, and what they need of the
  state is `BoardInv`, the types and `BucketIdsIssued`: no row and no pointer names a
  bucket id above `last.bucket`. A request that creates buckets takes new ids, and if a
  row could name an id before it is issued, the new bucket would turn it into a placement
  in another view. The requests fall into those that write cells of `bucketOf`, those
  that add a block of buckets and those that delete; each is shown to keep every view's
  pointers and rows (`ViewsKept`) but for the views that the step deletes a bucket of
  through another's path. A board's placements need its pointers, as tasks land where
  those point.
* The next three, too, hold under either engine.
  `DoneAtFollowsDone` and `SeriesGoesOn`: every step changes a task's row through
  `UpdatedTask` or `DraggedTask` or removes it (`TaskChanges`), and those two do
  what the properties ask. What makes the first step true is that a creation
  never writes over an existing task: `TaskIdsIssued`, no task has an id above
  `last.task`.
* `BoardMirrorsTask` (`DragMirrorsDone`): an update moves rows by the task's new
  state, a drag sets the state by the row's new place, and the two agree. A
  repeating task dragged into the done bucket lands in the default one, and that
  this is another bucket is the invariant `PointersApart`. `OtherIdsIssued`
  keeps a new view from taking over the rows of an old one.
* `NoViewMissesATask` (`Spec => []RowsComplete`), under its hypothesis. `RowsInv` puts
  `BoardInv`, `IssuedInv`, `OtherIdsIssued` and the property together: a new board finds its
  tasks without rows only because ids of views are new, and what a moved task gets is a
  row in each view, whatever bucket it names.

`TaskCreationProofs`, under either engine and with refusals, crashes and lock timeouts:

* `CreationsConverge` (`Spec => []CreatorsConverge`, with `Attempts > 1`). The step that
  matters is of SQLite alone: the insert that collides leaves its request with the
  write lock, and what it then reads cannot be outdated. `LockHeld` says so: a row
  that is not committed is the lock holder's, and whoever has collided holds the
  lock until it has a row, at an index that is free.
* `CreationImplementsLedger` (`Spec => ImplementsLedger`): the refinement of `TaskLedger`.
  Every action is shown to be a step of the ledger or a stutter; `RowsHeld` tells that
  an index that is shown has one holder and that a task that is told of has one. Under
  MySQL these are all tasks that others see. Under SQLite they are those whose
  creation was answered for, as finding 2 rules out more.
* `WithinReach` shows that the bound `MaxIndex` is never felt: each request takes at
  most one index above the highest. `CreationTypeCorrect` gives the types.

`ProjectTreeProofs`:

* `AloneTreeKept` (`TreeKeptAlone`). The invariant `TreeInv` says that a request
  which nobody has overtaken still has what it checked; every commit takes that
  away from all others, so it holds whatever they do. From it, a move
  (`MoveKeepsTree`), a new leaf (`NewLeafKeepsTree`) and a removal
  (`RemovalKeepsTree`) each keep a tree a tree; the proofs give for every project
  a closed set around its new children that does not contain it.
* `OneAtATime`: with one request at a time, `Spec => []NeverCyclic`. Together with
  the run `project_cycle` it says that the race is the only cause.
* `OnlyBelowArchived` (`RulesPartOnlyBelowArchived`). The two rules agree exactly when
  the archived projects are closed under children (`RulesAgreeWhenClosed`), and
  each commit that the property speaks of keeps them closed: archiving takes all
  descendants along, and below an archived parent nothing is created.

`TaskRelationsProofs`, about TaskRelations and Collections:

* `RowsInPairs` (`Spec => []Mirrored`). The two rows of a relation have consecutive ids,
  the first one odd (`Partner`); `PairInv` says that partners are there together and
  mirror each other, and that the rows a deletion has picked before its second step
  hold each partner too. The last part is what makes the invariant survive two
  deletions that picked at the same time.
* `LoneLinkKeepsForest` (`AloneKeepsForest`). `AloneInv` carries what a request that is
  alone has checked to its commit. The check follows one direction only; that it
  covers the mirror row as well is a fact about graphs (an edge closes a cycle in a graph
  exactly when its reverse closes one in the reversed graph), which rests on
  `RowsInPairs`.
* `RelatedAlike` (`RelationsSpec => []RelatedAgrees`): in states where the rows come in
  pairs the prefetch of a page (Collections) and the query for one task find the same.
* `ExpandedCovers` (`RelationsSpec => []ExpansionCovers`). That the walk down ends is shown by
  the number of tasks met on the way up from a task (`Depth`): in a forest it grows with every
  round, and it is at most the number of tasks. That every task is shown is shown from
  below: of the tasks above it take the one with the least depth. It is a root by the
  "parenttask" rows, and `RowsInPairs` turns those into the "subtask" rows that the walk
  down follows. The rounds of the walk are a recursive function; that they exist and
  unfold is proved by a least counterexample (`LeastOf`).
* `PagesHoldEachOnce` (`RelationsSpec => []PagesPartition`). The sort of a listing ends with
  the id, so that it leaves one order (`OneOrder`: of two tasks one comes first, by the
  first parameter that tells them apart), whatever the database does with equal rows.
  Pages of one order join to the whole (`PagesJoined`), and their number is the one
  announced. A finite set has a sorted sequence (`AscendingExists`), so that this is not
  said of nothing. The queries are any that `parse_sort` accepts, with any view and any
  size of a page (`CollectionsAssumption`); in a pseudo view, positions are dropped from
  the sort by a recursive function (`WithoutPositions`).

`OnTasksProofs`:

* `AloneAssignsOnce` (`OneRowPerAssignee`) and `LaterRowsKept` (`LaterRowsSurvive`).
  `RowsInv` says that the rows in use, and those a request has seen, have a user, and
  that ids stay below a bound. `NextIdIsNew` derives from it that a new id is above
  all in use; it rests on `BoundedMax`, that a bounded set of naturals has a highest
  member, by well-founded induction on the order of the naturals. So a request never
  takes a later row under an id that it read.
* `LabelsShownBySeers` (`LabelsSpreadBySight`). `LabelsInv` says that all ids in the two
  tables were handed out, and that a request lists what its user saw or what is gone
  by now. As ids are never handed out again, what is gone stays gone, and the row that
  a request writes for it shows nobody a label.
* `RowsKeepTheirBytes` (`Spec => []FilesWhole`) under either engine. `FilesInv` says of
  every request what its work implies for both stores: the ids of its uncommitted
  rows are its own and its bytes are written but for the last (`UploadInv`), and a
  file that it looked up in a committed row is nobody's upload (`NamedInv`). Under
  SQLite the ids of the one writer are those at the top (`LockInv`), so that a
  rollback gives back its own ids and no others (`RollbackGivesBackOwn`); this is what
  keeps a file id from a second life while a download or a deletion still knows it.

`IdentityProofs`:

* `ReachesOwnRowsOnly` (`Spec => []OnlyTheirs`), table by table (`ViewsReached`,
  `FiltersReached`, `CommentsReached`, `HooksReached`). For views it needs that those
  of a filter were made by the filter's owner (`MakerFits`), and that a filter's id is
  never handed out again (`KeysInv`): otherwise the views that a deleted filter left
  behind would come to the owner of a later one.
* `LoneRequestKeepsAccounts` (`AloneKeepsSound`) and `SlowRequestTakesNothingBack`
  (`NothingTakenBack`). `AccountsInv` types the tables and says of the pending change
  what its request can have decided (`ChangeFits`). Each kind of change is then shown to
  keep an administrator, the lookups and the enrolled secrets apart from the
  others; what it was decided on (`Checked`) holds as nobody wrote in between.
* `LoneRequestKeepsShares` (`AloneKeepsRows`). Every decision is one of five kinds
  (`Warranted`): a new row whose key nobody has, a team with its first member, the
  permission of a row, a row that is not the last member of its team, a team with all
  that hangs on it. Each of them keeps teams manned, rows with their team and keys
  single (`WarrantedIsKept`).
* `NearestGrantDecides` (`NearestDecides`), for a way up of any length. The way up is the
  least closed set (`WayIsLeast`), and a line (`WayIsALine`), so that the distances of its
  projects differ (`LevelsApart`) and the nearest grant is one; an owned project has
  the priority of the first step, which only a grant on the project itself shares.
* `ListsAreReadable` (`ListedIsReadable`). What the walk down comes to is what has something
  granted above (`SeenFromAbove`), and a batch has a winner that joins for exactly
  these projects (`WinnersJoin`), whichever winners the database picks.
* `NobodyRaisesHimself` (`RaisedByAdminsOnly`). Every decision is traced to the right it was
  decided with (`Rightful`): the administration of the project, or of the team. Two
  facts about the rows are needed, of which neither holds by itself: administrators of a
  team have their team, and no grant names a team that is yet to come, or a new team
  would start with what another was given. `SharesInv` has both, and says of the pending
  write what is left of its checks when others have committed (`StillFits`): a slow request
  may add a member to a team that is gone, but no administrator, as a promotion writes to a
  row that went with the team.

* `KeysTellRoutesApart` (`RoutesSpec => []RoutesToldApart`) and `TokensReachWhatTheyGrant`
  (`RoutesSpec => []AdmittedAsGranted`). `FiledInv` says that the table of published keys and
  the keys remembered for routes keep in step, apart from declared collisions, in whatever
  order routes register; `AdmittedInv` that the server still serves when a call
  is under way, so that no key is published over in between. Both rest on
  `ListsAssumption`: the keys that tables file routes under are shared only where that is
  declared, routes that share names differ in their method, and no names look like
  another's key (`ListsFit`). This is a fact about `REGISTERED_ROUTES` of the server's
  modules; the run `identity` evaluates it on all of them (`RouteLists`, by
  `ServerListsFit`). The route that tests a token asks for no key, and is excepted.

`DatesProofs`, about Calendar, DateMath and Repeating:

* `CalendarStaysSound` (`DateSpec => []CalendarSound`), for any zone and length of the day. A
  moment is a day and a time of day, and a day lies in the one month whose first day is
  not after it: the bracket by the average length of a month (48699 / 1600 days) and the
  correction by one that the calendar makes are shown to find it (`MonthHolding`), and
  the moment that `GoDate` builds to read as what it was built from. Rounding goes to
  the start of a period and stays there. The walk over business days is a
  recursive function: it exists, counts each step and leads back, by a least
  counterexample.
* `TheNextOccurrence` (`RepeatSpec => NextOccurrence`). The step that completes a task is taken
  apart by mode and by date; `DatesType` is what the arithmetic needs of the state. In
  by months (`MonthOn`) a day that the next month does not have becomes its last one, so that
  the result is never two months on. "What is not set stays unset" is all that holds: a
  date that an interval moves onto the zero time counts as unset afterwards. Dates stay
  between the zero time and the bound `LastMoment` (`WithinBounds`): the code's
  `datetime` raises OverflowError outside of its range.

`ClientProofs`:

* `LoggedOutForGood` (`LoggedOutStaysOut`). The invariant `Numbered` says that tokens are
  numbered as they are issued and rows are only of sessions that were made. Then a
  renewal can only write a row that it still finds, and its token is for that row's
  session (`RenewalStaysOut`); all other requests but a login remove.
* `LoggedOutForAReason` (`LoggedOutWithReason`). `LoginInv` says what holds while nothing
  has disturbed the tabs (`Calm`): all tabs that are logged in share one session, at most
  one of them is renewing, the cookie opens the session's row unless the answer that
  brings the new one is under way, and a call that was sent again carries a token that
  has not expired. So no renewal is refused and no second refusal logs out.
* `RestingPageIsTrue` (`DragSpec => []CaughtUp`). `DragInv`: once no drag is flying, what
  the page shows, and what a fetch under way has read, is the server's board, unless the
  server carried out a request of a drag after that drag had settled (`late`).
  `DragRefetch.cfg` shows that this exception is needed.

What stays with TLC, and why:

* Liveness (`EveryRequestAnswered`, `CallsEnd`): the prover has no ENABLED.
* `ViewFilterHolds`, `LastJoinsAll`, `NegationComplements`, `QuotedKept`: FilterLanguage
  parses by RECURSIVE operators, and what these compute for texts of any length would be an
  induction over data.
* The findings: a run shows that each can happen.

## Not modelled

* The overlap of two board requests: KanbanBoard takes them one after the other.
  The hazards at `bucket_service.py:323` and `project_view_service.py:183` have no
  property for that reason.
* Formats and wording, plain fields, the order of cards within a column of the server
  (the board page has places), covers, backgrounds, avatars, exports.
* Of projects identifiers, positions, default projects and the limit of 512 levels.
* Link shares: they are stored, and the server refuses their tokens.
* Of the registry the two entries it starts with (`SEED_ROUTES`, CalDAV and feeds): no route
  derives their keys.
* Of the filter language texts of several lines, the lexing of numbers and names, LIKE escapes, time zones other
  than by an offset, and the mapping of fields to columns.
* Notifications (nothing creates one), the event bus (the server makes none), error
  codes, the generic CRUD router, the schemas, contract tooling and migrations, the
  endpoints with constant answers, the loader of test data, generated code and the pages of
  the web client: they keep no state that requests share, or none at all.

## Plan

1. Board requests in two phases (`create_view` against `create_task`, two deletions of
   the last two buckets, two drags into a bucket with one place), and with them the three
   hazards of boards that no property covers.
2. FilterLanguage with its parser as functions on positions instead of RECURSIVE operators,
   so that proofs about texts of any length can be tried by least counterexample, as for
   the walks of Collections.
