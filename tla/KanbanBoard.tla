---------------------------- MODULE KanbanBoard ----------------------------
(***************************************************************************)
(* The board: projects, their views, the buckets of a view, the tasks of a *)
(* project, and the two tables that say where a task sits in a view        *)
(* (task_buckets and task_positions).                                      *)
(*                                                                         *)
(* One action is one request, from its first check to its commit, issued   *)
(* by a caller who holds the permission it needs on a project that is not  *)
(* archived; a refused request changes nothing and is no step.  Requests   *)
(* run one after the other: what interleaving adds is in TaskCreation.     *)
(*                                                                         *)
(* A table is a function from ids to rows.  Ids are AUTOINCREMENT: `last`  *)
(* holds the highest id each table ever handed out, and an id whose row is *)
(* gone is never handed out again.                                         *)
(***************************************************************************)
EXTENDS Integers, FiniteSets

CONSTANTS
    ProjectIds, ViewIds, BucketIds, TaskIds,
        \* the ids the tables can hand out (bounds)
    Limits,
        \* the bucket limits a request may carry; 0 is "no limit"
    Positions,
        \* the bucket positions a request may carry; 0 is "derive it"
    BoardKinds,
        \* whether the view a body describes is a manual Kanban: which of the
        \* two a request may carry
    BodyStamps, BodyRepeats,
        \* whether a task's body carries a done_at, and a repeat interval: which
        \* of the two a request may
    SavepointCommits
        \* TRUE under the SQLite driver, where releasing the outermost
        \* savepoint commits what it holds; FALSE under MySQL

ASSUME IdsAssumption ==
    /\ ProjectIds \subseteq Nat \ {0} /\ ViewIds \subseteq Nat \ {0}
    /\ BucketIds \subseteq Nat \ {0} /\ TaskIds \subseteq Nat \ {0}
ASSUME InputAssumption ==
    /\ Limits \subseteq Nat /\ Positions \subseteq Nat /\ BoardKinds \subseteq BOOLEAN
    /\ BodyStamps \subseteq BOOLEAN /\ BodyRepeats \subseteq BOOLEAN
    /\ SavepointCommits \in BOOLEAN

VARIABLES
    projects,    \* the ids of the projects that exist
    views,       \* project_views, by id; project 0 marks an id without a row
    buckets,     \* buckets, by id; view 0 marks an id without a row
    tasks,       \* tasks, by id; project 0 marks an id without a row
    bucketOf,    \* task_buckets: bucketOf[task][view], or NoRow
    positioned,  \* task_positions: the <<task, view>> pairs that have a row
    last         \* the highest id every table has handed out

vars == <<projects, views, buckets, tasks, bucketOf, positioned, last>>

NoRow == -1      \* no task_buckets row for this task in this view

\* `board` is view_kind = kanban and bucket_configuration_mode = manual.
View == [project : ProjectIds \cup {0}, board : BOOLEAN,
         default : BucketIds \cup {0}, done : BucketIds \cup {0}]
Bucket == [view : ViewIds \cup {0}, limit : Nat, position : Nat]
\* `stamped` is done_at # ZERO_TIME, `repeating` is is_repeating(...).
Task == [project : ProjectIds \cup {0}, done : BOOLEAN, stamped : BOOLEAN,
         repeating : BOOLEAN, deleted : BOOLEAN]

NoView == [project |-> 0, board |-> FALSE, default |-> 0, done |-> 0]
NoBucket == [view |-> 0, limit |-> 0, position |-> 0]
NoTask == [project |-> 0, done |-> FALSE, stamped |-> FALSE,
           repeating |-> FALSE, deleted |-> FALSE]
NoRows == [v \in ViewIds |-> NoRow]

\* The type of the state.
TypeOK ==
    /\ projects \subseteq ProjectIds
    /\ views \in [ViewIds -> View]
    /\ buckets \in [BucketIds -> Bucket]
    /\ tasks \in [TaskIds -> Task]
    /\ bucketOf \in [TaskIds -> [ViewIds -> BucketIds \cup {0, NoRow}]]
    /\ positioned \subseteq TaskIds \X ViewIds
    /\ last \in [project : Nat, view : Nat, bucket : Nat, task : Nat]

Init ==
    /\ projects = {}
    /\ views = [v \in ViewIds |-> NoView]
    /\ buckets = [b \in BucketIds |-> NoBucket]
    /\ tasks = [t \in TaskIds |-> NoTask]
    /\ bucketOf = [t \in TaskIds |-> NoRows]
    /\ positioned = {}
    /\ last = [project |-> 0, view |-> 0, bucket |-> 0, task |-> 0]

-----------------------------------------------------------------------------
(* Queries.                                                                *)

ViewsOf(p) == {v \in ViewIds : views[v].project = p}
BoardsOf(p) == {v \in ViewsOf(p) : views[v].board}
TasksOf(p) == {t \in TaskIds : tasks[t].project = p}    \* deleted ones included

ViewExists(v) == views[v].project # 0
Live(t) == tasks[t].project # 0 /\ ~tasks[t].deleted

\* MUTANT of BucketsOf: the filter on the view is forgotten.
BucketsOfEveryView(v) == {b \in BucketIds : buckets[b].view # 0}
BucketsOf(v) == {b \in BucketIds : buckets[b].view = v}

\* ORDER BY position LIMIT 1 leaves a tie to the database: any of the lowest.
LowestBuckets(v) ==
    {b \in BucketsOf(v) : \A c \in BucketsOf(v) : buckets[b].position <= buckets[c].position}

\* The configured default, else the view's first bucket, else 0.
DefaultBucketId(v, configured) ==
    IF configured # 0 THEN {configured}
    ELSE IF BucketsOf(v) = {} THEN {0} ELSE LowestBuckets(v)

\* Where a task that is placed afresh goes in board v.
Landing(v, done) ==
    IF done /\ views[v].done # 0 THEN {views[v].done}
    ELSE DefaultBucketId(v, views[v].default)

\* A landing bucket for every board of B, ties broken in every way.
Landings(B, done) ==
    {f \in [B -> UNION {Landing(v, done) : v \in B}] : \A v \in B : f[v] \in Landing(v, done)}

\* MUTANT of WithBuckets: a row is updated, and never inserted.
WithExistingRows(row, f) ==
    [v \in ViewIds |-> IF v \in DOMAIN f /\ f[v] # 0 /\ row[v] # NoRow THEN f[v] ELSE row[v]]
\* _set_bucket on every board that f covers: a 0 writes nothing.
WithBuckets(row, f) ==
    [v \in ViewIds |-> IF v \in DOMAIN f /\ f[v] # 0 THEN f[v] ELSE row[v]]

-----------------------------------------------------------------------------
(* Projects and views.                                                     *)

\* DEFAULT_BUCKETS: To-Do, Doing and Done from id `first` on, at positions
\* 1, 2, 3; the first becomes the view's default bucket, the last its done one.
WithDefaultBuckets(v, first) ==
    [b \in BucketIds |->
        IF b - first \in 0..2 THEN [view |-> v, limit |-> 0, position |-> 1 + b - first]
        ELSE buckets[b]]
NewBoard(p, first) == [project |-> p, board |-> TRUE, default |-> first, done |-> first + 2]
NewList(p) == [NoView EXCEPT !.project = p]

\* List, Gantt and Table are alike here: one view stands for the three.
CreateProject ==
    LET p == last.project + 1
        list == last.view + 1
        kanban == last.view + 2
        first == last.bucket + 1
    IN  /\ p \in ProjectIds /\ {list, kanban} \subseteq ViewIds
        /\ first..(first + 2) \subseteq BucketIds
        /\ projects' = projects \cup {p}
        /\ views' = [views EXCEPT ![list] = NewList(p), ![kanban] = NewBoard(p, first)]
        /\ buckets' = WithDefaultBuckets(kanban, first)
        /\ last' = [last EXCEPT !.project = p, !.view = kanban, !.bucket = first + 2]
        /\ UNCHANGED <<tasks, bucketOf, positioned>>

\* A project goes with its descendants, S in all; their rows in task_buckets
\* and task_positions stay behind.
DeleteProject(S) ==
    /\ S # {} /\ S \subseteq projects
    /\ projects' = projects \ S
    /\ tasks' = [t \in TaskIds |-> IF tasks[t].project \in S THEN NoTask ELSE tasks[t]]
    /\ buckets' = [b \in BucketIds |->
                    IF buckets[b].view # 0 /\ views[buckets[b].view].project \in S
                    THEN NoBucket ELSE buckets[b]]
    /\ views' = [v \in ViewIds |-> IF views[v].project \in S THEN NoView ELSE views[v]]
    /\ UNCHANGED <<bucketOf, positioned, last>>

\* The project's tasks, soft-deleted ones included, all go into the new board's
\* first bucket; every one of them gets a position in the new view.
CreateView(p, board) ==
    LET v == last.view + 1
        first == last.bucket + 1
    IN  /\ p \in projects /\ v \in ViewIds
        /\ IF board
           THEN /\ first..(first + 2) \subseteq BucketIds
                /\ views' = [views EXCEPT ![v] = NewBoard(p, first)]
                /\ buckets' = WithDefaultBuckets(v, first)
                /\ bucketOf' = [t \in TaskIds |->
                                 IF t \in TasksOf(p) THEN [bucketOf[t] EXCEPT ![v] = first]
                                 ELSE bucketOf[t]]
                /\ last' = [last EXCEPT !.view = v, !.bucket = first + 2]
           ELSE /\ views' = [views EXCEPT ![v] = NewList(p)]
                /\ last' = [last EXCEPT !.view = v]
                /\ UNCHANGED <<buckets, bucketOf>>
        /\ positioned' = positioned \cup (TasksOf(p) \X {v})
        /\ UNCHANGED <<projects, tasks>>

\* A full replacement: both bucket pointers are reset, no bucket is created.
UpdateView(v, board) ==
    /\ ViewExists(v)
    /\ views' = [views EXCEPT ![v] = [NoView EXCEPT !.project = views[v].project, !.board = board]]
    /\ UNCHANGED <<projects, buckets, tasks, bucketOf, positioned, last>>

\* The view's buckets stay behind.
DeleteView(v) ==
    /\ ViewExists(v)
    /\ views' = [views EXCEPT ![v] = NoView]
    /\ bucketOf' = [t \in TaskIds |-> [bucketOf[t] EXCEPT ![v] = NoRow]]
    /\ positioned' = positioned \ (TaskIds \X {v})
    /\ UNCHANGED <<projects, buckets, tasks, last>>

-----------------------------------------------------------------------------
(* Buckets.                                                                *)

\* POSITION_SCALE, scaled down: a derived position lies above the default ones.
PositionScale == 4

CreateBucket(v, limit, position) ==
    LET b == last.bucket + 1
    IN  /\ ViewExists(v) /\ b \in BucketIds
        /\ buckets' = [buckets EXCEPT ![b] =
                        [view |-> v, limit |-> limit,
                         position |-> IF position = 0 THEN b * PositionScale ELSE position]]
        /\ last' = [last EXCEPT !.bucket = b]
        /\ UNCHANGED <<projects, views, tasks, bucketOf, positioned>>

\* A full replacement, through the path of any view that exists: whose bucket
\* it is goes unchecked.
UpdateBucket(b, limit, position) ==
    /\ buckets[b].view # 0 /\ \E v \in ViewIds : ViewExists(v)
    /\ buckets' = [buckets EXCEPT ![b].limit = limit, ![b].position = position]
    /\ UNCHANGED <<projects, views, tasks, bucketOf, positioned, last>>

\* MUTANT of Unlinked: the done pointer is left alone.
UnlinkedDefault(view, b) == [view EXCEPT !.default = IF @ = b THEN 0 ELSE @]
\* The view's row once bucket b is on its way out.
Unlinked(view, b) == [view EXCEPT !.default = IF @ = b THEN 0 ELSE @,
                                  !.done = IF @ = b THEN 0 ELSE @]

\* MUTANT of Rehomed: to the bucket with the next id.
RehomedNext(row, b, target) == [v \in ViewIds |-> IF row[v] = b THEN b + 1 ELSE row[v]]
Rehomed(row, b, target) == [v \in ViewIds |-> IF row[v] = b THEN target ELSE row[v]]

\* DELETE /projects/{p}/views/{v}/buckets/{b}.  Whether b is a bucket of v goes
\* unchecked: the count, the pointers and the new home are those of v.  The
\* default bucket is resolved while bucket b still has its row.
DeleteBucket(v, b) ==
    LET unlinked == Unlinked(views[v], b)
    IN  /\ ViewExists(v) /\ buckets[b].view # 0
        /\ \E c, d \in BucketsOf(v) : c # d     \* ErrCannotRemoveLastBucket
        /\ \E target \in DefaultBucketId(v, unlinked.default) :
             bucketOf' = [t \in TaskIds |-> Rehomed(bucketOf[t], b, target)]
        /\ views' = [views EXCEPT ![v] = unlinked]
        /\ buckets' = [buckets EXCEPT ![b] = NoBucket]
        /\ UNCHANGED <<projects, tasks, positioned, last>>

-----------------------------------------------------------------------------
(* Tasks.                                                                  *)

\* What a request body says of a task.
TaskWrite == [done : BOOLEAN, stamped : BodyStamps, repeating : BodyRepeats]

InsertTask(p, w) ==
    LET t == last.task + 1
    IN  /\ p \in projects /\ t \in TaskIds
        /\ tasks' = [tasks EXCEPT ![t] =
                      [project |-> p, done |-> w.done, stamped |-> w.stamped,
                       repeating |-> w.repeating, deleted |-> FALSE]]
        /\ last' = [last EXCEPT !.task = t]

CreateTask(p, w) ==
    LET t == last.task + 1
    IN  /\ InsertTask(p, w)
        /\ \E f \in Landings(BoardsOf(p), w.done) :
             bucketOf' = [bucketOf EXCEPT ![t] = WithBuckets(bucketOf[t], f)]
        /\ positioned' = positioned \cup ({t} \X ViewsOf(p))
        /\ UNCHANGED <<projects, views, buckets>>

\* _apply_assignees refuses after _insert_with_index: with SavepointCommits the
\* released savepoint has already made the row durable, without its placement.
CreateTaskRejected(p, w) ==
    /\ SavepointCommits
    /\ InsertTask(p, w)
    /\ UNCHANGED <<projects, views, buckets, bucketOf, positioned>>

\* MUTANT of UpdatedTask: the repeating test is forgotten.
UpdatedTaskNoRepeat(row, p, w) ==
    [row EXCEPT !.project = IF p = 0 THEN @ ELSE p,
                !.done = w.done,
                !.stamped = IF w.done # row.done THEN w.done ELSE w.stamped \/ @,
                !.repeating = w.repeating]
\* MUTANT of UpdatedTask: done_at is derived for a completion only.
UpdatedTaskKeepsStamp(row, p, w) ==
    [row EXCEPT !.project = IF p = 0 THEN @ ELSE p,
                !.done = w.done /\ (row.done \/ ~row.repeating),
                !.stamped = w.done \/ w.stamped \/ @,
                !.repeating = w.repeating]
\* apply_update, where project 0 keeps the stored one: completing a repeating
\* task reopens it on its next occurrence.
UpdatedTask(row, p, w) ==
    [row EXCEPT !.project = IF p = 0 THEN @ ELSE p,
                !.done = w.done /\ (row.done \/ ~row.repeating),
                !.stamped = IF w.done # row.done THEN w.done ELSE w.stamped \/ @,
                !.repeating = w.repeating]

\* move_for_done_change leaves a board alone when the task completes and the
\* board has no done bucket, or reopens outside of its done bucket.  A task
\* without a row counts as in bucket 0.
CurrentBucket(t, v) == IF bucketOf[t][v] = NoRow THEN 0 ELSE bucketOf[t][v]
FlippedBoards(t, done) ==
    {v \in BoardsOf(tasks[t].project) :
        IF done THEN views[v].done # 0 ELSE CurrentBucket(t, v) = views[v].done}

\* MUTANT of RelocatedPositions: the positions in the new project are forgotten.
DroppedPositions(t, p) == positioned \ ({t} \X ViewIds)
RelocatedPositions(t, p) == (positioned \ ({t} \X ViewIds)) \cup ({t} \X ViewsOf(p))

UpdateTask(t, p, w) ==
    LET row == UpdatedTask(tasks[t], p, w)
        flipped == FlippedBoards(t, row.done)
    IN  /\ Live(t) /\ p \in projects \cup {0}
        /\ tasks' = [tasks EXCEPT ![t] = row]
        /\ IF row.project # tasks[t].project
           THEN /\ \E f \in Landings(BoardsOf(row.project), row.done) :
                     bucketOf' = [bucketOf EXCEPT ![t] = WithBuckets(NoRows, f)]
                /\ positioned' = RelocatedPositions(t, row.project)
           ELSE IF row.done # tasks[t].done
           THEN /\ \E f \in Landings(flipped, row.done) :
                     bucketOf' = [bucketOf EXCEPT ![t] = WithBuckets(@, f)]
                /\ positioned' = positioned \cup ({t} \X flipped)
           ELSE UNCHANGED <<bucketOf, positioned>>
        /\ UNCHANGED <<projects, views, buckets, last>>

\* Soft: the row stays, and so do its placements.
DeleteTask(t) ==
    /\ Live(t)
    /\ tasks' = [tasks EXCEPT ![t].deleted = TRUE]
    /\ UNCHANGED <<projects, views, buckets, bucketOf, positioned, last>>

\* Into a done bucket, out of one (done = 0: the view has none).
Completing(row, done, b) == done # 0 /\ b = done /\ ~row.done
Reopening(row, done, previous, b) == done # 0 /\ previous = done /\ b # done /\ row.done

\* MUTANT of DraggedTask: dragging out of the done bucket reopens nothing.
DraggedTaskForwardOnly(row, done, previous, b) ==
    IF Completing(row, done, b)
    THEN [row EXCEPT !.done = ~row.repeating, !.stamped = ~row.repeating]
    ELSE row
\* _apply_done_transition, on the task: a repeating task is rescheduled instead
\* of completed.
DraggedTask(row, done, previous, b) ==
    IF Completing(row, done, b)
    THEN [row EXCEPT !.done = ~row.repeating, !.stamped = ~row.repeating]
    ELSE IF Reopening(row, done, previous, b)
    THEN [row EXCEPT !.done = FALSE, !.stamped = FALSE]
    ELSE row

\* ... and on the bucket: the rescheduled task goes back to the configured
\* default bucket, or to where it came from.
DragLanding(row, view, previous, b) ==
    IF Completing(row, view.done, b) /\ row.repeating
    THEN IF view.default # 0 THEN view.default ELSE previous
    ELSE b

\* A bucket's limit counts every task_buckets row, a deleted task's included.
HasRoom(b) ==
    buckets[b].limit # 0 =>
        Cardinality({r \in TaskIds \X ViewIds : bucketOf[r[1]][r[2]] = b}) < buckets[b].limit

\* POST /projects/{p}/views/{v}/buckets/{b}/tasks.  Whether the task is one of
\* project p goes unchecked.
MoveTask(v, b, t) ==
    LET view == views[v]
        previous == CurrentBucket(t, v)
    IN  /\ ViewExists(v) /\ buckets[b].view = v /\ Live(t)
        /\ b # previous
        /\ HasRoom(b)
        /\ tasks' = [tasks EXCEPT ![t] = DraggedTask(@, view.done, previous, b)]
        /\ bucketOf' = [bucketOf EXCEPT ![t][v] = DragLanding(tasks[t], view, previous, b)]
        /\ UNCHANGED <<projects, views, buckets, positioned, last>>

-----------------------------------------------------------------------------

ProjectNext ==
    \/ CreateProject
    \/ \E S \in SUBSET ProjectIds : DeleteProject(S)
    \/ \E p \in ProjectIds, board \in BoardKinds : CreateView(p, board)
    \/ \E v \in ViewIds, board \in BoardKinds : UpdateView(v, board)
    \/ \E v \in ViewIds : DeleteView(v)

BucketNext ==
    \/ \E v \in ViewIds, limit \in Limits, position \in Positions : CreateBucket(v, limit, position)
    \/ \E b \in BucketIds, limit \in Limits, position \in Positions : UpdateBucket(b, limit, position)
    \/ \E v \in ViewIds, b \in BucketIds : DeleteBucket(v, b)

TaskNext ==
    \/ \E p \in ProjectIds, w \in TaskWrite : CreateTask(p, w)
    \/ \E p \in ProjectIds, w \in TaskWrite : CreateTaskRejected(p, w)
    \/ \E t \in TaskIds, p \in ProjectIds \cup {0}, w \in TaskWrite : UpdateTask(t, p, w)
    \/ \E t \in TaskIds : DeleteTask(t)
    \/ \E v \in ViewIds, b \in BucketIds, t \in TaskIds : MoveTask(v, b, t)

Next == ProjectNext \/ BucketNext \/ TaskNext

Spec == Init /\ [][Next]_vars

-----------------------------------------------------------------------------
(* Properties.                                                             *)

\* The default and done bucket of view v, when set, are buckets of v that still
\* have their row.
OwnPointers(v) ==
    \A b \in BucketIds : b \in {views[v].default, views[v].done} => buckets[b].view = v

\* No task_buckets row files a task, in view v, under a bucket of another view:
\* the board lists a task through both columns (task_collection._read_buckets),
\* and would show such a row nowhere.
OwnRows(v) ==
    \A t \in TaskIds, b \in BucketIds : bucketOf[t][v] = b => buckets[b].view \in {0, v}

\* The step deletes a bucket of view v through the path of another view.
DeletedAcross(v) ==
    \E w \in ViewIds \ {v}, b \in BucketIds : buckets[b].view = v /\ DeleteBucket(w, b)

\* The pointers of a view stay live, whatever is created, replaced or deleted in
\* it or beside it: the one step that leaves one dangling is the deletion of a
\* bucket of the view through another view's path.  That deletion harms no view
\* but the bucket's own.
PointersKept ==
    [][\A v \in ViewIds : OwnPointers(v) => OwnPointers(v)' \/ DeletedAcross(v)]_vars

\* Nor do its placements leave it: every request that files a task in a view
\* whose pointers are live takes a bucket of that view, and only a deletion of
\* one of its buckets through another view's path carries its rows over there.
PlacementsKept ==
    [][\A v \in ViewIds :
         OwnPointers(v) /\ OwnRows(v) => OwnRows(v)' \/ DeletedAcross(v)]_vars

\* Every view's pointers are live: bucket_service says that "a view pointing at a
\* bucket that is about to disappear has its pointer cleared".
PointersLive == \A v \in ViewIds : OwnPointers(v)

\* No bucket, placement or pointer has an id that the buckets table never handed
\* out: what names a deleted bucket is never taken over by a new one.
BucketIdsIssued ==
    /\ \A b \in BucketIds : buckets[b].view # 0 => b <= last.bucket
    /\ \A t \in TaskIds, v \in ViewIds : bucketOf[t][v] <= last.bucket
    /\ \A v \in ViewIds, b \in BucketIds : b \in {views[v].default, views[v].done} => b <= last.bucket

\* Nor has a task an id that was never handed out, or a project that does not
\* exist; the ids of projects and views are handed out in order too.
TaskIdsIssued ==
    \A t \in TaskIds : tasks[t].project # 0 => t <= last.task /\ tasks[t].project \in projects
OtherIdsIssued ==
    /\ \A p \in projects : p <= last.project
    /\ \A v \in ViewIds : views[v].project # 0 => v <= last.view

\* The default and the done bucket of a view are two buckets.
PointersApart ==
    \A v \in ViewIds : views[v].default # 0 => views[v].default # views[v].done

\* View v still has its default or its done bucket.
HasPointer(v) == {views[v].default, views[v].done} \cap BucketsOf(v) # {}

\* Nothing is lost from a board: while a board still has its default or its
\* done bucket, every live task of its project has a row in it that names a
\* bucket (possibly one deleted since, or one of another view).
BoardComplete ==
    \A v \in ViewIds, t \in TaskIds :
        /\ views[v].board /\ HasPointer(v)
        /\ Live(t) /\ tasks[t].project = views[v].project
        => bucketOf[t][v] \in BucketIds

\* Every live task has a task_positions row in every view of its project.
PositionsComplete ==
    \A v \in ViewIds, t \in TaskIds :
        Live(t) /\ tasks[t].project = views[v].project => <<t, v>> \in positioned

\* However tasks come to a project, and whichever of it or of its views was there
\* first: no view misses the rows that place them.
RowsComplete == BoardComplete /\ PositionsComplete

\* done_at follows done: whichever request completes a task stamps it, and
\* whichever reopens it clears the stamp.
DoneFlipStamps ==
    [][\A t \in TaskIds :
         tasks[t].project # 0 /\ tasks[t]'.project # 0 /\ tasks[t]'.done # tasks[t].done
         => tasks[t]'.stamped = tasks[t]'.done]_vars

\* No request, an update or a drag into a done bucket, completes an open task
\* that is stored as repeating: the series goes on.
RepeatingNeverCompletes ==
    [][\A t \in TaskIds :
         tasks[t].project # 0 /\ tasks[t].repeating /\ ~tasks[t].done => ~tasks[t]'.done]_vars

\* The board and the task tell one story: unless buckets go or the task changes
\* project, a row that moves into the done bucket leaves the task done, one that
\* moves out of it leaves the task open, and a reopened task moves only out of
\* the done bucket.
DragMirrorsDone ==
    [][\A t \in TaskIds, v \in ViewIds :
         /\ buckets' = buckets /\ views' = views /\ tasks[t]'.project = tasks[t].project
         /\ bucketOf[t][v] # NoRow /\ bucketOf[t]'[v] # bucketOf[t][v]
         /\ views[v].done # 0
         => /\ bucketOf[t]'[v] = views[v].done => tasks[t]'.done
            /\ bucketOf[t][v] = views[v].done => ~tasks[t]'.done
            /\ tasks[t].done /\ ~tasks[t]'.done => bucketOf[t][v] = views[v].done]_vars

\* Every row names a bucket that exists, or none: bucket_service promises that
\* deleting a bucket rehomes its tasks rather than "leaving them pointing at a
\* bucket that no longer exists".
NoDanglingPlacement ==
    \A v \in ViewIds, t \in TaskIds, b \in BucketIds :
        ViewExists(v) /\ bucketOf[t][v] = b => buckets[b].view # 0
=============================================================================
