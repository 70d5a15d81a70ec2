------------------------- MODULE KanbanBoardProofs -------------------------
(***************************************************************************)
(* Proofs about KanbanBoard, for any sets of ids and any inputs: the type  *)
(* of the state; that placements stay within their views and bucket        *)
(* pointers live, but for what a deletion through another view's path does *)
(* to the bucket's own view; what a step may do to a task; and that no     *)
(* view misses the rows of a task.                                         *)
(***************************************************************************)
EXTENDS KanbanBoard, TLAPS

BucketRef == BucketIds \cup {0}
RowRef == BucketIds \cup {0, NoRow}

-----------------------------------------------------------------------------
(* What the operators return.                                              *)

\* _default_bucket_id returns the configured bucket, one of the view's, or 0.
LEMMA DefaultBucketType ==
    ASSUME NEW v, NEW configured \in BucketRef
    PROVE  DefaultBucketId(v, configured) \subseteq BucketRef
BY DEF DefaultBucketId, LowestBuckets, BucketsOf, BucketRef

\* Where a fresh placement goes is a bucket of the table, or nowhere.
LEMMA LandingType ==
    ASSUME TypeOK, NEW v \in ViewIds, NEW done \in BOOLEAN
    PROVE  Landing(v, done) \subseteq BucketRef
<1>1. views[v].done \in BucketRef /\ views[v].default \in BucketRef
  BY DEF TypeOK, View, BucketRef
<1> QED
  BY <1>1, DefaultBucketType DEF Landing

\* A placement writes a row's cell from a landing, or leaves it.
LEMMA WithBucketsType ==
    ASSUME TypeOK, NEW B \in SUBSET ViewIds, NEW done \in BOOLEAN,
           NEW f \in Landings(B, done), NEW row \in [ViewIds -> RowRef]
    PROVE  WithBuckets(row, f) \in [ViewIds -> RowRef]
<1>1. DOMAIN f = B /\ \A v \in B : f[v] \in Landing(v, done)
  BY DEF Landings
<1>2. \A v \in B : f[v] \in RowRef
  BY <1>1, LandingType DEF BucketRef, RowRef
<1> QED
  BY <1>1, <1>2 DEF WithBuckets

\* The flags of a body are flags, whichever of them requests may set.
LEMMA BodyType ==
    ASSUME NEW w \in TaskWrite
    PROVE  w.done \in BOOLEAN /\ w.stamped \in BOOLEAN /\ w.repeating \in BOOLEAN
BY InputAssumption DEF TaskWrite

\* What apply_update makes of a task's row is a task's row.
LEMMA TaskRowType ==
    ASSUME NEW row \in Task, NEW p \in ProjectIds \cup {0}, NEW w \in TaskWrite
    PROVE  UpdatedTask(row, p, w) \in Task
BY BodyType DEF UpdatedTask, Task

\* ... and so is what a drag makes of it.
LEMMA DraggedRowType ==
    ASSUME NEW row \in Task, NEW done, NEW previous, NEW b
    PROVE  DraggedTask(row, done, previous, b) \in Task
BY DEF DraggedTask, Task

\* Clearing a view's pointers leaves a view's row.
LEMMA UnlinkedType == \A view \in View : \A b : Unlinked(view, b) \in View
BY DEF Unlinked, View

\* The three default buckets and the board that points at them are rows of
\* their tables.
LEMMA DefaultBucketsType ==
    ASSUME TypeOK, NEW v \in ViewIds, NEW first \in Nat,
           first..(first + 2) \subseteq BucketIds, NEW p \in ProjectIds
    PROVE  /\ WithDefaultBuckets(v, first) \in [BucketIds -> Bucket]
           /\ NewBoard(p, first) \in View
           /\ first \in BucketIds
<1>1. BucketIds \subseteq Nat
  BY IdsAssumption
<1>2. ASSUME NEW b \in BucketIds, b - first \in 0..2
      PROVE  [view |-> v, limit |-> 0, position |-> 1 + b - first] \in Bucket
  BY <1>1, <1>2 DEF Bucket
<1>3. WithDefaultBuckets(v, first) \in [BucketIds -> Bucket]
  BY <1>2 DEF WithDefaultBuckets, TypeOK
<1>4. first \in BucketIds /\ first + 2 \in BucketIds
  OBVIOUS
<1> QED
  BY <1>3, <1>4 DEF NewBoard, View

-----------------------------------------------------------------------------
(* Type correctness.                                                       *)

\* An empty database is typed.
LEMMA TypeInit == Init => TypeOK
BY DEF Init, TypeOK, NoView, NoBucket, NoTask, NoRows, View, Bucket, Task, NoRow

\* Every project and view request keeps the types.
LEMMA TypeProject == TypeOK /\ ProjectNext => TypeOK'
<1> SUFFICES ASSUME TypeOK, ProjectNext PROVE TypeOK'
  OBVIOUS
<1> USE IdsAssumption, InputAssumption
<1>1. CASE CreateProject
  <2> DEFINE p == last.project + 1
             list == last.view + 1
             kanban == last.view + 2
             first == last.bucket + 1
  <2>1. p \in ProjectIds /\ list \in ViewIds /\ kanban \in ViewIds
        /\ first..(first + 2) \subseteq BucketIds /\ first \in Nat
        /\ p \in Nat /\ kanban \in Nat /\ first + 2 \in Nat
    BY <1>1 DEF CreateProject, TypeOK
  <2>2. NewList(p) \in View
    BY <2>1 DEF NewList, NoView, View
  <2>3. NewBoard(p, first) \in View /\ WithDefaultBuckets(kanban, first) \in [BucketIds -> Bucket]
    BY <2>1, DefaultBucketsType
  <2>4. views' \in [ViewIds -> View] /\ buckets' \in [BucketIds -> Bucket]
    BY <1>1, <2>1, <2>2, <2>3 DEF CreateProject, TypeOK
  <2> QED
    BY <1>1, <2>1, <2>4 DEF CreateProject, TypeOK
<1>2. CASE \E S \in SUBSET ProjectIds : DeleteProject(S)
  BY <1>2 DEF DeleteProject, TypeOK, NoView, NoBucket, NoTask, View, Bucket, Task
<1>3. ASSUME NEW p \in ProjectIds, NEW board \in BoardKinds, CreateView(p, board) PROVE TypeOK'
  <2> DEFINE v == last.view + 1
             first == last.bucket + 1
  <2>1. v \in ViewIds /\ v \in Nat /\ first \in Nat /\ first + 2 \in Nat
    BY <1>3 DEF CreateView, TypeOK
  <2>2. positioned' \subseteq TaskIds \X ViewIds
    BY <1>3, <2>1 DEF CreateView, TypeOK, TasksOf
  <2>3. CASE board
    <3>1. first..(first + 2) \subseteq BucketIds
      BY <1>3, <2>3 DEF CreateView
    <3>2. NewBoard(p, first) \in View /\ first \in BucketIds
          /\ WithDefaultBuckets(v, first) \in [BucketIds -> Bucket]
      BY <2>1, <3>1, DefaultBucketsType
    <3>3. bucketOf' \in [TaskIds -> [ViewIds -> BucketIds \cup {0, NoRow}]]
      BY <1>3, <2>3, <3>2 DEF CreateView, TypeOK
    <3> QED
      BY <1>3, <2>1, <2>2, <2>3, <3>2, <3>3 DEF CreateView, TypeOK
  <2>4. CASE ~board
    <3>1. NewList(p) \in View
      BY DEF NewList, NoView, View
    <3> QED
      BY <1>3, <2>1, <2>2, <2>4, <3>1 DEF CreateView, TypeOK
  <2> QED
    BY <2>3, <2>4
<1>4. ASSUME NEW v \in ViewIds, NEW board \in BoardKinds, UpdateView(v, board) PROVE TypeOK'
  <2>1. board \in BOOLEAN
    OBVIOUS
  <2>2. [NoView EXCEPT !.project = views[v].project, !.board = board] \in View
    BY <2>1 DEF NoView, View, TypeOK
  <2> QED
    BY <1>4, <2>2 DEF UpdateView, TypeOK
<1>5. ASSUME NEW v \in ViewIds, DeleteView(v) PROVE TypeOK'
  <2>1. NoView \in View
    BY DEF NoView, View
  <2> QED
    BY <1>5, <2>1 DEF DeleteView, TypeOK
<1> QED
  BY <1>1, <1>2, <1>3, <1>4, <1>5 DEF ProjectNext

\* Every bucket request keeps the types.
LEMMA TypeBucket == TypeOK /\ BucketNext => TypeOK'
<1> SUFFICES ASSUME TypeOK, BucketNext PROVE TypeOK'
  OBVIOUS
<1> USE IdsAssumption, InputAssumption
<1>1. ASSUME NEW v \in ViewIds, NEW limit \in Limits, NEW position \in Positions,
             CreateBucket(v, limit, position)
      PROVE  TypeOK'
  <2> DEFINE b == last.bucket + 1
             row == [view |-> v, limit |-> limit,
                     position |-> IF position = 0 THEN b * PositionScale ELSE position]
  <2>1. b \in BucketIds /\ b \in Nat /\ limit \in Nat /\ position \in Nat
    BY <1>1 DEF CreateBucket, TypeOK
  <2>2. row \in Bucket
    BY <2>1 DEF Bucket, PositionScale
  <2>3. buckets' = [buckets EXCEPT ![b] = row] /\ last' = [last EXCEPT !.bucket = b]
    BY <1>1 DEF CreateBucket
  <2> HIDE DEF row
  <2> QED
    BY <1>1, <2>1, <2>2, <2>3 DEF CreateBucket, TypeOK
<1>2. ASSUME NEW b \in BucketIds, NEW limit \in Limits, NEW position \in Positions,
             UpdateBucket(b, limit, position)
      PROVE  TypeOK'
  <2>1. buckets \in [BucketIds -> Bucket] /\ limit \in Nat /\ position \in Nat
    BY <1>2 DEF TypeOK
  <2>2. buckets' \in [BucketIds -> Bucket]
    BY <1>2, <2>1 DEF UpdateBucket, Bucket
  <2> QED
    BY <1>2, <2>2 DEF UpdateBucket, TypeOK
<1>3. ASSUME NEW v \in ViewIds, NEW b \in BucketIds, DeleteBucket(v, b) PROVE TypeOK'
  <2> DEFINE unlinked == Unlinked(views[v], b)
  <2>1. unlinked \in View
    BY UnlinkedType DEF TypeOK
  <2>2. PICK target \in DefaultBucketId(v, unlinked.default) :
          bucketOf' = [t \in TaskIds |-> Rehomed(bucketOf[t], b, target)]
    BY <1>3 DEF DeleteBucket
  <2>3. target \in BucketRef
    BY <2>1, DefaultBucketType DEF View, BucketRef
  <2>4. bucketOf' \in [TaskIds -> [ViewIds -> BucketIds \cup {0, NoRow}]]
    BY <2>2, <2>3 DEF Rehomed, TypeOK, BucketRef
  <2>5. NoBucket \in Bucket
    BY DEF NoBucket, Bucket
  <2> QED
    BY <1>3, <2>1, <2>4, <2>5 DEF DeleteBucket, TypeOK
<1> QED
  BY <1>1, <1>2, <1>3 DEF BucketNext

\* An inserted task is a row of the table.
LEMMA TypeInsert ==
    ASSUME TypeOK, NEW p \in ProjectIds, NEW w \in TaskWrite, InsertTask(p, w)
    PROVE  /\ tasks' \in [TaskIds -> Task] /\ last' \in [project : Nat, view : Nat, bucket : Nat, task : Nat]
           /\ last.task + 1 \in TaskIds
<1>1. [project |-> p, done |-> w.done, stamped |-> w.stamped,
       repeating |-> w.repeating, deleted |-> FALSE] \in Task
  BY BodyType DEF Task
<1> QED
  BY <1>1 DEF InsertTask, TypeOK

\* Every task request keeps the types.
LEMMA TypeTask == TypeOK /\ TaskNext => TypeOK'
<1> SUFFICES ASSUME TypeOK, TaskNext PROVE TypeOK'
  OBVIOUS
<1>1. ASSUME NEW p \in ProjectIds, NEW w \in TaskWrite, CreateTask(p, w) PROVE TypeOK'
  <2> DEFINE t == last.task + 1
  <2>1. /\ tasks' \in [TaskIds -> Task] /\ last' \in [project : Nat, view : Nat, bucket : Nat, task : Nat]
        /\ t \in TaskIds
    BY <1>1, TypeInsert DEF CreateTask
  <2>2. w.done \in BOOLEAN /\ BoardsOf(p) \in SUBSET ViewIds /\ ViewsOf(p) \in SUBSET ViewIds
    BY DEF TaskWrite, BoardsOf, ViewsOf
  <2>3. PICK f \in Landings(BoardsOf(p), w.done) :
          bucketOf' = [bucketOf EXCEPT ![t] = WithBuckets(bucketOf[t], f)]
    BY <1>1 DEF CreateTask
  <2>4. bucketOf[t] \in [ViewIds -> RowRef]
    BY <2>1 DEF TypeOK, RowRef
  <2>5. WithBuckets(bucketOf[t], f) \in [ViewIds -> RowRef]
    BY <2>2, <2>3, <2>4, WithBucketsType
  <2> QED
    BY <1>1, <2>1, <2>2, <2>3, <2>5 DEF CreateTask, TypeOK, RowRef
<1>2. ASSUME NEW p \in ProjectIds, NEW w \in TaskWrite, CreateTaskRejected(p, w) PROVE TypeOK'
  BY <1>2, TypeInsert DEF CreateTaskRejected, TypeOK
<1>3. ASSUME NEW t \in TaskIds, NEW p \in ProjectIds \cup {0}, NEW w \in TaskWrite,
             UpdateTask(t, p, w)
      PROVE  TypeOK'
  <2> DEFINE row == UpdatedTask(tasks[t], p, w)
             flipped == FlippedBoards(t, row.done)
  <2>1. row \in Task
    BY TaskRowType DEF TypeOK
  <2>2. row.done \in BOOLEAN
    BY <2>1 DEF Task
  <2>3. flipped \in SUBSET ViewIds /\ BoardsOf(row.project) \in SUBSET ViewIds
        /\ ViewsOf(row.project) \in SUBSET ViewIds
    BY DEF FlippedBoards, BoardsOf, ViewsOf
  <2>4. tasks' = [tasks EXCEPT ![t] = row]
        /\ UNCHANGED <<projects, views, buckets, last>>
    BY <1>3 DEF UpdateTask
  <2>5. tasks' \in [TaskIds -> Task]
    BY <2>1, <2>4 DEF TypeOK
  <2>6. bucketOf[t] \in [ViewIds -> RowRef] /\ NoRows \in [ViewIds -> RowRef]
    BY DEF TypeOK, RowRef, NoRows
  <2> HIDE DEF row, flipped
  <2>7. CASE row.project # tasks[t].project
    <3>1. PICK f \in Landings(BoardsOf(row.project), row.done) :
            bucketOf' = [bucketOf EXCEPT ![t] = WithBuckets(NoRows, f)]
      BY <1>3, <2>7 DEF UpdateTask, row
    <3>2. WithBuckets(NoRows, f) \in [ViewIds -> RowRef]
      BY <2>2, <2>3, <2>6, WithBucketsType
    <3>3. bucketOf' \in [TaskIds -> [ViewIds -> RowRef]]
      BY <3>1, <3>2 DEF TypeOK, RowRef
    <3>4. positioned' = RelocatedPositions(t, row.project)
      BY <1>3, <2>7 DEF UpdateTask, row
    <3> QED
      BY <2>3, <2>4, <2>5, <3>3, <3>4 DEF TypeOK, RowRef, RelocatedPositions
  <2>8. CASE row.project = tasks[t].project /\ row.done # tasks[t].done
    <3>1. PICK f \in Landings(flipped, row.done) :
            bucketOf' = [bucketOf EXCEPT ![t] = WithBuckets(bucketOf[t], f)]
      BY <1>3, <2>8 DEF UpdateTask, row, flipped
    <3>2. WithBuckets(bucketOf[t], f) \in [ViewIds -> RowRef]
      BY <2>2, <2>3, <2>6, WithBucketsType
    <3>3. bucketOf' \in [TaskIds -> [ViewIds -> RowRef]]
      BY <3>1, <3>2 DEF TypeOK, RowRef
    <3>4. positioned' = positioned \cup ({t} \X flipped)
      BY <1>3, <2>8 DEF UpdateTask, row, flipped
    <3> QED
      BY <2>3, <2>4, <2>5, <3>3, <3>4 DEF TypeOK, RowRef
  <2>9. CASE row.project = tasks[t].project /\ row.done = tasks[t].done
    <3>1. UNCHANGED <<bucketOf, positioned>>
      BY <1>3, <2>9 DEF UpdateTask, row
    <3> QED
      BY <2>4, <2>5, <3>1 DEF TypeOK
  <2> QED
    BY <2>7, <2>8, <2>9
<1>4. ASSUME NEW t \in TaskIds, DeleteTask(t) PROVE TypeOK'
  BY <1>4 DEF DeleteTask, TypeOK, Task
<1>5. ASSUME NEW v \in ViewIds, NEW b \in BucketIds, NEW t \in TaskIds, MoveTask(v, b, t)
      PROVE  TypeOK'
  <2> DEFINE previous == CurrentBucket(t, v)
             landing == DragLanding(tasks[t], views[v], previous, b)
             row == DraggedTask(tasks[t], views[v].done, previous, b)
  <2>1. previous \in RowRef /\ views[v].default \in RowRef
    BY DEF TypeOK, CurrentBucket, RowRef, View
  <2>2. landing \in RowRef
    BY <2>1 DEF DragLanding, RowRef
  <2>4. row \in Task
    BY DraggedRowType DEF TypeOK
  <2>5. tasks' = [tasks EXCEPT ![t] = row] /\ bucketOf' = [bucketOf EXCEPT ![t][v] = landing]
        /\ UNCHANGED <<projects, views, buckets, positioned, last>>
    BY <1>5 DEF MoveTask
  <2> HIDE DEF row, landing
  <2> QED
    BY <2>2, <2>4, <2>5 DEF TypeOK, RowRef
<1> QED
  BY <1>1, <1>2, <1>3, <1>4, <1>5 DEF TaskNext

\* Whatever the ids, the bounds and the inputs, no sequence of requests leaves
\* the types the tables are declared with.
THEOREM TypeCorrect == Spec => []TypeOK
<1>1. TypeOK /\ UNCHANGED vars => TypeOK'
  BY DEF TypeOK, vars
<1>2. TypeOK /\ [Next]_vars => TypeOK'
  BY <1>1, TypeProject, TypeBucket, TypeTask DEF Next
<1> QED
  BY TypeInit, <1>2, PTL DEF Spec

-----------------------------------------------------------------------------
(* Placements and pointers.  Neither property holds step by step unless no *)
(* placement and no pointer can already name the id of a bucket that is    *)
(* yet to be created.                                                      *)

BoardInv == TypeOK /\ BucketIdsIssued

\* What the two properties ask of one step.
ViewsKept ==
    \A v \in ViewIds :
        /\ OwnPointers(v) => OwnPointers(v)' \/ DeletedAcross(v)
        /\ OwnPointers(v) /\ OwnRows(v) => OwnRows(v)' \/ DeletedAcross(v)

\* A cell of view v that was handed out, and is v's own if the view's pointers are.
OwnCell(v, c) == c <= last.bucket /\ (OwnPointers(v) => c \in BucketsOf(v))

\* A bucket that is resolved for view v is one of v's, or none.
LEMMA DefaultInView ==
    ASSUME NEW v \in ViewIds, NEW configured \in {0} \cup BucketsOf(v)
    PROVE  DefaultBucketId(v, configured) \subseteq {0} \cup BucketsOf(v)
BY DEF DefaultBucketId, LowestBuckets

\* A view's pointers, when they are live, name its own buckets, or none.
LEMMA PointerInView ==
    ASSUME TypeOK, NEW v \in ViewIds, OwnPointers(v)
    PROVE  /\ views[v].default \in {0} \cup BucketsOf(v)
           /\ views[v].done \in {0} \cup BucketsOf(v)
BY DEF TypeOK, View, OwnPointers, BucketsOf

\* The buckets of a view, and what its pointers name, were handed out.
LEMMA RefsIssued ==
    ASSUME BoardInv, NEW v \in ViewIds
    PROVE  /\ \A b \in BucketsOf(v) : b <= last.bucket
           /\ views[v].default <= last.bucket /\ views[v].done <= last.bucket
<1>1. last.bucket \in Nat /\ v # 0
  BY IdsAssumption DEF BoardInv, TypeOK
<1>2. views[v].default \in BucketIds \cup {0} /\ views[v].done \in BucketIds \cup {0}
  BY DEF BoardInv, TypeOK, View
<1>3. \A b \in BucketsOf(v) : b \in BucketIds /\ buckets[b].view # 0
  BY <1>1 DEF BucketsOf
<1> QED
  BY <1>1, <1>2, <1>3 DEF BoardInv, BucketIdsIssued

\* Where a task that is placed afresh in view v goes: nowhere, or into a cell that
\* is v's own.
LEMMA LandingInView ==
    ASSUME BoardInv, NEW v \in ViewIds, NEW done, NEW c \in Landing(v, done)
    PROVE  c = 0 \/ OwnCell(v, c)
<1>1. TypeOK /\ last.bucket \in Nat
  BY DEF BoardInv, TypeOK
<1>2. c \in {views[v].default, views[v].done, 0} \cup BucketsOf(v)
  BY DEF Landing, DefaultBucketId, LowestBuckets
<1>3. c <= last.bucket
  BY <1>1, <1>2, RefsIssued
<1>4. OwnPointers(v) => c \in {0} \cup BucketsOf(v)
  BY <1>1, <1>2, PointerInView
<1> QED
  BY <1>3, <1>4 DEF OwnCell

\* ... and so does every cell that _set_bucket writes.
LEMMA PlacedInView ==
    ASSUME BoardInv, NEW B \in SUBSET ViewIds, NEW done,
           NEW f \in Landings(B, done), NEW row, NEW v \in ViewIds
    PROVE  WithBuckets(row, f)[v] = row[v] \/ OwnCell(v, WithBuckets(row, f)[v])
<1>1. DOMAIN f = B /\ \A w \in B : f[w] \in Landing(w, done)
  BY DEF Landings
<1>2. v \in B => f[v] = 0 \/ OwnCell(v, f[v])
  BY <1>1, LandingInView
<1> QED
  BY <1>1, <1>2 DEF WithBuckets

\* A request that leaves views and buckets alone keeps ids and views when every cell
\* that it writes is the cell's view's own.
LEMMA CellsKeepBoard ==
    ASSUME BoardInv, TypeOK', UNCHANGED <<views, buckets>>, last'.bucket = last.bucket,
           \A t \in TaskIds, v \in ViewIds :
              bucketOf'[t][v] \in {bucketOf[t][v], 0, NoRow} \/ OwnCell(v, bucketOf'[t][v])
    PROVE  BoardInv' /\ ViewsKept
<1> USE IdsAssumption DEF BoardInv
<1>1. ASSUME NEW t \in TaskIds, NEW v \in ViewIds
      PROVE  bucketOf'[t][v] <= last.bucket
  <2>1. last.bucket \in Nat
    BY DEF TypeOK
  <2>2. CASE OwnCell(v, bucketOf'[t][v])
    BY <2>2 DEF OwnCell
  <2>3. CASE bucketOf'[t][v] = bucketOf[t][v]
    BY <2>3 DEF BucketIdsIssued
  <2>4. CASE bucketOf'[t][v] \in {0, NoRow}
    BY <2>1, <2>4 DEF NoRow
  <2> QED
    BY <2>2, <2>3, <2>4
<1>2. BucketIdsIssued'
  BY <1>1 DEF BucketIdsIssued
<1>3. ASSUME NEW v \in ViewIds, OwnPointers(v) PROVE OwnPointers(v)'
  BY <1>3 DEF OwnPointers
<1>4. ASSUME NEW v \in ViewIds, OwnPointers(v), OwnRows(v) PROVE OwnRows(v)'
  <2>1. ASSUME NEW t \in TaskIds, NEW b \in BucketIds, bucketOf'[t][v] = b
        PROVE  buckets[b].view \in {0, v}
    <3>1. b # 0 /\ b # NoRow
      BY DEF NoRow
    <3> QED
      BY <1>4, <2>1, <3>1 DEF OwnRows, OwnCell, BucketsOf
  <2> QED
    BY <2>1 DEF OwnRows
<1> QED
  BY <1>2, <1>3, <1>4 DEF ViewsKept

\* So does a request that creates buckets, all of them past last.bucket and all in
\* view v, and points at none but a view's own.
LEMMA NewBucketsKeepBoard ==
    ASSUME BoardInv, TypeOK', NEW v \in ViewIds, last'.bucket >= last.bucket,
           \A b \in BucketIds : \/ buckets'[b] = buckets[b]
                                 \/ /\ last.bucket < b /\ b <= last'.bucket
                                    /\ buckets'[b].view = v,
           \A w \in ViewIds, b \in BucketIds : b \in {views'[w].default, views'[w].done}
              => \/ b \in {views[w].default, views[w].done}
                 \/ buckets'[b].view = w,
           \A t \in TaskIds, w \in ViewIds :
              \/ bucketOf'[t][w] = bucketOf[t][w]
              \/ bucketOf'[t][w] \in BucketIds /\ buckets'[bucketOf'[t][w]].view = w
    PROVE  BoardInv' /\ ViewsKept
<1> USE IdsAssumption DEF BoardInv
<1>1. last.bucket \in Nat /\ last'.bucket \in Nat /\ BucketIds \subseteq Nat \ {0} /\ ViewIds \subseteq Nat \ {0}
  BY DEF TypeOK
<1>2. ASSUME NEW b \in BucketIds, b <= last.bucket
      PROVE  buckets'[b] = buckets[b]
  <2>1. ~(last.bucket < b)
    BY <1>1, <1>2
  <2> QED
    BY <2>1
<1>3. ASSUME NEW b \in BucketIds, buckets'[b].view # 0
      PROVE  b <= last'.bucket
  <2>1. CASE buckets'[b] = buckets[b]
    <3>1. b <= last.bucket
      BY <1>3, <2>1 DEF BucketIdsIssued
    <3> QED
      BY <1>1, <3>1
  <2> QED
    BY <2>1
<1>4. ASSUME NEW t \in TaskIds, NEW w \in ViewIds
      PROVE  bucketOf[t][w] \in Int /\ bucketOf[t][w] <= last.bucket
  <2>1. bucketOf[t][w] \in RowRef
    BY DEF TypeOK, RowRef
  <2>2. RowRef \subseteq Int
    BY IdsAssumption DEF RowRef, NoRow
  <2> QED
    BY <2>1, <2>2 DEF BucketIdsIssued
<1>5. ASSUME NEW t \in TaskIds, NEW w \in ViewIds
      PROVE  bucketOf'[t][w] <= last'.bucket
  <2>1. CASE bucketOf'[t][w] = bucketOf[t][w]
    BY <1>1, <1>4, <2>1
  <2>2. CASE bucketOf'[t][w] \in BucketIds /\ buckets'[bucketOf'[t][w]].view = w
    <3>1. w # 0
      BY <1>1
    <3> QED
      BY <1>3, <2>2, <3>1
  <2> QED
    BY <2>1, <2>2
<1>6. ASSUME NEW w \in ViewIds, NEW b \in BucketIds, b \in {views'[w].default, views'[w].done}
      PROVE  b <= last'.bucket
  <2>1. CASE b \in {views[w].default, views[w].done}
    <3>1. b \in Nat /\ b <= last.bucket
      BY <1>1, <2>1 DEF BucketIdsIssued
    <3> QED
      BY <1>1, <3>1
  <2>2. CASE buckets'[b].view = w
    BY <1>1, <1>3, <2>2
  <2> QED
    BY <1>6, <2>1, <2>2
<1>7. ASSUME NEW w \in ViewIds, OwnPointers(w) PROVE OwnPointers(w)'
  <2>1. ASSUME NEW b \in BucketIds, b \in {views[w].default, views[w].done}
        PROVE  buckets'[b].view = w
    BY <1>2, <1>7, <2>1 DEF OwnPointers, BucketIdsIssued
  <2> QED
    BY <2>1 DEF OwnPointers
<1>8. ASSUME NEW w \in ViewIds, OwnRows(w) PROVE OwnRows(w)'
  <2>1. ASSUME NEW t \in TaskIds, NEW b \in BucketIds, bucketOf[t][w] = b
        PROVE  buckets'[b].view \in {0, w}
    BY <1>2, <1>4, <1>8, <2>1 DEF OwnRows
  <2> QED
    BY <2>1 DEF OwnRows
<1> QED
  BY <1>3, <1>5, <1>6, <1>7, <1>8 DEF BucketIdsIssued, ViewsKept

\* The default buckets take the three ids from `first` on and no other.
LEMMA DefaultBucketsRows ==
    ASSUME NEW v, NEW first \in Nat, NEW b \in BucketIds
    PROVE  LET rows == WithDefaultBuckets(v, first)
           IN  \/ b \notin first..(first + 2) /\ rows[b] = buckets[b]
               \/ b \in first..(first + 2) /\ rows[b].view = v
<1>1. b \in Int /\ (b - first \in 0..2 <=> b \in first..(first + 2))
  BY IdsAssumption
<1> QED
  BY <1>1 DEF WithDefaultBuckets

\* An empty database satisfies the invariant.
LEMMA BoardInvInit == Init => BoardInv
<1> SUFFICES ASSUME Init PROVE BoardInv
  OBVIOUS
<1>1. BucketIds \subseteq Nat \ {0}
  BY IdsAssumption
<1>2. BucketIdsIssued
  BY <1>1 DEF Init, BucketIdsIssued, NoBucket, NoRows, NoRow, NoView
<1> QED
  BY <1>2, TypeInit DEF BoardInv

\* Every task request keeps ids and views.
LEMMA BoardTask == BoardInv /\ TaskNext => BoardInv' /\ ViewsKept
<1> SUFFICES ASSUME BoardInv, TaskNext PROVE BoardInv' /\ ViewsKept
  OBVIOUS
<1> USE DEF BoardInv
<1>0. TypeOK'
  BY TypeTask
<1>1. ASSUME NEW p \in ProjectIds, NEW w \in TaskWrite, CreateTask(p, w) PROVE BoardInv' /\ ViewsKept
  <2> DEFINE t == last.task + 1
  <2>1. PICK f \in Landings(BoardsOf(p), w.done) :
          bucketOf' = [bucketOf EXCEPT ![t] = WithBuckets(bucketOf[t], f)]
    BY <1>1 DEF CreateTask
  <2>2. BoardsOf(p) \in SUBSET ViewIds
    BY DEF BoardsOf, ViewsOf
  <2>3. UNCHANGED <<views, buckets>> /\ last'.bucket = last.bucket
    BY <1>1 DEF CreateTask, InsertTask, TypeOK
  <2>4. ASSUME NEW s \in TaskIds, NEW v \in ViewIds
        PROVE  bucketOf'[s][v] = bucketOf[s][v] \/ OwnCell(v, bucketOf'[s][v])
    <3> DEFINE row == WithBuckets(bucketOf[t], f)
    <3>1. row[v] = bucketOf[t][v] \/ OwnCell(v, row[v])
      BY <2>2, PlacedInView
    <3>2. bucketOf'[s] = bucketOf[s] \/ (s = t /\ bucketOf'[s] = row)
      BY <2>1 DEF TypeOK
    <3> HIDE DEF row, t
    <3> QED
      BY <3>1, <3>2
  <2> QED
    BY <1>0, <2>3, <2>4, CellsKeepBoard
<1>2. ASSUME NEW p \in ProjectIds, NEW w \in TaskWrite, CreateTaskRejected(p, w) PROVE BoardInv' /\ ViewsKept
  <2>1. UNCHANGED <<views, buckets, bucketOf>> /\ last'.bucket = last.bucket
    BY <1>2 DEF CreateTaskRejected, InsertTask, TypeOK
  <2> QED
    BY <1>0, <2>1, CellsKeepBoard
<1>3. ASSUME NEW t \in TaskIds, NEW p \in ProjectIds \cup {0}, NEW w \in TaskWrite,
             UpdateTask(t, p, w)
      PROVE  BoardInv' /\ ViewsKept
  <2> DEFINE row == UpdatedTask(tasks[t], p, w)
             flipped == FlippedBoards(t, row.done)
  <2>1. UNCHANGED <<views, buckets, last>>
    BY <1>3 DEF UpdateTask
  <2>2. flipped \in SUBSET ViewIds /\ BoardsOf(row.project) \in SUBSET ViewIds
    BY DEF FlippedBoards, BoardsOf, ViewsOf
  <2>3. ASSUME NEW s \in TaskIds, NEW v \in ViewIds
        PROVE  bucketOf'[s][v] \in {bucketOf[s][v], 0, NoRow} \/ OwnCell(v, bucketOf'[s][v])
    <3> HIDE DEF row, flipped
    <3>1. CASE row.project # tasks[t].project
      <4>1. PICK f \in Landings(BoardsOf(row.project), row.done) :
              bucketOf' = [bucketOf EXCEPT ![t] = WithBuckets(NoRows, f)]
        BY <1>3, <3>1 DEF UpdateTask, row
      <4> DEFINE cells == WithBuckets(NoRows, f)
      <4>2. cells[v] = NoRow \/ OwnCell(v, cells[v])
        BY <2>2, PlacedInView DEF NoRows
      <4>3. bucketOf'[s] = bucketOf[s] \/ bucketOf'[s] = cells
        BY <4>1 DEF TypeOK
      <4> HIDE DEF cells
      <4> QED
        BY <4>2, <4>3
    <3>2. CASE row.project = tasks[t].project /\ row.done # tasks[t].done
      <4>1. PICK f \in Landings(flipped, row.done) :
              bucketOf' = [bucketOf EXCEPT ![t] = WithBuckets(bucketOf[t], f)]
        BY <1>3, <3>2 DEF UpdateTask, row, flipped
      <4> DEFINE cells == WithBuckets(bucketOf[t], f)
      <4>2. cells[v] = bucketOf[t][v] \/ OwnCell(v, cells[v])
        BY <2>2, PlacedInView
      <4>3. bucketOf'[s] = bucketOf[s] \/ (s = t /\ bucketOf'[s] = cells)
        BY <4>1 DEF TypeOK
      <4> HIDE DEF cells
      <4> QED
        BY <4>2, <4>3
    <3>3. CASE row.project = tasks[t].project /\ row.done = tasks[t].done
      <4>1. bucketOf' = bucketOf
        BY <1>3, <3>3 DEF UpdateTask, row
      <4> QED
        BY <4>1
    <3> QED
      BY <3>1, <3>2, <3>3
  <2> QED
    BY <1>0, <2>1, <2>3, CellsKeepBoard
<1>4. ASSUME NEW t \in TaskIds, DeleteTask(t) PROVE BoardInv' /\ ViewsKept
  <2>1. UNCHANGED <<views, buckets, bucketOf, last>>
    BY <1>4 DEF DeleteTask
  <2> QED
    BY <1>0, <2>1, CellsKeepBoard
<1>5. ASSUME NEW v \in ViewIds, NEW b \in BucketIds, NEW t \in TaskIds, MoveTask(v, b, t)
      PROVE  BoardInv' /\ ViewsKept
  <2> DEFINE landing == DragLanding(tasks[t], views[v], CurrentBucket(t, v), b)
  <2>1. bucketOf' = [bucketOf EXCEPT ![t][v] = landing] /\ UNCHANGED <<views, buckets, last>>
        /\ b \in BucketsOf(v)
    BY <1>5 DEF MoveTask, BucketsOf
  <2>2. landing \in {bucketOf[t][v], 0} \/ OwnCell(v, landing)
    <3>1. landing \in {bucketOf[t][v], 0, b, views[v].default}
      BY DEF DragLanding, CurrentBucket
    <3>2. OwnCell(v, b)
      BY <2>1, RefsIssued DEF OwnCell
    <3>3. views[v].default = 0 \/ OwnCell(v, views[v].default)
      BY RefsIssued, PointerInView DEF OwnCell
    <3> HIDE DEF landing
    <3> QED
      BY <3>1, <3>2, <3>3
  <2> HIDE DEF landing
  <2>3. ASSUME NEW s \in TaskIds, NEW w \in ViewIds
        PROVE  bucketOf'[s][w] \in {bucketOf[s][w], 0, NoRow} \/ OwnCell(w, bucketOf'[s][w])
    <3>1. bucketOf'[s][w] = bucketOf[s][w] \/ (s = t /\ w = v /\ bucketOf'[s][w] = landing)
      BY <2>1 DEF TypeOK
    <3> QED
      BY <2>2, <3>1
  <2> QED
    BY <1>0, <2>1, <2>3, CellsKeepBoard
<1> QED
  BY <1>1, <1>2, <1>3, <1>4, <1>5 DEF TaskNext

\* So does one that clears pointers or rows and leaves the buckets alone.
LEMMA ViewsAlone ==
    ASSUME BoardInv, TypeOK', buckets' = buckets, last'.bucket = last.bucket,
           \A v \in ViewIds : views'[v] = views[v] \/ (views'[v].default = 0 /\ views'[v].done = 0),
           \A t \in TaskIds, v \in ViewIds : bucketOf'[t][v] \in {bucketOf[t][v], NoRow}
    PROVE  BoardInv' /\ ViewsKept
<1>1. last.bucket \in Nat /\ BucketIds \subseteq Nat \ {0}
  BY IdsAssumption DEF BoardInv, TypeOK
<1>2. BucketIdsIssued'
  <2>1. \A b \in BucketIds : buckets'[b].view # 0 => b <= last'.bucket
    BY DEF BoardInv, BucketIdsIssued
  <2>2. \A t \in TaskIds, v \in ViewIds : bucketOf'[t][v] <= last'.bucket
    BY <1>1 DEF BoardInv, BucketIdsIssued, NoRow
  <2>3. ASSUME NEW v \in ViewIds, NEW b \in BucketIds, b \in {views'[v].default, views'[v].done}
        PROVE  b <= last'.bucket
    <3>1. b \in {views[v].default, views[v].done}
      BY <1>1, <2>3
    <3> QED
      BY <3>1 DEF BoardInv, BucketIdsIssued
  <2> QED
    BY <2>1, <2>2, <2>3 DEF BucketIdsIssued
<1>3. ASSUME NEW v \in ViewIds, OwnPointers(v) PROVE OwnPointers(v)'
  BY <1>1, <1>3 DEF OwnPointers
<1>4. ASSUME NEW v \in ViewIds, OwnRows(v) PROVE OwnRows(v)'
  BY <1>1, <1>4 DEF OwnRows, NoRow
<1> QED
  BY <1>2, <1>3, <1>4 DEF BoardInv, ViewsKept

\* So does every project and view request.
LEMMA BoardProject == BoardInv /\ ProjectNext => BoardInv' /\ ViewsKept
<1> SUFFICES ASSUME BoardInv, ProjectNext PROVE BoardInv' /\ ViewsKept
  OBVIOUS
<1> USE DEF BoardInv
<1>0. /\ TypeOK' /\ last.bucket \in Nat /\ last.view \in Nat
      /\ BucketIds \subseteq Nat \ {0} /\ ViewIds \subseteq Nat \ {0} /\ 0 \notin ProjectIds
  BY TypeProject, IdsAssumption DEF TypeOK
<1>1. CASE CreateProject
  <2> DEFINE p == last.project + 1
             list == last.view + 1
             kanban == last.view + 2
             first == last.bucket + 1
  <2>1. /\ list \in ViewIds /\ kanban \in ViewIds /\ first..(first + 2) \subseteq BucketIds
        /\ views' = [views EXCEPT ![list] = NewList(p), ![kanban] = NewBoard(p, first)]
        /\ buckets' = WithDefaultBuckets(kanban, first)
        /\ bucketOf' = bucketOf
    BY <1>1 DEF CreateProject
  <2>2. last'.bucket = first + 2
    BY <1>1 DEF CreateProject, TypeOK
  <2>3. \A b \in BucketIds : \/ b \notin first..(first + 2) /\ buckets'[b] = buckets[b]
                             \/ b \in first..(first + 2) /\ buckets'[b].view = kanban
    BY <1>0, <2>1, DefaultBucketsRows
  <2>4. views'[list].default = 0 /\ views'[list].done = 0
    BY <1>0, <2>1 DEF NewList, NoView, TypeOK
  <2>5. views'[kanban].default = first /\ views'[kanban].done = first + 2
    BY <1>0, <2>1 DEF NewBoard, TypeOK
  <2>6. first \in BucketIds /\ first + 2 \in BucketIds
    BY <1>0, <2>1
  <2>7. buckets'[first].view = kanban /\ buckets'[first + 2].view = kanban
    BY <1>0, <2>3, <2>6
  <2>8. \A w \in ViewIds, b \in BucketIds : b \in {views'[w].default, views'[w].done}
           => \/ b \in {views[w].default, views[w].done}
              \/ buckets'[b].view = w
    <3>1. \A w \in ViewIds : w \in {list, kanban} \/ views'[w] = views[w]
      BY <2>1 DEF TypeOK
    <3> QED
      BY <1>0, <2>4, <2>5, <2>7, <3>1
  <2>9. \A b \in BucketIds : \/ buckets'[b] = buckets[b]
                             \/ /\ last.bucket < b /\ b <= last'.bucket
                                /\ buckets'[b].view = kanban
    <3>1. \A b \in first..(first + 2) : last.bucket < b /\ b <= last'.bucket
      BY <1>0, <2>2
    <3> HIDE DEF first, kanban, BoardInv
    <3> QED
      BY <2>3, <3>1
  <2>10. last'.bucket >= last.bucket
    BY <1>0, <2>2
  <2> QED
    BY <1>0, <2>1, <2>8, <2>9, <2>10, NewBucketsKeepBoard
<1>2. ASSUME NEW S \in SUBSET ProjectIds, DeleteProject(S) PROVE BoardInv' /\ ViewsKept
  <2>1. bucketOf' = bucketOf /\ last' = last
    BY <1>2 DEF DeleteProject
  <2>2. ASSUME NEW b \in BucketIds
        PROVE  buckets'[b] = NoBucket \/ buckets'[b] = buckets[b]
    BY <1>2 DEF DeleteProject
  <2>3. ASSUME NEW v \in ViewIds
        PROVE  views'[v] = NoView \/ (views'[v] = views[v] /\ views[v].project \notin S)
    BY <1>2 DEF DeleteProject
  <2>4. BucketIdsIssued'
    BY <1>0, <2>1, <2>2, <2>3 DEF BucketIdsIssued, NoBucket, NoView
  <2>5. ASSUME NEW v \in ViewIds, OwnRows(v) PROVE OwnRows(v)'
    BY <2>1, <2>2, <2>5 DEF OwnRows, NoBucket
  <2>6. ASSUME NEW v \in ViewIds, OwnPointers(v) PROVE OwnPointers(v)'
    <3>1. ASSUME NEW b \in BucketIds, b \in {views'[v].default, views'[v].done}
          PROVE  buckets'[b].view = v
      <4>1. views'[v] = views[v] /\ views[v].project \notin S
        BY <1>0, <2>3, <3>1 DEF NoView
      <4>2. buckets[b].view = v
        BY <2>6, <3>1, <4>1 DEF OwnPointers
      <4> QED
        BY <1>2, <4>1, <4>2 DEF DeleteProject
    <3> QED
      BY <3>1 DEF OwnPointers
  <2> QED
    BY <1>0, <2>4, <2>5, <2>6 DEF ViewsKept
<1>3. ASSUME NEW p \in ProjectIds, NEW board \in BoardKinds, CreateView(p, board) PROVE BoardInv' /\ ViewsKept
  <2> DEFINE v == last.view + 1
             first == last.bucket + 1
  <2>1. v \in ViewIds
    BY <1>3 DEF CreateView
  <2>2. CASE board
    <3>1. /\ first..(first + 2) \subseteq BucketIds
          /\ views' = [views EXCEPT ![v] = NewBoard(p, first)]
          /\ buckets' = WithDefaultBuckets(v, first)
          /\ bucketOf' = [t \in TaskIds |-> IF t \in TasksOf(p) THEN [bucketOf[t] EXCEPT ![v] = first]
                                            ELSE bucketOf[t]]
      BY <1>3, <2>2 DEF CreateView
    <3>2. last'.bucket = first + 2
      BY <1>3, <2>2 DEF CreateView, TypeOK
    <3>3. \A b \in BucketIds : \/ b \notin first..(first + 2) /\ buckets'[b] = buckets[b]
                               \/ b \in first..(first + 2) /\ buckets'[b].view = v
      BY <1>0, <3>1, DefaultBucketsRows
    <3>4. views'[v].default = first /\ views'[v].done = first + 2
      BY <2>1, <3>1 DEF NewBoard, TypeOK
    <3>5. first \in BucketIds /\ first + 2 \in BucketIds
      BY <1>0, <3>1
    <3>6. buckets'[first].view = v /\ buckets'[first + 2].view = v
      BY <1>0, <3>3, <3>5
    <3>7. \A w \in ViewIds, b \in BucketIds : b \in {views'[w].default, views'[w].done}
             => \/ b \in {views[w].default, views[w].done}
                \/ buckets'[b].view = w
      <4>1. \A w \in ViewIds : w = v \/ views'[w] = views[w]
        BY <3>1 DEF TypeOK
      <4> QED
        BY <3>4, <3>6, <4>1
    <3>8. \A t \in TaskIds, w \in ViewIds :
             \/ bucketOf'[t][w] = bucketOf[t][w]
             \/ bucketOf'[t][w] \in BucketIds /\ buckets'[bucketOf'[t][w]].view = w
      <4>1. \A t \in TaskIds, w \in ViewIds : bucketOf'[t][w] = bucketOf[t][w] \/ (w = v /\ bucketOf'[t][w] = first)
        BY <3>1 DEF TypeOK
      <4> QED
        BY <3>5, <3>6, <4>1
    <3>9. \A b \in BucketIds : \/ buckets'[b] = buckets[b]
                               \/ /\ last.bucket < b /\ b <= last'.bucket
                                  /\ buckets'[b].view = v
      <4>1. \A b \in first..(first + 2) : last.bucket < b /\ b <= last'.bucket
        BY <1>0, <3>2
      <4> HIDE DEF first, v, BoardInv
      <4> QED
        BY <3>3, <4>1
    <3>10. last'.bucket >= last.bucket
      BY <1>0, <3>2
    <3> QED
      BY <1>0, <2>1, <3>7, <3>8, <3>9, <3>10, NewBucketsKeepBoard
  <2>3. CASE ~board
    <3>1. views' = [views EXCEPT ![v] = NewList(p)] /\ UNCHANGED <<buckets, bucketOf>>
      BY <1>3, <2>3 DEF CreateView
    <3>2. last'.bucket = last.bucket
      BY <1>3, <2>3 DEF CreateView, TypeOK
    <3>3. \A w \in ViewIds : views'[w] = views[w] \/ (views'[w].default = 0 /\ views'[w].done = 0)
      BY <3>1 DEF NewList, NoView, TypeOK
    <3> QED
      BY <1>0, <3>1, <3>2, <3>3, ViewsAlone
  <2> QED
    BY <2>2, <2>3
<1>4. ASSUME NEW v \in ViewIds, NEW board \in BoardKinds, UpdateView(v, board) PROVE BoardInv' /\ ViewsKept
  <2>1. \A w \in ViewIds : views'[w] = views[w] \/ (views'[w].default = 0 /\ views'[w].done = 0)
    BY <1>4 DEF UpdateView, NoView, TypeOK
  <2>2. UNCHANGED <<buckets, bucketOf, last>>
    BY <1>4 DEF UpdateView
  <2> QED
    BY <1>0, <2>1, <2>2, ViewsAlone
<1>5. ASSUME NEW v \in ViewIds, DeleteView(v) PROVE BoardInv' /\ ViewsKept
  <2>1. \A w \in ViewIds : views'[w] = views[w] \/ (views'[w].default = 0 /\ views'[w].done = 0)
    BY <1>5 DEF DeleteView, NoView, TypeOK
  <2>2. UNCHANGED <<buckets, last>>
    BY <1>5 DEF DeleteView
  <2>3. \A t \in TaskIds, w \in ViewIds : bucketOf'[t][w] \in {bucketOf[t][w], NoRow}
    BY <1>5 DEF DeleteView, TypeOK
  <2> QED
    BY <1>0, <2>1, <2>2, <2>3, ViewsAlone
<1> QED
  BY <1>1, <1>2, <1>3, <1>4, <1>5 DEF ProjectNext

\* A bucket that goes takes its own view's pointers and rows along: unless it goes
\* through another view's path, whose pointers are cleared in their place and whose
\* buckets its rows are rehomed to.  No third view is touched.
LEMMA DeleteBucketKeepsBoard ==
    ASSUME BoardInv, TypeOK', NEW v \in ViewIds, NEW b \in BucketIds, DeleteBucket(v, b)
    PROVE  BoardInv' /\ ViewsKept
<1> USE DEF BoardInv
<1>0. last.bucket \in Nat /\ BucketIds \subseteq Nat \ {0} /\ ViewIds \subseteq Nat \ {0}
  BY IdsAssumption DEF TypeOK
<1> DEFINE unlinked == Unlinked(views[v], b)
<1>1. /\ buckets[b].view # 0 /\ views' = [views EXCEPT ![v] = unlinked]
      /\ buckets' = [buckets EXCEPT ![b] = NoBucket] /\ last' = last
  BY DEF DeleteBucket
<1>2. /\ unlinked.default \in {0, views[v].default} /\ unlinked.default # b
      /\ unlinked.done \in {0, views[v].done} /\ unlinked.done # b
  BY <1>0 DEF Unlinked, TypeOK, View
<1>3. PICK target \in DefaultBucketId(v, unlinked.default) :
        bucketOf' = [t \in TaskIds |-> Rehomed(bucketOf[t], b, target)]
  BY DEF DeleteBucket
<1> HIDE DEF unlinked
<1>4. target \in {0, views[v].default} \cup BucketsOf(v)
  BY <1>2, <1>3 DEF DefaultBucketId, LowestBuckets
<1>5. target <= last.bucket
  BY <1>0, <1>4, RefsIssued
<1>6. \A c \in BucketIds : IF c = b THEN buckets'[c].view = 0 ELSE buckets'[c] = buckets[c]
  BY <1>1 DEF TypeOK, NoBucket
<1>7. ASSUME NEW t \in TaskIds, NEW w \in ViewIds
      PROVE  bucketOf'[t][w] = IF bucketOf[t][w] = b THEN target ELSE bucketOf[t][w]
  BY <1>3 DEF Rehomed
<1>8. ASSUME NEW w \in ViewIds
      PROVE  IF w = v THEN views'[w] = unlinked ELSE views'[w] = views[w]
  BY <1>1 DEF TypeOK
<1>9. BucketIdsIssued'
  <2>1. \A c \in BucketIds : buckets'[c].view # 0 => c <= last'.bucket
    BY <1>1, <1>6 DEF BucketIdsIssued
  <2>2. \A t \in TaskIds, w \in ViewIds : bucketOf'[t][w] <= last'.bucket
    BY <1>1, <1>5, <1>7 DEF BucketIdsIssued
  <2>3. \A w \in ViewIds, c \in BucketIds :
           c \in {views'[w].default, views'[w].done} => c <= last'.bucket
    BY <1>0, <1>1, <1>2, <1>8 DEF BucketIdsIssued
  <2> QED
    BY <2>1, <2>2, <2>3 DEF BucketIdsIssued
<1>10. ASSUME NEW w \in ViewIds, ~DeletedAcross(w) PROVE w = v \/ buckets[b].view # w
  BY <1>10 DEF DeletedAcross
<1>11. ASSUME NEW w \in ViewIds, OwnPointers(w), ~DeletedAcross(w)
       PROVE  OwnPointers(w)'
  <2>1. ASSUME NEW c \in BucketIds, c \in {views'[w].default, views'[w].done}
        PROVE  buckets'[c].view = w
    <3>1. c \in {views[w].default, views[w].done} /\ (w = v => c # b)
      BY <1>0, <1>2, <1>8, <2>1
    <3>2. buckets[c].view = w
      BY <1>11, <3>1 DEF OwnPointers
    <3> QED
      BY <1>6, <1>10, <1>11, <3>1, <3>2
  <2> QED
    BY <2>1 DEF OwnPointers
<1>12. ASSUME NEW w \in ViewIds, OwnPointers(w), OwnRows(w), ~DeletedAcross(w)
       PROVE  OwnRows(w)'
  <2>1. ASSUME NEW t \in TaskIds, NEW c \in BucketIds, bucketOf'[t][w] = c
        PROVE  buckets'[c].view \in {0, w}
    <3>1. CASE bucketOf[t][w] = b
      <4>1. w = v
        BY <1>1, <1>10, <1>12, <3>1 DEF OwnRows
      <4>2. c = target
        BY <1>7, <2>1, <3>1
      <4>3. views[v].default \in {0} \cup BucketsOf(v)
        BY <1>12, <4>1, PointerInView
      <4>4. buckets[c].view = v
        BY <1>0, <1>4, <4>2, <4>3 DEF BucketsOf
      <4> QED
        BY <1>6, <4>1, <4>4
    <3>2. CASE bucketOf[t][w] # b
      <4>1. buckets[c].view \in {0, w}
        BY <1>7, <1>12, <2>1, <3>2 DEF OwnRows
      <4> QED
        BY <1>6, <4>1
    <3> QED
      BY <3>1, <3>2
  <2> QED
    BY <2>1 DEF OwnRows
<1> QED
  BY <1>9, <1>11, <1>12 DEF ViewsKept

\* Every bucket request keeps ids and views.
LEMMA BoardBucket == BoardInv /\ BucketNext => BoardInv' /\ ViewsKept
<1> SUFFICES ASSUME BoardInv, BucketNext PROVE BoardInv' /\ ViewsKept
  OBVIOUS
<1> USE DEF BoardInv
<1>0. /\ TypeOK' /\ last.bucket \in Nat /\ last.view \in Nat
      /\ BucketIds \subseteq Nat \ {0} /\ ViewIds \subseteq Nat \ {0}
  BY TypeBucket, IdsAssumption DEF TypeOK
<1>1. ASSUME NEW v \in ViewIds, NEW limit \in Limits, NEW position \in Positions,
             CreateBucket(v, limit, position)
      PROVE  BoardInv' /\ ViewsKept
  <2> DEFINE b == last.bucket + 1
  <2>1. UNCHANGED <<views, bucketOf>> /\ last'.bucket = b
    BY <1>1 DEF CreateBucket, TypeOK
  <2>2. \A c \in BucketIds : buckets'[c] = buckets[c] \/ (c = b /\ buckets'[c].view = v)
    BY <1>1 DEF CreateBucket, TypeOK
  <2>3. \A c \in BucketIds : \/ buckets'[c] = buckets[c]
                             \/ /\ last.bucket < c /\ c <= last'.bucket
                                /\ buckets'[c].view = v
    BY <1>0, <2>1, <2>2
  <2>4. last'.bucket >= last.bucket
    BY <1>0, <2>1
  <2> QED
    BY <1>0, <2>1, <2>3, <2>4, NewBucketsKeepBoard
<1>2. ASSUME NEW b \in BucketIds, NEW limit \in Limits, NEW position \in Positions,
             UpdateBucket(b, limit, position)
      PROVE  BoardInv' /\ ViewsKept
  <2>1. \A c \in BucketIds : buckets'[c].view = buckets[c].view
    BY <1>2 DEF UpdateBucket, TypeOK, Bucket
  <2>2. UNCHANGED <<views, bucketOf, last>>
    BY <1>2 DEF UpdateBucket
  <2> QED
    BY <1>0, <2>1, <2>2 DEF BucketIdsIssued, OwnRows, OwnPointers, ViewsKept
<1>3. ASSUME NEW v \in ViewIds, NEW b \in BucketIds, DeleteBucket(v, b)
      PROVE  BoardInv' /\ ViewsKept
  BY <1>0, <1>3, DeleteBucketKeepsBoard
<1> QED
  BY <1>1, <1>2, <1>3 DEF BucketNext

\* Every step keeps the invariant, and what the two properties ask of it.
LEMMA BoardStep == BoardInv /\ [Next]_vars => BoardInv' /\ ViewsKept
<1>1. BoardInv /\ UNCHANGED vars => BoardInv' /\ ViewsKept
  BY DEF BoardInv, TypeOK, BucketIdsIssued, OwnRows, OwnPointers, BucketsOf, ViewsKept, vars
<1> QED
  BY <1>1, BoardProject, BoardBucket, BoardTask DEF Next

\* No placement leaves its view, whatever the requests do and whatever state they find:
\* but for a bucket that is deleted through another view's path, which takes its rows
\* there.
THEOREM PlacementsStayInView == Spec => PlacementsKept
<1>1. BoardInv /\ [Next]_vars => BoardInv'
  BY BoardStep
<1>2. BoardInv /\ [Next]_vars =>
        [\A v \in ViewIds : OwnPointers(v) /\ OwnRows(v) => OwnRows(v)' \/ DeletedAcross(v)]_vars
  BY BoardStep DEF ViewsKept
<1> QED
  BY BoardInvInit, <1>1, <1>2, PTL DEF Spec, PlacementsKept

\* No view comes to point at a bucket that is gone, or that is not one of its own, but
\* by the deletion of one of its buckets through another view's path.
THEOREM PointersStayLive == Spec => PointersKept
<1>1. BoardInv /\ [Next]_vars => BoardInv'
  BY BoardStep
<1>2. BoardInv /\ [Next]_vars =>
        [\A v \in ViewIds : OwnPointers(v) => OwnPointers(v)' \/ DeletedAcross(v)]_vars
  BY BoardStep DEF ViewsKept
<1> QED
  BY BoardInvInit, <1>1, <1>2, PTL DEF Spec, PointersKept

-----------------------------------------------------------------------------
(* The tasks.  What a step may do to a task's done state holds whatever    *)
(* the inputs, under either engine and through whichever path a bucket is  *)
(* deleted.  That no view misses a task's rows holds where a refused       *)
(* creation leaves no task behind.                                         *)

\* The ids of the tasks that exist, and the pointers of the views: what the
\* steps below depend on besides the types.
IssuedInv == TypeOK /\ TaskIdsIssued /\ PointersApart

\* An empty database satisfies it.
LEMMA IssuedInit == Init => IssuedInv
<1> SUFFICES ASSUME Init PROVE IssuedInv
  OBVIOUS
<1>1. TaskIdsIssued
  BY DEF Init, TaskIdsIssued, NoTask
<1>2. PointersApart
  BY DEF Init, PointersApart, NoView
<1> QED
  BY <1>1, <1>2, TypeInit DEF IssuedInv

\* A view that is made a board gets two different buckets; no other request
\* sets a pointer.
LEMMA BoardPointersApart ==
    ASSUME NEW p, NEW first \in Nat
    PROVE  NewBoard(p, first).default # NewBoard(p, first).done
BY DEF NewBoard

\* Every project and view request keeps it.
LEMMA IssuedProject == IssuedInv /\ ProjectNext => IssuedInv'
<1> SUFFICES ASSUME IssuedInv, ProjectNext PROVE IssuedInv'
  OBVIOUS
<1> USE DEF IssuedInv
<1>0. TypeOK'
  BY TypeProject
<1>1. CASE CreateProject
  <2>1. TaskIdsIssued'
    BY <1>1 DEF CreateProject, TaskIdsIssued, TypeOK
  <2>2. last.bucket + 1 \in Nat
    BY DEF TypeOK
  <2>3. ASSUME NEW v \in ViewIds
        PROVE  \/ views'[v] = views[v]
               \/ views'[v].default = 0
               \/ views'[v].default # views'[v].done
    BY <1>1, <2>2, BoardPointersApart DEF CreateProject, NewList, NoView, TypeOK
  <2>4. PointersApart'
    BY <2>3 DEF PointersApart
  <2> QED
    BY <1>0, <2>1, <2>4
<1>2. CASE \E S \in SUBSET ProjectIds : DeleteProject(S)
  <2> PICK S \in SUBSET ProjectIds : DeleteProject(S)
    BY <1>2
  <2>1. TaskIdsIssued'
    <3> SUFFICES ASSUME NEW t \in TaskIds, tasks'[t].project # 0
                 PROVE  t <= last'.task /\ tasks'[t].project \in projects'
      BY DEF TaskIdsIssued
    <3>1. tasks'[t] = tasks[t] /\ tasks[t].project \notin S
      BY DEF DeleteProject, NoTask
    <3> QED
      BY <3>1 DEF DeleteProject, TaskIdsIssued
  <2>2. PointersApart'
    BY DEF DeleteProject, PointersApart, NoView
  <2> QED
    BY <1>0, <2>1, <2>2
<1>3. ASSUME NEW p \in ProjectIds, NEW board \in BoardKinds, CreateView(p, board) PROVE IssuedInv'
  <2>0. last'.task = last.task /\ tasks' = tasks /\ projects' = projects
    BY <1>3 DEF CreateView, TypeOK
  <2>1. TaskIdsIssued'
    BY <2>0 DEF TaskIdsIssued
  <2>2. last.bucket + 1 \in Nat
    BY DEF TypeOK
  <2>3. ASSUME NEW v \in ViewIds
        PROVE  \/ views'[v] = views[v]
               \/ views'[v].default = 0
               \/ views'[v].default # views'[v].done
    BY <1>3, <2>2, BoardPointersApart DEF CreateView, NewList, NoView, TypeOK
  <2>4. PointersApart'
    BY <2>3 DEF PointersApart
  <2> QED
    BY <1>0, <2>1, <2>4
<1>4. ASSUME NEW v \in ViewIds, NEW board \in BoardKinds, UpdateView(v, board) PROVE IssuedInv'
  <2>1. TaskIdsIssued'
    BY <1>4 DEF UpdateView, TaskIdsIssued
  <2>2. PointersApart'
    BY <1>4 DEF UpdateView, PointersApart, NoView, TypeOK
  <2> QED
    BY <1>0, <2>1, <2>2
<1>5. ASSUME NEW v \in ViewIds, DeleteView(v) PROVE IssuedInv'
  <2>1. TaskIdsIssued'
    BY <1>5 DEF DeleteView, TaskIdsIssued
  <2>2. PointersApart'
    BY <1>5 DEF DeleteView, PointersApart, NoView, TypeOK
  <2> QED
    BY <1>0, <2>1, <2>2
<1> QED
  BY <1>1, <1>2, <1>3, <1>4, <1>5 DEF ProjectNext

\* Every bucket request keeps it: deleting a bucket only clears pointers.
LEMMA IssuedBucket == IssuedInv /\ BucketNext => IssuedInv'
<1> SUFFICES ASSUME IssuedInv, BucketNext PROVE IssuedInv'
  OBVIOUS
<1> USE DEF IssuedInv
<1>0. TypeOK'
  BY TypeBucket
<1>1. tasks' = tasks /\ projects' = projects /\ last'.task = last.task
  BY DEF BucketNext, CreateBucket, UpdateBucket, DeleteBucket, TypeOK
<1>2. TaskIdsIssued'
  BY <1>1 DEF TaskIdsIssued
<1>3. \A w \in ViewIds : views'[w].default # 0 => views'[w].default = views[w].default
                         /\ views'[w].done \in {0, views[w].done}
  <2>1. CASE views' = views
    BY <2>1
  <2>2. ASSUME NEW v \in ViewIds, NEW b \in BucketIds, DeleteBucket(v, b)
        PROVE  \A w \in ViewIds : views'[w].default # 0 => views'[w].default = views[w].default
                                 /\ views'[w].done \in {0, views[w].done}
    <3>1. views' = [views EXCEPT ![v] = Unlinked(views[v], b)]
      BY <2>2 DEF DeleteBucket
    <3>2. views \in [ViewIds -> View]
      BY DEF TypeOK
    <3>3. /\ Unlinked(views[v], b).default \in {0, views[v].default}
          /\ Unlinked(views[v], b).done \in {0, views[v].done}
      BY <3>2 DEF Unlinked, View
    <3> QED
      BY <3>1, <3>2, <3>3
  <2> QED
    BY <2>1, <2>2 DEF BucketNext, CreateBucket, UpdateBucket
<1>4. PointersApart'
  BY <1>3 DEF PointersApart
<1> QED
  BY <1>0, <1>2, <1>4

\* An insert takes the next id and leaves every other task as it is.
LEMMA InsertedTask ==
    ASSUME TypeOK, NEW p \in ProjectIds, NEW w \in TaskWrite, InsertTask(p, w)
    PROVE  /\ last.task + 1 \in TaskIds /\ last'.task = last.task + 1
           /\ tasks'[last.task + 1].project = p /\ p \in projects
           /\ \A t \in TaskIds : t # last.task + 1 => tasks'[t] = tasks[t]
BY DEF InsertTask, TypeOK

\* Every task request keeps it: a task comes with a new id into a project that
\* exists, and moves only to one that does.
LEMMA IssuedTask == IssuedInv /\ TaskNext => IssuedInv'
<1> SUFFICES ASSUME IssuedInv, TaskNext PROVE IssuedInv'
  OBVIOUS
<1> USE DEF IssuedInv
<1>0. TypeOK' /\ last.task \in Nat /\ TaskIds \subseteq Nat
  BY TypeTask, IdsAssumption DEF TypeOK
<1>1. PointersApart'
  BY DEF TaskNext, CreateTask, CreateTaskRejected, UpdateTask, DeleteTask, MoveTask, PointersApart
<1>2. projects' = projects
  BY DEF TaskNext, CreateTask, CreateTaskRejected, UpdateTask, DeleteTask, MoveTask
<1>3. ASSUME NEW p \in ProjectIds, NEW w \in TaskWrite, InsertTask(p, w) PROVE TaskIdsIssued'
  BY <1>0, <1>2, <1>3, InsertedTask DEF TaskIdsIssued
<1>4. ASSUME NEW t \in TaskIds, NEW p \in ProjectIds \cup {0}, NEW w \in TaskWrite, UpdateTask(t, p, w)
      PROVE  TaskIdsIssued'
  <2>1. /\ p \in projects \cup {0} /\ Live(t) /\ last' = last
        /\ tasks' = [tasks EXCEPT ![t] = UpdatedTask(tasks[t], p, w)]
    BY <1>4 DEF UpdateTask
  <2>2. UpdatedTask(tasks[t], p, w).project = IF p = 0 THEN tasks[t].project ELSE p
    BY DEF UpdatedTask, TypeOK, Task
  <2> QED
    BY <1>2, <2>1, <2>2 DEF TaskIdsIssued, Live, TypeOK
<1>5. ASSUME NEW t \in TaskIds, DeleteTask(t) PROVE TaskIdsIssued'
  BY <1>2, <1>5 DEF DeleteTask, TaskIdsIssued, TypeOK, Task
<1>6. ASSUME NEW v \in ViewIds, NEW b \in BucketIds, NEW t \in TaskIds, MoveTask(v, b, t)
      PROVE  TaskIdsIssued'
  <2>1. \A done, previous : DraggedTask(tasks[t], done, previous, b).project = tasks[t].project
    BY DEF DraggedTask, TypeOK, Task
  <2> QED
    BY <1>2, <1>6, <2>1 DEF MoveTask, TaskIdsIssued, TypeOK
<1> QED
  BY <1>0, <1>1, <1>3, <1>4, <1>5, <1>6 DEF TaskNext, CreateTask, CreateTaskRejected

\* No step hands out an id twice, or makes a view's pointers coincide.
LEMMA IssuedStep == IssuedInv /\ [Next]_vars => IssuedInv'
<1>1. IssuedInv /\ UNCHANGED vars => IssuedInv'
  BY DEF IssuedInv, TypeOK, TaskIdsIssued, PointersApart, vars
<1> QED
  BY <1>1, IssuedProject, IssuedBucket, IssuedTask DEF Next

\* Ids are handed out in order, and a view's two pointers never coincide.
THEOREM IdsAndPointers == Spec => []IssuedInv
BY IssuedInit, IssuedStep, PTL DEF Spec

-----------------------------------------------------------------------------
(* The done state of a task.                                               *)

\* A request changes the done state of a task through apply_update or through
\* _apply_done_transition, or deletes the task's row.
LEMMA TaskChanges ==
    ASSUME IssuedInv, [Next]_vars, NEW t \in TaskIds, tasks[t].project # 0
    PROVE  \/ tasks'[t] = NoTask
           \/ tasks'[t].done = tasks[t].done
           \/ \E p \in ProjectIds \cup {0}, w \in TaskWrite : tasks'[t] = UpdatedTask(tasks[t], p, w)
           \/ \E done, previous, b : tasks'[t] = DraggedTask(tasks[t], done, previous, b)
<1> USE DEF IssuedInv
<1>1. CASE UNCHANGED vars
  BY <1>1 DEF vars
<1>2. CASE ProjectNext
  BY <1>2 DEF ProjectNext, CreateProject, DeleteProject, CreateView, UpdateView, DeleteView
<1>3. CASE BucketNext
  BY <1>3 DEF BucketNext, CreateBucket, UpdateBucket, DeleteBucket
<1>4. ASSUME NEW p \in ProjectIds, NEW w \in TaskWrite, InsertTask(p, w)
      PROVE  tasks'[t] = tasks[t]
  <2>1. t <= last.task /\ last.task \in Nat /\ t \in Nat
    BY IdsAssumption DEF TaskIdsIssued, TypeOK
  <2> QED
    BY <1>4, <2>1, InsertedTask
<1>5. ASSUME NEW s \in TaskIds, NEW p \in ProjectIds \cup {0}, NEW w \in TaskWrite, UpdateTask(s, p, w)
      PROVE  tasks'[t] = tasks[t] \/ tasks'[t] = UpdatedTask(tasks[t], p, w)
  BY <1>5 DEF UpdateTask, TypeOK
<1>6. ASSUME NEW s \in TaskIds, DeleteTask(s)
      PROVE  tasks'[t].done = tasks[t].done
  BY <1>6 DEF DeleteTask, TypeOK, Task
<1>7. ASSUME NEW v \in ViewIds, NEW b \in BucketIds, NEW s \in TaskIds, MoveTask(v, b, s)
      PROVE  \/ tasks'[t] = tasks[t]
             \/ tasks'[t] = DraggedTask(tasks[t], views[v].done, CurrentBucket(t, v), b)
  BY <1>7 DEF MoveTask, TypeOK
<1> QED
  BY <1>1, <1>2, <1>3, <1>4, <1>5, <1>6, <1>7 DEF Next, TaskNext, CreateTask, CreateTaskRejected

\* A flip through an update stamps or clears done_at, and an update does not
\* complete a repeating task.
LEMMA UpdateWrites ==
    ASSUME NEW row \in Task, NEW p \in ProjectIds \cup {0}, NEW w \in TaskWrite
    PROVE  LET new == UpdatedTask(row, p, w)
           IN  /\ new.done # row.done => new.stamped = new.done
               /\ row.repeating /\ ~row.done => ~new.done
<1> DEFINE new == UpdatedTask(row, p, w)
<1>1. /\ row.done \in BOOLEAN /\ row.stamped \in BOOLEAN /\ row.repeating \in BOOLEAN
      /\ w.done \in BOOLEAN /\ w.stamped \in BOOLEAN
  BY BodyType DEF Task
<1>2. /\ new.done = (w.done /\ (row.done \/ ~row.repeating))
      /\ new.stamped = IF w.done # row.done THEN w.done ELSE w.stamped \/ row.stamped
  BY DEF UpdatedTask, Task
<1> QED
  BY <1>1, <1>2

\* So does a flip through a drag, which completes no repeating task either.
LEMMA DragWrites ==
    ASSUME NEW row \in Task, NEW done, NEW previous, NEW b
    PROVE  LET new == DraggedTask(row, done, previous, b)
           IN  /\ new.done # row.done => new.stamped = new.done
               /\ row.repeating /\ ~row.done => ~new.done
<1> DEFINE new == DraggedTask(row, done, previous, b)
<1>1. row.done \in BOOLEAN /\ row.stamped \in BOOLEAN /\ row.repeating \in BOOLEAN
  BY DEF Task
<1>2. \/ new = row
      \/ new.done = FALSE /\ new.stamped = FALSE
      \/ new.done = ~row.repeating /\ new.stamped = ~row.repeating
  BY DEF DraggedTask, Task
<1> QED
  BY <1>1, <1>2

\* What a request may do to the done state of a task's row.
LEMMA DoneWrites ==
    ASSUME IssuedInv, [Next]_vars, NEW t \in TaskIds, tasks[t].project # 0
    PROVE  /\ tasks'[t].project # 0 /\ tasks'[t].done # tasks[t].done
              => tasks'[t].stamped = tasks'[t].done
           /\ tasks[t].repeating /\ ~tasks[t].done => ~tasks'[t].done
<1>1. tasks[t] \in Task
  BY DEF IssuedInv, TypeOK
<1>2. CASE tasks'[t] = NoTask
  BY <1>2 DEF NoTask
<1>3. CASE tasks'[t].done = tasks[t].done
  BY <1>3
<1>4. ASSUME NEW p \in ProjectIds \cup {0}, NEW w \in TaskWrite,
             tasks'[t] = UpdatedTask(tasks[t], p, w)
      PROVE  /\ tasks'[t].done # tasks[t].done => tasks'[t].stamped = tasks'[t].done
             /\ tasks[t].repeating /\ ~tasks[t].done => ~tasks'[t].done
  BY <1>1, <1>4, UpdateWrites
<1>5. ASSUME NEW done, NEW previous, NEW b, tasks'[t] = DraggedTask(tasks[t], done, previous, b)
      PROVE  /\ tasks'[t].done # tasks[t].done => tasks'[t].stamped = tasks'[t].done
             /\ tasks[t].repeating /\ ~tasks[t].done => ~tasks'[t].done
  BY <1>1, <1>5, DragWrites
<1> QED
  BY <1>2, <1>3, <1>4, <1>5, TaskChanges

\* bucket_service and task_service promise it on both paths: a task that becomes
\* done gets its done_at, and a task that is reopened loses it.
THEOREM DoneAtFollowsDone == Spec => DoneFlipStamps
<1>1. ASSUME IssuedInv, [Next]_vars
      PROVE  \A t \in TaskIds :
               tasks[t].project # 0 /\ tasks[t]'.project # 0 /\ tasks[t]'.done # tasks[t].done
               => tasks[t]'.stamped = tasks[t]'.done
  BY <1>1, DoneWrites
<1> QED
  BY <1>1, IdsAndPointers, PTL DEF Spec, DoneFlipStamps

\* Completing an open task that is stored as repeating reschedules it, whether by an
\* update or by a drag into the done bucket: the series goes on.
THEOREM SeriesGoesOn == Spec => RepeatingNeverCompletes
<1>1. ASSUME IssuedInv, [Next]_vars
      PROVE  \A t \in TaskIds :
               tasks[t].project # 0 /\ tasks[t].repeating /\ ~tasks[t].done => ~tasks[t]'.done
  BY <1>1, DoneWrites
<1> QED
  BY <1>1, IdsAndPointers, PTL DEF Spec, RepeatingNeverCompletes

-----------------------------------------------------------------------------
(* The done state of a task and its place on a board.                      *)

\* Projects and views are numbered in order too: a new view's id is fresh.
LEMMA OtherIds == TypeOK /\ OtherIdsIssued /\ [Next]_vars => OtherIdsIssued'
<1> SUFFICES ASSUME TypeOK, OtherIdsIssued, [Next]_vars PROVE OtherIdsIssued'
  OBVIOUS
<1>0. /\ last.project \in Nat /\ last.view \in Nat
      /\ projects \subseteq Nat /\ ViewIds \subseteq Nat
  BY IdsAssumption DEF TypeOK
<1>1. CASE projects' \subseteq projects /\ last'.project = last.project /\ last'.view = last.view
           /\ \A v \in ViewIds : views'[v].project # 0 => views[v].project # 0
  BY <1>1 DEF OtherIdsIssued
<1>2. CASE CreateProject
  <2>1. /\ last'.project = last.project + 1 /\ last'.view = last.view + 2
        /\ projects' = projects \cup {last.project + 1}
    BY <1>2 DEF CreateProject, TypeOK
  <2>2. \A v \in ViewIds : v \notin {last.view + 1, last.view + 2} => views'[v] = views[v]
    BY <1>2 DEF CreateProject, TypeOK
  <2> QED
    BY <1>0, <2>1, <2>2 DEF OtherIdsIssued
<1>3. ASSUME NEW p \in ProjectIds, NEW board \in BoardKinds, CreateView(p, board)
      PROVE  OtherIdsIssued'
  <2>1. /\ last'.project = last.project /\ last'.view = last.view + 1
        /\ projects' = projects
    BY <1>3 DEF CreateView, TypeOK
  <2>2. \A v \in ViewIds : v # last.view + 1 => views'[v] = views[v]
    BY <1>3 DEF CreateView, TypeOK
  <2> QED
    BY <1>0, <2>1, <2>2 DEF OtherIdsIssued
<1>4. CASE \E S \in SUBSET ProjectIds : DeleteProject(S)
  BY <1>1, <1>4 DEF DeleteProject, NoView, TypeOK
<1>5. CASE \E v \in ViewIds, board \in BoardKinds : UpdateView(v, board)
  BY <1>1, <1>5 DEF UpdateView, ViewExists, NoView, TypeOK
<1>6. CASE \E v \in ViewIds : DeleteView(v)
  BY <1>1, <1>6 DEF DeleteView, NoView, TypeOK
<1>7. CASE BucketNext
  <2>1. /\ projects' = projects /\ last'.project = last.project /\ last'.view = last.view
    BY <1>7 DEF BucketNext, CreateBucket, UpdateBucket, DeleteBucket, TypeOK
  <2>2. views' = views \/ \E v \in ViewIds, b \in BucketIds :
                              views' = [views EXCEPT ![v] = Unlinked(views[v], b)]
    BY <1>7 DEF BucketNext, CreateBucket, UpdateBucket, DeleteBucket
  <2>3. \A view \in View, b \in BucketIds : Unlinked(view, b).project = view.project
    BY DEF Unlinked, View
  <2>4. \A v \in ViewIds : views'[v].project = views[v].project
    BY <2>2, <2>3 DEF TypeOK
  <2> QED
    BY <1>1, <2>1, <2>4
<1>8. CASE TaskNext
  <2>1. projects' = projects /\ views' = views
    BY <1>8 DEF TaskNext, CreateTask, CreateTaskRejected, InsertTask, UpdateTask, DeleteTask, MoveTask
  <2>2. \A t : [last EXCEPT !.task = t].project = last.project
               /\ [last EXCEPT !.task = t].view = last.view
    BY DEF TypeOK
  <2>3. last'.project = last.project /\ last'.view = last.view
    BY <1>8, <2>2 DEF TaskNext, CreateTask, CreateTaskRejected, InsertTask, UpdateTask, DeleteTask,
                      MoveTask
  <2> QED
    BY <1>1, <2>1, <2>3
<1>9. CASE UNCHANGED vars
  BY <1>1, <1>9 DEF vars
<1> QED
  BY <1>2, <1>3, <1>4, <1>5, <1>6, <1>7, <1>8, <1>9 DEF Next, ProjectNext

\* What DragMirrorsDone says of one task on one board, as a relation between
\* the row's buckets, the board's done bucket, and the task before and after.
Mirrored(from, to, done, wasDone, isDone) ==
    /\ to = done => isDone
    /\ from = done => ~isDone
    /\ wasDone /\ ~isDone => from = done

\* An update that flips a task moves its row into the done bucket of a board
\* when it completes, and out of it when it reopens.
LEMMA UpdateMirrors ==
    ASSUME IssuedInv, NEW t \in TaskIds, NEW v \in ViewIds,
           NEW p \in ProjectIds \cup {0}, NEW w \in TaskWrite, UpdateTask(t, p, w),
           tasks'[t].project = tasks[t].project,
           bucketOf[t][v] # NoRow, bucketOf'[t][v] # bucketOf[t][v]
    PROVE  Mirrored(bucketOf[t][v], bucketOf'[t][v], views[v].done, tasks[t].done, tasks'[t].done)
<1> DEFINE row == UpdatedTask(tasks[t], p, w)
           flipped == FlippedBoards(t, row.done)
<1>1. tasks'[t] = row
  BY DEF UpdateTask, IssuedInv, TypeOK
<1>2. PICK f \in Landings(flipped, row.done) : bucketOf' = [bucketOf EXCEPT ![t] = WithBuckets(@, f)]
  BY <1>1 DEF UpdateTask
<1>3. v \in flipped /\ bucketOf'[t][v] = f[v] /\ f[v] \in Landing(v, row.done)
  <2>1. DOMAIN f = flipped /\ \A u \in flipped : f[u] \in Landing(u, row.done)
    BY DEF Landings
  <2>2. bucketOf'[t] = WithBuckets(bucketOf[t], f)
    BY <1>2 DEF IssuedInv, TypeOK
  <2> QED
    BY <2>1, <2>2 DEF WithBuckets
<1>4. row.done = TRUE \/ row.done = FALSE
  BY DEF UpdatedTask, Task, IssuedInv, TypeOK
<1>5. CASE row.done = TRUE
  <2>1. f[v] = views[v].done
    BY <1>3, <1>5 DEF FlippedBoards, Landing
  <2> QED
    BY <1>1, <1>3, <1>5, <2>1 DEF Mirrored
<1>6. CASE row.done = FALSE
  <2>1. bucketOf[t][v] = views[v].done
    BY <1>3, <1>6 DEF FlippedBoards, CurrentBucket
  <2> QED
    BY <1>1, <1>3, <1>6, <2>1 DEF Mirrored
<1> QED
  BY <1>4, <1>5, <1>6

\* So does a drag; a repeating task that is dragged into the done bucket lands
\* in another one, as the two pointers are apart.
LEMMA DragMirrors ==
    ASSUME IssuedInv, NEW t \in TaskIds, NEW v \in ViewIds, NEW b \in BucketIds, MoveTask(v, b, t),
           bucketOf[t][v] # NoRow, bucketOf'[t][v] # bucketOf[t][v], views[v].done # 0
    PROVE  Mirrored(bucketOf[t][v], bucketOf'[t][v], views[v].done, tasks[t].done, tasks'[t].done)
<1> DEFINE row == tasks[t]
           done == views[v].done
           previous == bucketOf[t][v]
<1>1. row.done \in BOOLEAN /\ row.repeating \in BOOLEAN
  BY DEF IssuedInv, TypeOK, Task
<1>2. /\ CurrentBucket(t, v) = previous /\ b # previous
      /\ tasks'[t] = DraggedTask(row, done, previous, b)
      /\ bucketOf'[t][v] = DragLanding(row, views[v], previous, b)
  BY DEF MoveTask, CurrentBucket, IssuedInv, TypeOK
<1>3. CASE Completing(row, done, b)
  <2>1. ~row.done /\ b = done /\ tasks'[t].done = ~row.repeating
    BY <1>2, <1>3 DEF Completing, DraggedTask, IssuedInv, TypeOK, Task
  <2>2. bucketOf'[t][v] # done \/ ~row.repeating
    BY <1>2, <1>3 DEF DragLanding, IssuedInv, PointersApart
  <2> QED
    BY <1>1, <1>2, <2>1, <2>2 DEF Mirrored
<1>4. CASE ~Completing(row, done, b)
  <2>1. bucketOf'[t][v] = b
    BY <1>2, <1>4 DEF DragLanding
  <2>2. CASE Reopening(row, done, previous, b)
    <3>1. previous = done /\ b # done /\ tasks'[t].done = FALSE
      BY <1>2, <1>4, <2>2 DEF Reopening, DraggedTask, IssuedInv, TypeOK, Task
    <3> QED
      BY <2>1, <3>1 DEF Mirrored
  <2>3. CASE ~Reopening(row, done, previous, b)
    <3>1. tasks'[t] = row
      BY <1>2, <1>4, <2>3 DEF DraggedTask
    <3> QED
      BY <1>1, <1>2, <1>4, <2>1, <2>3, <3>1 DEF Mirrored, Completing, Reopening
  <2> QED
    BY <2>2, <2>3
<1> QED
  BY <1>3, <1>4

\* No other request moves a row of a task without changing a bucket, a view or
\* the task's project.
LEMMA RowMoves ==
    ASSUME IssuedInv, OtherIdsIssued, [Next]_vars, NEW t \in TaskIds, NEW v \in ViewIds,
           buckets' = buckets, views' = views, tasks'[t].project = tasks[t].project,
           bucketOf'[t][v] # bucketOf[t][v]
    PROVE  \/ \E p \in ProjectIds \cup {0}, w \in TaskWrite : UpdateTask(t, p, w)
           \/ \E b \in BucketIds : MoveTask(v, b, t)
<1> USE DEF IssuedInv
<1>1. ASSUME NEW p \in ProjectIds, NEW board \in BoardKinds, CreateView(p, board) PROVE FALSE
  <2>1. /\ last.view + 1 \in ViewIds /\ views'[last.view + 1].project = p /\ p # 0
    BY <1>1, IdsAssumption DEF CreateView, NewBoard, NewList, NoView, TypeOK
  <2>2. views[last.view + 1].project = 0
    <3>1. last.view \in Nat
      BY DEF TypeOK
    <3> QED
      BY <2>1, <3>1 DEF OtherIdsIssued
  <2> QED
    BY <2>1, <2>2
<1>2. ASSUME NEW u \in ViewIds, DeleteView(u) PROVE FALSE
  BY <1>2 DEF DeleteView, ViewExists, NoView, TypeOK
<1>3. ASSUME NEW u \in ViewIds, NEW b \in BucketIds, DeleteBucket(u, b) PROVE FALSE
  <2>1. buckets[b].view # 0 /\ buckets' = [buckets EXCEPT ![b] = NoBucket]
    BY <1>3 DEF DeleteBucket
  <2>2. buckets'[b] = NoBucket /\ NoBucket.view = 0
    BY <2>1 DEF TypeOK, NoBucket
  <2> QED
    BY <2>1, <2>2
<1>4. ASSUME NEW p \in ProjectIds, NEW w \in TaskWrite, CreateTask(p, w) PROVE FALSE
  <2>1. InsertTask(p, w) /\ t = last.task + 1
    BY <1>4 DEF CreateTask, TypeOK
  <2>2. tasks'[t].project = p /\ p # 0
    BY <2>1, IdsAssumption DEF InsertTask, TypeOK
  <2>3. last.task \in Nat
    BY DEF TypeOK
  <2> QED
    BY <2>1, <2>2, <2>3 DEF TaskIdsIssued
<1>5. ASSUME NEW s \in TaskIds, NEW p \in ProjectIds \cup {0}, NEW w \in TaskWrite, UpdateTask(s, p, w)
      PROVE  s = t
  BY <1>5 DEF UpdateTask, TypeOK
<1>6. ASSUME NEW u \in ViewIds, NEW b \in BucketIds, NEW s \in TaskIds, MoveTask(u, b, s)
      PROVE  s = t /\ u = v
  BY <1>6 DEF MoveTask, TypeOK
<1>7. CASE UNCHANGED bucketOf
  BY <1>7
<1> QED
  BY <1>1, <1>2, <1>3, <1>4, <1>5, <1>6, <1>7
  DEF Next, ProjectNext, CreateProject, DeleteProject, UpdateView, BucketNext, CreateBucket,
      UpdateBucket, TaskNext, CreateTaskRejected, DeleteTask, vars

\* The board and the task tell one story through both paths, as bucket_service
\* and task_placement say of each other.
THEOREM BoardMirrorsTask == Spec => DragMirrorsDone
<1>1. ASSUME IssuedInv, OtherIdsIssued, [Next]_vars
      PROVE  \A t \in TaskIds, v \in ViewIds :
               /\ buckets' = buckets /\ views' = views /\ tasks[t]'.project = tasks[t].project
               /\ bucketOf[t][v] # NoRow /\ bucketOf[t]'[v] # bucketOf[t][v]
               /\ views[v].done # 0
               => /\ bucketOf[t]'[v] = views[v].done => tasks[t]'.done
                  /\ bucketOf[t][v] = views[v].done => ~tasks[t]'.done
                  /\ tasks[t].done /\ ~tasks[t]'.done => bucketOf[t][v] = views[v].done
  <2> TAKE t \in TaskIds, v \in ViewIds
  <2> HAVE /\ buckets' = buckets /\ views' = views /\ tasks[t]'.project = tasks[t].project
           /\ bucketOf[t][v] # NoRow /\ bucketOf[t]'[v] # bucketOf[t][v]
           /\ views[v].done # 0
  <2>1. Mirrored(bucketOf[t][v], bucketOf'[t][v], views[v].done, tasks[t].done, tasks'[t].done)
    BY <1>1, RowMoves, UpdateMirrors, DragMirrors
  <2> QED
    BY <2>1 DEF Mirrored
<1>2. Init => OtherIdsIssued
  BY DEF Init, OtherIdsIssued, NoView
<1>3. IssuedInv => TypeOK
  BY DEF IssuedInv
<1> QED
  BY <1>1, <1>2, <1>3, OtherIds, IdsAndPointers, PTL DEF Spec, DragMirrorsDone

-----------------------------------------------------------------------------
(* No view misses a row.                                                   *)

\* A board that has one of its pointers has a bucket to place a task in, whether the
\* task is done or not: the pointer's own, if no other.
LEMMA LandingSomewhere ==
    ASSUME BoardInv, NEW v \in ViewIds, HasPointer(v),
           NEW done, NEW b \in Landing(v, done)
    PROVE  b \in BucketIds
<1>1. views[v].default \in BucketRef /\ views[v].done \in BucketRef
  BY DEF BoardInv, TypeOK, View, BucketRef
<1>2. BucketsOf(v) # {}
  BY DEF HasPointer
<1> QED
  BY <1>1, <1>2 DEF Landing, DefaultBucketId, LowestBuckets, BucketsOf, BucketRef

\* A request creates buckets past last.bucket only, and gives none another view.
LEMMA BucketsComeNew ==
    ASSUME TypeOK, ProjectNext \/ BucketNext, NEW b \in BucketIds
    PROVE  buckets'[b].view \in {0, buckets[b].view} \/ last.bucket < b
<1> DEFINE first == last.bucket + 1
<1>1. first \in Nat /\ last.bucket \in Nat /\ b \in Nat
  BY IdsAssumption DEF TypeOK
<1>2. ASSUME NEW v, buckets' = WithDefaultBuckets(v, first)
      PROVE  buckets'[b].view \in {0, buckets[b].view} \/ last.bucket < b
  BY <1>1, <1>2, DefaultBucketsRows
<1>3. ASSUME buckets' = buckets
      PROVE  buckets'[b].view \in {0, buckets[b].view} \/ last.bucket < b
  BY <1>3
<1>4. CASE ProjectNext
  <2>1. CASE CreateProject
    BY <1>2, <2>1 DEF CreateProject
  <2>2. ASSUME NEW S \in SUBSET ProjectIds, DeleteProject(S)
        PROVE  buckets'[b].view \in {0, buckets[b].view}
    BY <2>2 DEF DeleteProject, NoBucket
  <2>3. ASSUME NEW p \in ProjectIds, NEW board \in BoardKinds, CreateView(p, board)
        PROVE  buckets'[b].view \in {0, buckets[b].view} \/ last.bucket < b
    BY <1>2, <1>3, <2>3 DEF CreateView
  <2>4. ASSUME NEW v \in ViewIds, (\E board \in BoardKinds : UpdateView(v, board)) \/ DeleteView(v)
        PROVE  buckets' = buckets
    BY <2>4 DEF UpdateView, DeleteView
  <2> QED
    BY <1>3, <1>4, <2>1, <2>2, <2>3, <2>4 DEF ProjectNext
<1>5. CASE BucketNext
  <2>1. ASSUME NEW v \in ViewIds, NEW limit \in Limits, NEW position \in Positions,
               CreateBucket(v, limit, position)
        PROVE  buckets'[b].view \in {0, buckets[b].view} \/ last.bucket < b
    BY <1>1, <2>1 DEF CreateBucket, TypeOK
  <2>2. ASSUME NEW c \in BucketIds, NEW limit \in Limits, NEW position \in Positions,
               UpdateBucket(c, limit, position)
        PROVE  buckets'[b].view = buckets[b].view
    BY <2>2 DEF UpdateBucket, TypeOK, Bucket
  <2>3. ASSUME NEW v \in ViewIds, NEW c \in BucketIds, DeleteBucket(v, c)
        PROVE  buckets'[b].view \in {0, buckets[b].view}
    BY <2>3 DEF DeleteBucket, TypeOK, NoBucket
  <2> QED
    BY <1>5, <2>1, <2>2, <2>3 DEF BucketNext
<1> QED
  BY <1>4, <1>5

\* A view whose pointers were cleared, or whose buckets went, gets none back: no new
\* bucket has an id that a pointer still names.
LEMMA NoPointerComesBack ==
    ASSUME BoardInv, NEW v \in ViewIds, views'[v].default \in {0, views[v].default},
           views'[v].done \in {0, views[v].done},
           \A b \in BucketIds : buckets'[b].view \in {0, buckets[b].view} \/ last.bucket < b,
           HasPointer(v)'
    PROVE  HasPointer(v)
<1>1. last.bucket \in Nat /\ BucketIds \subseteq Nat \ {0} /\ v # 0
  BY IdsAssumption DEF BoardInv, TypeOK
<1>2. PICK b \in BucketIds : b \in {views'[v].default, views'[v].done} /\ buckets'[b].view = v
  BY DEF HasPointer, BucketsOf
<1>3. b \in {views[v].default, views[v].done}
  BY <1>1, <1>2
<1>4. b <= last.bucket
  BY <1>3 DEF BoardInv, BucketIdsIssued
<1>5. buckets[b].view = v
  BY <1>1, <1>2, <1>4
<1> QED
  BY <1>3, <1>5 DEF HasPointer, BucketsOf

\* Where tasks keep their state and views their projects, what is complete stays so if
\* no row goes.
LEMMA RowsAdded ==
    ASSUME RowsComplete, positioned \subseteq positioned',
           \A t \in TaskIds : Live(t)' => Live(t) /\ tasks'[t].project = tasks[t].project,
           UNCHANGED <<views, buckets>>,
           \A v \in ViewIds, t \in TaskIds :
              /\ views[v].board /\ HasPointer(v)
              /\ Live(t) /\ tasks[t].project = views[v].project /\ bucketOf[t][v] \in BucketIds
              => bucketOf'[t][v] \in BucketIds
    PROVE  RowsComplete'
BY DEF RowsComplete, BoardComplete, PositionsComplete, HasPointer, BucketsOf

\* A project that is new has no tasks.
LEMMA CreateProjectKeepsRows ==
    ASSUME BoardInv, IssuedInv, OtherIdsIssued, RowsComplete, CreateProject
    PROVE  RowsComplete'
<1> DEFINE p == last.project + 1
<1>1. /\ UNCHANGED <<tasks, bucketOf, positioned>>
      /\ \A v \in ViewIds : views'[v] = views[v] \/ views'[v].project = p
  BY DEF CreateProject, NewList, NoView, NewBoard, IssuedInv, TypeOK
<1>2. p \notin projects
  <2>1. last.project \in Nat
    BY DEF IssuedInv, TypeOK
  <2> QED
    BY <2>1 DEF OtherIdsIssued
<1>3. \A t \in TaskIds : tasks[t].project # 0 => tasks[t].project # p
  BY <1>2 DEF IssuedInv, TaskIdsIssued
<1>4. ASSUME NEW v \in ViewIds, views'[v] = views[v], HasPointer(v)' PROVE HasPointer(v)
  BY <1>4, BucketsComeNew, NoPointerComesBack DEF ProjectNext, IssuedInv
<1> HIDE DEF p
<1> QED
  BY <1>1, <1>3, <1>4 DEF RowsComplete, BoardComplete, PositionsComplete, Live

LEMMA DeleteProjectKeepsRows ==
    ASSUME BoardInv, RowsComplete, NEW S \in SUBSET ProjectIds, DeleteProject(S)
    PROVE  RowsComplete'
<1>1. /\ UNCHANGED <<bucketOf, positioned>>
      /\ \A t \in TaskIds : tasks'[t] = tasks[t] \/ tasks'[t].project = 0
      /\ \A v \in ViewIds : views'[v] = views[v] \/ views'[v].project = 0
  BY DEF DeleteProject, NoTask, NoView
<1>2. ASSUME NEW v \in ViewIds, views'[v] = views[v], HasPointer(v)' PROVE HasPointer(v)
  BY <1>2, BucketsComeNew, NoPointerComesBack DEF ProjectNext, BoardInv
<1> QED
  BY <1>1, <1>2 DEF RowsComplete, BoardComplete, PositionsComplete, Live

\* A new view places every task of its project.
LEMMA CreateViewKeepsRows ==
    ASSUME BoardInv, RowsComplete, NEW p \in ProjectIds, NEW board \in BoardKinds, CreateView(p, board)
    PROVE  RowsComplete'
<1> DEFINE v == last.view + 1
           first == last.bucket + 1
<1>1. /\ v \in ViewIds /\ UNCHANGED tasks
      /\ positioned' = positioned \cup (TasksOf(p) \X {v})
      /\ \A u \in ViewIds \ {v} : views'[u] = views[u]
      /\ views'[v].project = p /\ (views'[v].board => board)
      /\ \A t \in TaskIds : \A u \in ViewIds \ {v} : bucketOf'[t][u] = bucketOf[t][u]
  BY InputAssumption DEF CreateView, NewBoard, NewList, NoView, BoardInv, TypeOK
<1>2. ASSUME board, NEW t \in TasksOf(p) PROVE bucketOf'[t][v] \in BucketIds
  <2>1. first \in BucketIds
    <3>1. first \in Nat /\ first \in first..(first + 2)
      BY DEF BoardInv, TypeOK
    <3> QED
      BY <1>2, <3>1 DEF CreateView
  <2> QED
    BY <1>1, <1>2, <2>1 DEF CreateView, BoardInv, TypeOK, TasksOf
<1>5. ASSUME NEW u \in ViewIds, views'[u] = views[u], HasPointer(u)' PROVE HasPointer(u)
  BY <1>5, BucketsComeNew, NoPointerComesBack DEF ProjectNext, BoardInv
<1> HIDE DEF v, first
<1>3. PositionsComplete'
  BY <1>1 DEF RowsComplete, PositionsComplete, Live, TasksOf
<1>4. BoardComplete'
  <2> SUFFICES ASSUME NEW u \in ViewIds, NEW t \in TaskIds, views'[u].board,
                      HasPointer(u)',
                      Live(t)', tasks'[t].project = views'[u].project
               PROVE  bucketOf'[t][u] \in BucketIds
    BY DEF BoardComplete
  <2>1. CASE u = v
    BY <1>1, <1>2, <2>1 DEF TasksOf
  <2>2. CASE u # v
    BY <1>1, <1>5, <2>2 DEF RowsComplete, BoardComplete, Live
  <2> QED
    BY <2>1, <2>2
<1> QED
  BY <1>3, <1>4 DEF RowsComplete

LEMMA ViewsKeepRows ==
    ASSUME BoardInv, RowsComplete, NEW v \in ViewIds,
           (\E board \in BoardKinds : UpdateView(v, board)) \/ DeleteView(v)
    PROVE  RowsComplete'
<1>0. ASSUME NEW u \in ViewIds, views'[u] = views[u], HasPointer(u)' PROVE HasPointer(u)
  BY <1>0, BucketsComeNew, NoPointerComesBack DEF ProjectNext, BoardInv
<1>1. CASE \E board \in BoardKinds : UpdateView(v, board)
  <2>1. /\ UNCHANGED <<tasks, bucketOf, positioned>>
        /\ \A u \in ViewIds \ {v} : views'[u] = views[u]
        /\ views'[v].project = views[v].project /\ views'[v].default = 0 /\ views'[v].done = 0
    BY <1>1 DEF UpdateView, NoView, BoardInv, TypeOK
  <2>2. ~HasPointer(v)'
    BY <2>1, IdsAssumption DEF HasPointer, BucketsOf
  <2> QED
    BY <1>0, <2>1, <2>2 DEF RowsComplete, BoardComplete, PositionsComplete, Live
<1>2. CASE DeleteView(v)
  <2>1. /\ UNCHANGED tasks /\ positioned' = positioned \ (TaskIds \X {v})
        /\ \A u \in ViewIds \ {v} : views'[u] = views[u]
        /\ views'[v].project = 0
        /\ \A t \in TaskIds : \A u \in ViewIds \ {v} : bucketOf'[t][u] = bucketOf[t][u]
    BY <1>2 DEF DeleteView, NoView, BoardInv, TypeOK
  <2>2. PositionsComplete'
    BY <2>1 DEF RowsComplete, PositionsComplete, Live
  <2>3. BoardComplete'
    <3> SUFFICES ASSUME NEW u \in ViewIds, NEW t \in TaskIds, views'[u].board,
                        HasPointer(u)',
                        Live(t)', tasks'[t].project = views'[u].project
                 PROVE  bucketOf'[t][u] \in BucketIds
      BY DEF BoardComplete
    <3>1. u # v
      BY <2>1 DEF Live
    <3> QED
      BY <1>0, <2>1, <3>1 DEF RowsComplete, BoardComplete, Live
  <2> QED
    BY <2>2, <2>3 DEF RowsComplete
<1> QED
  BY <1>1, <1>2

\* A deleted bucket's tasks go to a bucket: the one on its way out was not the last of
\* the view on the path.
LEMMA DeleteBucketKeepsRows ==
    ASSUME BoardInv, RowsComplete, NEW v \in ViewIds, NEW b \in BucketIds, DeleteBucket(v, b)
    PROVE  RowsComplete'
<1> DEFINE unlinked == Unlinked(views[v], b)
<1>1. /\ unlinked.default \in {0, views[v].default} /\ unlinked.done \in {0, views[v].done}
      /\ unlinked.project = views[v].project /\ unlinked.board = views[v].board
      /\ unlinked.default \in BucketRef
  BY DEF Unlinked, BoardInv, TypeOK, View, BucketRef
<1>2. BucketsOf(v) # {} /\ views' = [views EXCEPT ![v] = unlinked] /\ UNCHANGED <<tasks, positioned>>
  BY DEF DeleteBucket
<1>3. PICK target \in DefaultBucketId(v, unlinked.default) :
        bucketOf' = [t \in TaskIds |-> Rehomed(bucketOf[t], b, target)]
  BY DEF DeleteBucket
<1> HIDE DEF unlinked
<1>4. target \in BucketIds
  BY <1>1, <1>2 DEF DefaultBucketId, LowestBuckets, BucketsOf, BucketRef
<1>5. \A t \in TaskIds, u \in ViewIds :
         bucketOf[t][u] \in BucketIds => bucketOf'[t][u] \in BucketIds
  BY <1>3, <1>4 DEF Rehomed
<1>6. \A u \in ViewIds : /\ views'[u].project = views[u].project /\ views'[u].board = views[u].board
                         /\ views'[u].default \in {0, views[u].default}
                         /\ views'[u].done \in {0, views[u].done}
  BY <1>1, <1>2 DEF BoardInv, TypeOK
<1>7. \A u \in ViewIds : HasPointer(u)' => HasPointer(u)
  BY <1>6, BucketsComeNew, NoPointerComesBack DEF BucketNext, BoardInv
<1> QED
  BY <1>2, <1>5, <1>6, <1>7 DEF RowsComplete, BoardComplete, PositionsComplete, Live

\* Every project, view and bucket request keeps the rows complete.
LEMMA RowsProjectBucket ==
    ASSUME BoardInv, IssuedInv, OtherIdsIssued, RowsComplete, ProjectNext \/ BucketNext
    PROVE  RowsComplete'
<1>1. ASSUME UNCHANGED <<views, tasks, bucketOf, positioned>> PROVE RowsComplete'
  <2>1. \A v \in ViewIds : HasPointer(v)' => HasPointer(v)
    BY <1>1, BucketsComeNew, NoPointerComesBack DEF BoardInv
  <2> QED
    BY <1>1, <2>1 DEF RowsComplete, BoardComplete, PositionsComplete, Live
<1> QED
  BY <1>1, CreateProjectKeepsRows, DeleteProjectKeepsRows, CreateViewKeepsRows, ViewsKeepRows,
     DeleteBucketKeepsRows DEF ProjectNext, BucketNext, CreateBucket, UpdateBucket

\* A task that is placed afresh has a row wherever the pointers say.
LEMMA PlacedSomewhere ==
    ASSUME BoardInv, NEW B \in SUBSET ViewIds, NEW done, NEW f \in Landings(B, done),
           NEW v \in B, HasPointer(v), NEW row
    PROVE  WithBuckets(row, f)[v] \in BucketIds
<1>1. DOMAIN f = B /\ f[v] \in Landing(v, done)
  BY DEF Landings
<1>2. f[v] \in BucketIds
  BY <1>1, LandingSomewhere
<1>3. f[v] # 0
  BY <1>2, IdsAssumption
<1> QED
  BY <1>1, <1>2, <1>3 DEF WithBuckets

\* ... and one that is placed again keeps the row that it has.
LEMMA PlacedAgain ==
    ASSUME TypeOK, NEW B \in SUBSET ViewIds, NEW done \in BOOLEAN, NEW f \in Landings(B, done),
           NEW v \in ViewIds, NEW row, row[v] \in BucketIds
    PROVE  WithBuckets(row, f)[v] \in BucketIds
<1>1. DOMAIN f = B /\ \A u \in B : f[u] \in Landing(u, done)
  BY DEF Landings
<1>2. v \in B => f[v] \in BucketRef
  BY <1>1, LandingType
<1> QED
  BY <1>1, <1>2 DEF WithBuckets, BucketRef

\* Task t, in project p from now on, is placed there; every other stays as it is.
LEMMA PlacedTaskKeepsRows ==
    ASSUME BoardInv, RowsComplete, NEW t \in TaskIds, NEW p, NEW done, NEW f \in Landings(BoardsOf(p), done),
           NEW row, bucketOf' = [bucketOf EXCEPT ![t] = WithBuckets(row, f)],
           \A s \in TaskIds \ {t} : tasks'[s] = tasks[s],
           tasks'[t].project = p, views' = views, buckets' = buckets,
           \A s \in TaskIds \ {t}, v \in ViewIds : <<s, v>> \in positioned => <<s, v>> \in positioned',
           {t} \X ViewsOf(p) \subseteq positioned'
    PROVE  RowsComplete'
<1>1. \A s \in TaskIds \ {t} : bucketOf'[s] = bucketOf[s]
  OBVIOUS
<1>2. bucketOf'[t] = WithBuckets(row, f)
  BY DEF BoardInv, TypeOK
<1>3. PositionsComplete'
  BY DEF RowsComplete, PositionsComplete, Live, ViewsOf
<1>4. BoardComplete'
  <2> SUFFICES ASSUME NEW v \in ViewIds, NEW s \in TaskIds, views[v].board, HasPointer(v),
                      Live(s)', tasks'[s].project = views[v].project
               PROVE  bucketOf'[s][v] \in BucketIds
    BY DEF BoardComplete, HasPointer, BucketsOf
  <2>1. CASE s # t
    BY <1>1, <2>1 DEF RowsComplete, BoardComplete, Live
  <2>2. CASE s = t
    <3>1. v \in BoardsOf(p) /\ BoardsOf(p) \in SUBSET ViewIds
      BY <2>2 DEF BoardsOf, ViewsOf
    <3>2. WithBuckets(row, f)[v] \in BucketIds
      BY <3>1, PlacedSomewhere
    <3> QED
      BY <1>2, <2>2, <3>2
  <2> QED
    BY <2>1, <2>2
<1> QED
  BY <1>3, <1>4 DEF RowsComplete

RowsInv == BoardInv /\ IssuedInv /\ OtherIdsIssued /\ RowsComplete

LEMMA CreateTaskKeepsRows ==
    ASSUME RowsInv, NEW p \in ProjectIds, NEW w \in TaskWrite, CreateTask(p, w)
    PROVE  RowsComplete'
<1> DEFINE t == last.task + 1
<1>1. /\ t \in TaskIds /\ tasks'[t].project = p
      /\ \A s \in TaskIds \ {t} : tasks'[s] = tasks[s]
  BY InsertedTask DEF CreateTask, RowsInv, IssuedInv
<1>2. PICK f \in Landings(BoardsOf(p), w.done) :
        bucketOf' = [bucketOf EXCEPT ![t] = WithBuckets(bucketOf[t], f)]
  BY DEF CreateTask
<1>3. views' = views /\ buckets' = buckets /\ positioned' = positioned \cup ({t} \X ViewsOf(p))
  BY DEF CreateTask
<1> HIDE DEF t
<1>4. /\ \A s \in TaskIds \ {t}, v \in ViewIds : <<s, v>> \in positioned => <<s, v>> \in positioned'
      /\ {t} \X ViewsOf(p) \subseteq positioned'
  BY <1>3
<1>5. BoardInv /\ RowsComplete
  BY DEF RowsInv
<1> QED
  BY <1>1, <1>2, <1>3, <1>4, <1>5, PlacedTaskKeepsRows

LEMMA UpdateTaskKeepsRows ==
    ASSUME RowsInv, NEW t \in TaskIds, NEW p \in ProjectIds \cup {0}, NEW w \in TaskWrite,
           UpdateTask(t, p, w)
    PROVE  RowsComplete'
<1> DEFINE row == UpdatedTask(tasks[t], p, w)
           flipped == FlippedBoards(t, row.done)
<1>1. /\ tasks'[t] = row /\ \A s \in TaskIds \ {t} : tasks'[s] = tasks[s]
      /\ Live(t) /\ views' = views /\ buckets' = buckets
      /\ row \in Task /\ row.deleted = tasks[t].deleted
  <2>1. row \in Task
    BY TaskRowType DEF RowsInv, BoardInv, TypeOK
  <2>2. row.deleted = tasks[t].deleted
    BY DEF UpdatedTask, RowsInv, BoardInv, TypeOK, Task
  <2> QED
    <3> HIDE DEF row
    <3>1. tasks' = [tasks EXCEPT ![t] = row] /\ Live(t) /\ views' = views /\ buckets' = buckets
      BY DEF UpdateTask, row
    <3>2. tasks \in [TaskIds -> Task]
      BY DEF RowsInv, BoardInv, TypeOK
    <3> QED
      BY <2>1, <2>2, <3>1, <3>2
<1>2. CASE row.project # tasks[t].project
  <2>1. PICK f \in Landings(BoardsOf(row.project), row.done) :
          bucketOf' = [bucketOf EXCEPT ![t] = WithBuckets(NoRows, f)]
    BY <1>2 DEF UpdateTask
  <2>2. positioned' = RelocatedPositions(t, row.project)
    BY <1>2 DEF UpdateTask
  <2> HIDE DEF row, flipped
  <2>3. /\ \A s \in TaskIds \ {t}, v \in ViewIds : <<s, v>> \in positioned => <<s, v>> \in positioned'
        /\ {t} \X ViewsOf(row.project) \subseteq positioned'
    BY <2>2 DEF RelocatedPositions
  <2>4. tasks'[t].project = row.project
    BY <1>1
  <2>5. BoardInv /\ RowsComplete
    BY DEF RowsInv
  <2> QED
    BY <1>1, <2>1, <2>3, <2>4, <2>5, PlacedTaskKeepsRows
<1>3. CASE row.project = tasks[t].project
  <2>1. \A v \in ViewIds : bucketOf[t][v] \in BucketIds => bucketOf'[t][v] \in BucketIds
    <3>1. CASE row.done = tasks[t].done
      BY <1>3, <3>1 DEF UpdateTask
    <3>2. CASE row.done # tasks[t].done
      <4>1. PICK f \in Landings(flipped, row.done) :
              bucketOf' = [bucketOf EXCEPT ![t] = WithBuckets(@, f)]
        BY <1>3, <3>2 DEF UpdateTask
      <4>2. bucketOf'[t] = WithBuckets(bucketOf[t], f)
        BY <4>1 DEF RowsInv, BoardInv, TypeOK
      <4>3. flipped \in SUBSET ViewIds
        BY DEF FlippedBoards, BoardsOf, ViewsOf
      <4>4. row.done \in BOOLEAN
        BY <1>1 DEF Task
      <4> HIDE DEF row, flipped
      <4> QED
        BY <4>1, <4>2, <4>3, <4>4, PlacedAgain DEF RowsInv, BoardInv
    <3> QED
      BY <3>1, <3>2
  <2>2. positioned \subseteq positioned' /\ \A s \in TaskIds \ {t} : bucketOf'[s] = bucketOf[s]
    <3>1. CASE row.done = tasks[t].done
      BY <1>3, <3>1 DEF UpdateTask
    <3>2. CASE row.done # tasks[t].done
      <4>1. positioned' = positioned \cup ({t} \X flipped)
        BY <1>3, <3>2 DEF UpdateTask
      <4>2. \E f : bucketOf' = [bucketOf EXCEPT ![t] = WithBuckets(@, f)]
        BY <1>3, <3>2 DEF UpdateTask
      <4> HIDE DEF row, flipped
      <4> QED
        BY <4>1, <4>2
    <3> QED
      BY <3>1, <3>2
  <2>3. \A s \in TaskIds : Live(s)' => Live(s) /\ tasks'[s].project = tasks[s].project
    BY <1>1, <1>3 DEF Live
  <2> HIDE DEF row, flipped
  <2> QED
    BY <1>1, <2>1, <2>2, <2>3, RowsAdded DEF RowsInv
<1> QED
  BY <1>2, <1>3

\* A drag leaves the row in a bucket: the one it goes to, the configured default one, or
\* the one that it came from.
LEMMA MoveTaskKeepsRows ==
    ASSUME RowsInv, NEW v \in ViewIds, NEW b \in BucketIds, NEW t \in TaskIds, MoveTask(v, b, t)
    PROVE  RowsComplete'
<1> DEFINE previous == CurrentBucket(t, v)
           row == DraggedTask(tasks[t], views[v].done, previous, b)
           landing == DragLanding(tasks[t], views[v], previous, b)
<1>1. row.project = tasks[t].project /\ row.deleted = tasks[t].deleted
  BY DEF DraggedTask, RowsInv, BoardInv, TypeOK, Task
<1>2. /\ tasks'[t] = row /\ \A s \in TaskIds \ {t} : tasks'[s] = tasks[s]
      /\ bucketOf'[t][v] = landing
      /\ \A u \in ViewIds \ {v} : bucketOf'[t][u] = bucketOf[t][u]
      /\ \A s \in TaskIds \ {t} : bucketOf'[s] = bucketOf[s]
      /\ views' = views /\ buckets' = buckets /\ positioned' = positioned
  BY DEF MoveTask, RowsInv, BoardInv, TypeOK
<1>3. bucketOf[t][v] \in BucketIds => landing \in BucketIds
  <2>1. NoRow \notin BucketIds
    BY IdsAssumption DEF NoRow
  <2>2. views[v].default \in BucketRef
    BY DEF RowsInv, BoardInv, TypeOK, View, BucketRef
  <2> QED
    BY <2>1, <2>2 DEF DragLanding, CurrentBucket, BucketRef
<1>4. \A s \in TaskIds : Live(s)' => Live(s) /\ tasks'[s].project = tasks[s].project
  BY <1>1, <1>2 DEF Live
<1> HIDE DEF row, landing
<1>5. \A u \in ViewIds, s \in TaskIds : bucketOf[s][u] \in BucketIds => bucketOf'[s][u] \in BucketIds
  BY <1>2, <1>3
<1> QED
  BY <1>2, <1>4, <1>5, RowsAdded DEF RowsInv

\* Every task request keeps the rows complete, where none is refused half-way.
LEMMA RowsTask ==
    ASSUME SavepointCommits = FALSE, RowsInv, TaskNext
    PROVE  RowsComplete'
<1>1. ASSUME NEW t \in TaskIds, DeleteTask(t) PROVE RowsComplete'
  <2>1. \A s \in TaskIds : Live(s)' => Live(s) /\ tasks'[s].project = tasks[s].project
    BY <1>1 DEF DeleteTask, Live, RowsInv, BoardInv, TypeOK, Task
  <2> QED
    BY <1>1, <2>1, RowsAdded DEF DeleteTask, RowsInv
<1> QED
  BY <1>1, CreateTaskKeepsRows, UpdateTaskKeepsRows, MoveTaskKeepsRows DEF TaskNext, CreateTaskRejected

\* However tasks come to a project and views to it, no view misses the rows that place a
\* task, where a refused creation is rolled back whole.
THEOREM NoViewMissesATask ==
    ASSUME SavepointCommits = FALSE
    PROVE  Spec => []RowsComplete
<1>1. Init => RowsInv
  <2> SUFFICES ASSUME Init PROVE RowsInv
    OBVIOUS
  <2>1. OtherIdsIssued
    BY DEF Init, OtherIdsIssued, NoView
  <2>2. RowsComplete
    BY DEF Init, RowsComplete, BoardComplete, PositionsComplete, Live, NoTask
  <2> QED
    BY <2>1, <2>2, BoardInvInit, IssuedInit DEF RowsInv
<1>2. RowsInv /\ [Next]_vars => RowsInv'
  <2> SUFFICES ASSUME RowsInv, [Next]_vars PROVE RowsInv'
    OBVIOUS
  <2>1. BoardInv' /\ IssuedInv' /\ OtherIdsIssued'
    BY BoardStep, IssuedStep, OtherIds DEF RowsInv, BoardInv
  <2>2. ASSUME UNCHANGED vars PROVE RowsComplete'
    BY <2>2 DEF vars, RowsInv, RowsComplete, BoardComplete, PositionsComplete, Live, HasPointer, BucketsOf
  <2>3. ASSUME ProjectNext \/ BucketNext PROVE RowsComplete'
    BY <2>3, RowsProjectBucket DEF RowsInv
  <2>4. ASSUME TaskNext PROVE RowsComplete'
    BY <2>4, RowsTask
  <2> QED
    BY <2>1, <2>2, <2>3, <2>4 DEF Next, RowsInv
<1>3. RowsInv => RowsComplete
  BY DEF RowsInv
<1> QED
  BY <1>1, <1>2, <1>3, PTL DEF Spec
=============================================================================
