--------------------------- MODULE OnTasksProofs ----------------------------
(***************************************************************************)
(* Proofs about what hangs on a task: its assignees and favourite mark     *)
(* (TaskAssociations), its labels (Labels) and its files (Attachments), for *)
(* any number of users, rows and overlapping requests.                     *)
(***************************************************************************)
EXTENDS TaskAssociations, Labels, Attachments, FiniteSetTheorems, WellFoundedInduction, TLAPS

-----------------------------------------------------------------------------
(* Assignees.                                                              *)

Used == {i \in RowIds : userOf[i] # NoUser}

\* The rows there are, and those a request has read, have a user; ids stay below a bound.
RowsInv ==
    /\ userOf \in [RowIds -> Users \cup {NoUser}]
    /\ present \subseteq Used
    /\ \A r \in Assigners : seen[r].rows \subseteq Used
    /\ \E n \in Nat : Used \subseteq 0..n

AskedInv ==
    /\ favorite \in BOOLEAN
    /\ asking \in [Assigners -> Asking \cup {NotAsking}]
    /\ seen \in [Assigners -> [rows : SUBSET RowIds, favorite : BOOLEAN]]

-----------------------------------------------------------------------------
(* Numbers.                                                                *)

\* A bounded set of naturals has a highest member.
LEMMA BoundedMax ==
    ASSUME NEW n \in Nat, NEW S \in SUBSET (0..n), S # {}
    PROVE  Max(S) \in S /\ \A x \in S : x <= Max(S)
<1> DEFINE T == {n - x : x \in S}
           R == OpToRel(<, Nat)
<1>1. T \subseteq Nat /\ T # {}
  <2>1. \A x \in S : n - x \in Nat
    OBVIOUS
  <2> QED
    BY <2>1
<1>2. \E m \in T : \A y \in T : ~(<<y, m>> \in R)
  <2> HIDE DEF T, R
  <2>1. IsWellFoundedOn(R, Nat)
    BY NatLessThanWellFounded DEF R
  <2> QED
    BY <1>1, <2>1, WFMin
<1>3. PICK m \in T : \A y \in T : ~(y < m)
  BY <1>1, <1>2 DEF OpToRel
<1>4. PICK x \in S : m = n - x
  OBVIOUS
<1>5. \A y \in S : y <= x
  BY <1>3, <1>4
<1> QED
  BY <1>5 DEF Max

LEMMA OneMember ==
    ASSUME NEW S, IsFiniteSet(S), Cardinality(S) = 1, NEW i \in S, NEW j \in S
    PROVE  i = j
BY FS_Singleton

\* Ids are handed out above all that were.
LEMMA NextIdIsNew ==
    ASSUME RowsInv
    PROVE  NextId \in Nat /\ \A i \in Used : i < NextId
<1> DEFINE S == {0} \cup Used
<1>1. PICK n \in Nat : Used \subseteq 0..n
  BY DEF RowsInv
<1>2. S \in SUBSET (0..n) /\ S # {}
  BY <1>1
<1>3. Max(S) \in S /\ \A x \in S : x <= Max(S)
  <2> HIDE DEF S
  <2> QED
    BY <1>2, BoundedMax
<1>4. NextId = 1 + Max(S)
  BY DEF NextId, Used
<1>5. Used \subseteq S /\ Used \subseteq Nat
  BY <1>1
<1> HIDE DEF S
<1>6. Max(S) \in Nat
  <2>1. 0..n \subseteq Nat
    OBVIOUS
  <2> QED
    BY <1>2, <1>3, <2>1, Zenon
<1>7. \A i \in Used : i <= Max(S) /\ i \in Nat
  BY <1>3, <1>5
<1> QED
  BY <1>4, <1>6, <1>7

-----------------------------------------------------------------------------
(* Writes.                                                                 *)

\* A replacement deletes rows that it has read.
LEMMA UnwantedWereRead ==
    ASSUME RowsInv, NEW rows \in SUBSET Used, NEW wanted
    PROVE  Unwanted(rows, wanted) \subseteq rows
<1>1. PICK n \in Nat : Used \subseteq 0..n
  BY DEF RowsInv
<1>2. ASSUME NEW u \in UsersOf(rows) PROVE Max(RowsOf(u, rows)) \in rows
  <2> DEFINE S == RowsOf(u, rows)
  <2>1. S \in SUBSET (0..n) /\ S # {} /\ S \subseteq rows
    BY <1>1 DEF RowsOf, UsersOf
  <2>2. Max(S) \in S
    <3> HIDE DEF S
    <3> QED
      BY <2>1, BoundedMax
  <2> QED
    BY <2>1, <2>2
<1> QED
  BY <1>2 DEF Unwanted

\* New rows have new ids, and users of S; written once, each user has one of them.
AddedAs(S, times, removed, ids) ==
    /\ present' = (present \ removed) \cup ids
    /\ ids \cap Used = {}
    /\ \E n \in Nat : ids \subseteq 0..n
    /\ \A i \in ids : userOf'[i] \in S
    /\ \A i \in RowIds \ ids : userOf'[i] = userOf[i]
    /\ userOf' \in [RowIds -> Users \cup {NoUser}]
    /\ times = 1 => \A i, j \in ids : userOf'[i] = userOf'[j] => i = j

LEMMA RowsAdded ==
    ASSUME RowsInv, NEW S \in SUBSET Users, NEW times \in Nat, NEW removed, AddRows(S, times, removed)
    PROVE  \E ids \in SUBSET RowIds : AddedAs(S, times, removed, ids)
<1> DEFINE last == NextId + times * Cardinality(S) - 1
           ids == NextId..last
<1>1. NextId \in Nat /\ \A i \in Used : i < NextId
  BY NextIdIsNew
<1>2. IsFiniteSet(S) /\ Cardinality(S) \in Nat
  BY RowsAssumption, FS_Subset, FS_CardinalityType
<1>3. last \in Int
  BY <1>1, <1>2
<1>4. ids \subseteq RowIds
  BY DEF AddRows
<1>5. PICK f \in [ids -> S] :
        /\ \A u \in S : Cardinality({i \in ids : f[i] = u}) = times
        /\ userOf' = [i \in RowIds |-> IF i \in ids THEN f[i] ELSE userOf[i]]
  BY DEF AddRows
<1>6. present' = (present \ removed) \cup ids
  BY DEF AddRows
<1>7. ids \cap Used = {}
  BY <1>1, <1>3
<1>8. \E n \in Nat : ids \subseteq 0..n
  <2>1. CASE last \in Nat
    <3>1. ids \subseteq 0..last
      BY <1>1, <2>1
    <3> QED
      BY <2>1, <3>1
  <2>2. CASE last \notin Nat
    <3>1. ids \subseteq 0..0
      BY <1>1, <1>3, <2>2
    <3> QED
      BY <3>1
  <2> QED
    BY <2>1, <2>2
<1>9. IsFiniteSet(ids)
  BY <1>1, <1>3, FS_Interval
<1> HIDE DEF last, ids
<1>10. \A i \in ids : userOf'[i] = f[i] /\ f[i] \in S
  BY <1>4, <1>5
<1>11. ASSUME times = 1, NEW i \in ids, NEW j \in ids, userOf'[i] = userOf'[j]
       PROVE  i = j
  <2> DEFINE T == {k \in ids : f[k] = f[i]}
  <2>1. IsFiniteSet(T)
    BY <1>9, FS_Subset
  <2>2. Cardinality(T) = 1
    BY <1>5, <1>10, <1>11
  <2>3. i \in T /\ j \in T
    BY <1>10, <1>11
  <2> HIDE DEF T
  <2> QED
    BY <2>1, <2>2, <2>3, OneMember
<1>12. userOf' \in [RowIds -> Users \cup {NoUser}]
  BY <1>5, <1>10 DEF RowsInv
<1>13. \A i \in RowIds \ ids : userOf'[i] = userOf[i]
  BY <1>5
<1> QED
  BY <1>4, <1>6, <1>7, <1>8, <1>10, <1>11, <1>12, <1>13 DEF AddedAs

-----------------------------------------------------------------------------
(* The invariants.                                                         *)

LEMMA AssigneesAtFirst == AssigneesInit => RowsInv /\ AskedInv
<1> SUFFICES ASSUME AssigneesInit PROVE RowsInv /\ AskedInv
  OBVIOUS
<1>1. Used = {} /\ {} \subseteq 0..0
  BY DEF AssigneesInit, Used
<1>2. RowsInv
  BY <1>1 DEF AssigneesInit, RowsInv, Nothing
<1>3. AskedInv
  BY DEF AssigneesInit, AskedInv, Nothing
<1> QED
  BY <1>2, <1>3

LEMMA AskedKept ==
    ASSUME RowsInv, AskedInv, [AssigneesNext]_assigneeVars
    PROVE  AskedInv'
<1>1. ASSUME NEW r \in Assigners, ReadAssignees(r) PROVE AskedInv'
  BY <1>1 DEF ReadAssignees, AskedInv, RowsInv, Used
<1>2. ASSUME NEW r \in Assigners, Close(r), favorite' \in BOOLEAN PROVE AskedInv'
  BY <1>2 DEF Close, AskedInv, Nothing
<1>3. ASSUME NEW r \in Assigners, WriteAssignees(r) PROVE Close(r) /\ favorite' \in BOOLEAN
  <2>1. asking[r].kind # "none" => asking[r].favorite \in BOOLEAN
    BY DEF AskedInv, Asking, NotAsking
  <2> QED
    BY <1>3, <2>1
    DEF WriteAssignees, Assign, Unassign, Replace, UpdateTask, Bulk, Fail, SetFavorite, AskedInv
<1>4. CASE UNCHANGED assigneeVars
  BY <1>4 DEF assigneeVars, AskedInv
<1> QED
  BY <1>1, <1>2, <1>3, <1>4 DEF AssigneesNext

\* What a write does to the rows: nothing, or it deletes some, or it adds rows of users
\* that it asked for.
Adds(r, removed) == \E S \in SUBSET Users, times \in Nat : AddRows(S, times, removed)

LEMMA AddsKeepRows ==
    ASSUME RowsInv, AskedInv, NEW r \in Assigners, Close(r), NEW removed, Adds(r, removed)
    PROVE  RowsInv'
<1>1. PICK S \in SUBSET Users, times \in Nat : AddRows(S, times, removed)
  BY DEF Adds
<1>2. PICK ids \in SUBSET RowIds : AddedAs(S, times, removed, ids)
  BY <1>1, RowsAdded
<1>3. Used' = Used \cup ids
  <2>1. \A i \in ids : userOf'[i] # NoUser
    BY <1>2, RowsAssumption DEF AddedAs
  <2>2. \A i \in RowIds \ ids : userOf'[i] = userOf[i]
    BY <1>2 DEF AddedAs
  <2> QED
    BY <2>1, <2>2 DEF Used
<1>4. \E n \in Nat : Used' \subseteq 0..n
  <2>1. PICK m \in Nat : Used \subseteq 0..m
    BY DEF RowsInv
  <2>2. PICK n \in Nat : ids \subseteq 0..n
    BY <1>2 DEF AddedAs
  <2>3. Used' \subseteq 0..(m + n)
    BY <1>3, <2>1, <2>2
  <2> QED
    BY <2>3
<1>5. present' \subseteq Used'
  BY <1>2, <1>3 DEF RowsInv, AddedAs
<1>6. \A s \in Assigners : seen'[s].rows \subseteq Used'
  BY <1>3 DEF RowsInv, AskedInv, Close, Nothing
<1> QED
  BY <1>2, <1>4, <1>5, <1>6 DEF RowsInv, AddedAs

LEMMA DeletionsKeepRows ==
    ASSUME RowsInv, AskedInv, NEW r \in Assigners, Close(r), present' \subseteq present, userOf' = userOf
    PROVE  RowsInv'
BY DEF RowsInv, AskedInv, Used, Close, Nothing

LEMMA WhatWritesDo ==
    ASSUME AskedInv, NEW r \in Assigners, WriteAssignees(r)
    PROVE  /\ Close(r)
           /\ (present' \subseteq present /\ userOf' = userOf) \/ \E removed : Adds(r, removed)
<1>1. Close(r)
  BY DEF WriteAssignees, Assign, Unassign, Replace, UpdateTask, Bulk, Fail
<1>2. asking[r].kind # "none" => asking[r].users \subseteq Users
  BY DEF AskedInv, Asking, NotAsking
<1>3. ASSUME NEW S, NEW times \in Nat, NEW removed, AddRows(S, times, removed), S \subseteq Users
      PROVE  \E x : Adds(r, x)
  BY <1>3 DEF Adds
<1>4. CASE Assign(r)
  BY <1>2, <1>3, <1>4 DEF Assign, Fail
<1>5. CASE Unassign(r)
  BY <1>5 DEF Unassign, Fail
<1>6. CASE Replace(r)
  BY <1>2, <1>3, <1>6 DEF Replace
<1>7. CASE UpdateTask(r)
  BY <1>2, <1>3, <1>7 DEF UpdateTask, Fail
<1>8. CASE Bulk(r)
  BY <1>2, <1>3, <1>8 DEF Bulk, Fail
<1> QED
  BY <1>1, <1>4, <1>5, <1>6, <1>7, <1>8 DEF WriteAssignees

LEMMA RowsKept ==
    ASSUME RowsInv, AskedInv, [AssigneesNext]_assigneeVars
    PROVE  RowsInv'
<1>1. ASSUME NEW r \in Assigners, ReadAssignees(r) PROVE RowsInv'
  BY <1>1 DEF ReadAssignees, RowsInv, AskedInv, Used
<1>2. ASSUME NEW r \in Assigners, WriteAssignees(r) PROVE RowsInv'
  BY <1>2, WhatWritesDo, AddsKeepRows, DeletionsKeepRows
<1>3. CASE UNCHANGED assigneeVars
  BY <1>3 DEF assigneeVars, RowsInv, Used
<1> QED
  BY <1>1, <1>2, <1>3 DEF AssigneesNext

-----------------------------------------------------------------------------
(* The theorems.                                                           *)

\* A request that ends is the one that writes.
LEMMA EndsByItsWrite ==
    ASSUME AskedInv, [AssigneesNext]_assigneeVars, NEW r \in Assigners, Ends(r)
    PROVE  WriteAssignees(r)
<1>1. ASSUME NEW s \in Assigners, ReadAssignees(s) PROVE FALSE
  BY <1>1 DEF ReadAssignees, Ends, AskedInv, Asking, NotAsking
<1>2. ASSUME NEW s \in Assigners, WriteAssignees(s) PROVE s = r
  BY <1>2, WhatWritesDo DEF Close, Ends, AskedInv
<1>3. ~UNCHANGED assigneeVars
  BY DEF assigneeVars, Ends
<1> QED
  BY <1>1, <1>2, <1>3 DEF AssigneesNext

LaterKept == \A r \in Assigners : asking[r].kind # "bulk" /\ Ends(r) => present \ seen[r].rows \subseteq present'

LEMMA StepKeepsLater ==
    ASSUME RowsInv, AskedInv, [AssigneesNext]_assigneeVars
    PROVE  LaterKept
<1> SUFFICES ASSUME NEW r \in Assigners, asking[r].kind # "bulk", Ends(r)
             PROVE  present \ seen[r].rows \subseteq present'
  BY DEF LaterKept
<1>1. Assign(r) \/ Unassign(r) \/ Replace(r) \/ UpdateTask(r)
  BY EndsByItsWrite DEF WriteAssignees, Bulk
<1>2. Unwanted(seen[r].rows, asking[r].users) \subseteq seen[r].rows
  BY UnwantedWereRead DEF RowsInv
<1>3. Found(r) \subseteq seen[r].rows
  BY DEF Found
<1> QED
  BY <1>1, <1>2, <1>3 DEF Assign, Unassign, Replace, UpdateTask, Fail, AddRows

OncePer ==
    \A r \in Assigners :
         /\ asking[r].kind # "bulk" /\ Ends(r) /\ Undisturbed(r)
         /\ UserOncePer(present, userOf)
         => UserOncePer(present', userOf')

\* Rows of users who had none, one of each, give nobody a second row.
LEMMA AddingKeepsOnce ==
    ASSUME RowsInv, NEW S \in SUBSET Users, NEW removed, AddRows(S, 1, removed),
           UserOncePer(present, userOf), S \cap UsersOf(present) = {}
    PROVE  UserOncePer(present', userOf')
<1>1. PICK ids \in SUBSET RowIds : AddedAs(S, 1, removed, ids)
  BY RowsAdded
<1>2. \A i \in present : i \in RowIds \ ids /\ userOf'[i] = userOf[i] /\ userOf'[i] \notin S
  BY <1>1 DEF RowsInv, Used, UsersOf, AddedAs
<1> QED
  BY <1>1, <1>2 DEF UserOncePer, AddedAs

LEMMA StepKeepsOnce ==
    ASSUME RowsInv, AskedInv, [AssigneesNext]_assigneeVars
    PROVE  OncePer
<1> SUFFICES ASSUME NEW r \in Assigners, asking[r].kind # "bulk", Ends(r), Undisturbed(r),
                    UserOncePer(present, userOf)
             PROVE  UserOncePer(present', userOf')
  BY DEF OncePer
<1>1. seen[r].rows = present
  BY DEF Undisturbed
<1>2. asking[r].users \subseteq Users
  BY DEF AskedInv, Asking, NotAsking
<1>3. WriteAssignees(r)
  BY EndsByItsWrite
<1>4. CASE present' \subseteq present /\ userOf' = userOf
  BY <1>4 DEF UserOncePer
<1>5. CASE Assign(r)
  <2>1. CASE Found(r) = {}
    <3>1. asking[r].users \cap UsersOf(present) = {}
      BY <1>1, <2>1 DEF Found, UsersOf
    <3> QED
      BY <1>2, <1>5, <2>1, <3>1, AddingKeepsOnce DEF Assign
  <2>2. CASE Found(r) # {}
    BY <1>4, <1>5, <2>2 DEF Assign, Fail
  <2> QED
    BY <2>1, <2>2
<1>6. CASE Unassign(r)
  BY <1>4, <1>6 DEF Unassign, Fail
<1>7. ASSUME NEW removed, AddRows(asking[r].users \ UsersOf(seen[r].rows), 1, removed)
      PROVE  UserOncePer(present', userOf')
  BY <1>1, <1>2, <1>7, AddingKeepsOnce
<1>8. CASE Replace(r)
  BY <1>7, <1>8 DEF Replace
<1>9. CASE UpdateTask(r)
  BY <1>4, <1>7, <1>9 DEF UpdateTask, Fail
<1> QED
  BY <1>3, <1>5, <1>6, <1>8, <1>9 DEF WriteAssignees, Bulk

\* Assigning, replacing and updating alone: nobody is ever assigned twice, for any
\* number of users and whatever requests went before.
THEOREM AloneAssignsOnce == AssigneesSpec => OneRowPerAssignee
<1>1. RowsInv /\ AskedInv /\ [AssigneesNext]_assigneeVars => (RowsInv /\ AskedInv)' /\ [OncePer]_assigneeVars
  BY RowsKept, AskedKept, StepKeepsOnce
<1> QED
  BY <1>1, AssigneesAtFirst, PTL DEF AssigneesSpec, OneRowPerAssignee, OncePer

\* However requests overlap, a row that was added after a request had read survives it.
THEOREM LaterRowsKept == AssigneesSpec => LaterRowsSurvive
<1>1. RowsInv /\ AskedInv /\ [AssigneesNext]_assigneeVars => (RowsInv /\ AskedInv)' /\ [LaterKept]_assigneeVars
  BY RowsKept, AskedKept, StepKeepsLater
<1> QED
  BY <1>1, AssigneesAtFirst, PTL DEF AssigneesSpec, LaterRowsSurvive, LaterKept

-----------------------------------------------------------------------------
(* Attachments.                                                            *)

\* The ids that r has taken for rows it has not committed.
Pending(r) == IF work[r].at \in {"upload", "save"} THEN DOMAIN work[r].rows ELSE {}

\* The bytes of r's row f are on disk.
Saved(r, f) == f \in DOMAIN bytes /\ bytes[f] = work[r].rows[f]

WorkShape(r) ==
    /\ work[r].at \in {"idle", "upload", "save", "delete", "unlink", "load"}
    /\ work[r].at \in {"upload", "save"} => {"at", "todo", "rows"} \subseteq DOMAIN work[r]
    /\ work[r].at \in {"delete", "unlink"} => {"at", "file"} \subseteq DOMAIN work[r]

\* What an upload has flushed is its own, and is on disk but for the last one.
UploadInv(r) ==
    /\ Pending(r) \subseteq 1..lastFile
    /\ Pending(r) \cap DOMAIN files = {}
    /\ \A s \in Uploaders \ {r} : Pending(r) \cap Pending(s) = {}
    /\ work[r].at = "upload" => \A f \in Pending(r) : Saved(r, f)
    /\ work[r].at = "save" =>
         \E last \in Pending(r) : \A f \in Pending(r) : f <= last /\ (f # last => Saved(r, f))

\* Under SQLite the ids of an upload are those at the top: a rollback gives back no
\* others.
TopIds(r) == \E base \in Nat : base <= lastFile /\ Pending(r) = (base + 1)..lastFile
LockInv(r) == sqlite /\ Pending(r) # {} => writer = r /\ TopIds(r)

\* A file that was read from a committed row is nobody's upload.
NamedInv(r) ==
    work[r].at \in {"delete", "unlink", "load"} =>
      /\ work[r].file \in 1..lastFile
      /\ \A s \in Uploaders : work[r].file \notin Pending(s)
      /\ work[r].at = "unlink" => work[r].file \notin DOMAIN files
      /\ work[r].at = "load" =>
           /\ work[r].file \in DOMAIN files => files[work[r].file] = work[r].content
           /\ work[r].file \in DOMAIN bytes => bytes[work[r].file] = work[r].content

FilesInv ==
    /\ lastFile \in Nat /\ DOMAIN work = Uploaders
    /\ DOMAIN files \subseteq 1..lastFile /\ RowsHaveBytes
    /\ \A r \in Uploaders : WorkShape(r) /\ UploadInv(r) /\ LockInv(r) /\ NamedInv(r)

-----------------------------------------------------------------------------
(* Numbers, the first state, and what the invariant gives.                 *)

LEMMA MaxIsLast ==
    ASSUME NEW n \in Nat, NEW S \in SUBSET (1..n), NEW m \in S, \A x \in S : x <= m
    PROVE  Max(S) = m
<1>1. \A y \in S : y \in Int
  OBVIOUS
<1>2. \A x \in S : (\A y \in S : x >= y) => x = m
  BY <1>1
<1>3. \A y \in S : m >= y
  BY <1>1
<1> QED
  BY <1>2, <1>3 DEF Max

LEMMA FilesAtFirst == AttachmentsInit => FilesInv
BY DEF AttachmentsInit, FilesInv, RowsHaveBytes, NoWork, WorkShape, UploadInv, LockInv, NamedInv, Pending

LEMMA InvImpliesWhole == FilesInv => FilesWhole
<1> SUFFICES ASSUME FilesInv PROVE FilesWhole
  OBVIOUS
<1>1. ASSUME NEW r \in Uploaders, work[r].at = "load", work[r].file \notin DOMAIN bytes
      PROVE  work[r].file \notin DOMAIN files
  BY <1>1 DEF FilesInv, RowsHaveBytes
<1> QED
  BY <1>1 DEF FilesInv, FilesWhole, DownloadsOwnBytes, NamedInv

-----------------------------------------------------------------------------
(* Steps that touch neither store and take no id.                          *)

\* What a step of r leaves of the others.
LEMMA OthersStay ==
    ASSUME FilesInv, NEW r \in Uploaders, NEW w, At(r, w)
    PROVE  /\ DOMAIN work' = Uploaders /\ work'[r] = w
           /\ \A s \in Uploaders \ {r} : work'[s] = work[s] /\ Pending(s)' = Pending(s)
<1>1. DOMAIN work' = Uploaders /\ work'[r] = w /\ \A s \in Uploaders \ {r} : work'[s] = work[s]
  BY DEF At, FilesInv
<1> QED
  BY <1>1 DEF Pending

LEMMA OtherWorkKeepsInv ==
    ASSUME FilesInv, NEW r \in Uploaders, NEW w, At(r, w), UNCHANGED <<sqlite, files, lastFile, bytes, writer>>,
           Pending(r) = {}, Pending(r)' = {}, work'[r].at # "save", WorkShape(r)', NamedInv(r)'
    PROVE  FilesInv'
<1>1. DOMAIN work' = Uploaders /\ \A s \in Uploaders \ {r} : work'[s] = work[s]
  BY OthersStay
<1>2. \A s \in Uploaders : Pending(s)' = Pending(s)
  BY OthersStay
<1>3. UploadInv(r)'
  BY DEF UploadInv
<1>4. LockInv(r)'
  BY DEF LockInv
<1>5. ASSUME NEW s \in Uploaders \ {r}
      PROVE  WorkShape(s)' /\ UploadInv(s)' /\ LockInv(s)' /\ NamedInv(s)'
  <2>1. work'[s] = work[s] /\ Pending(s)' = Pending(s)
    BY <1>1, <1>2
  <2>2. WorkShape(s) /\ UploadInv(s) /\ LockInv(s) /\ NamedInv(s)
    BY DEF FilesInv
  <2>3. WorkShape(s)'
    BY <2>1, <2>2 DEF WorkShape
  <2>4. UploadInv(s)'
    BY <2>1, <2>2, <1>2 DEF UploadInv, Saved
  <2>5. LockInv(s)'
    BY <2>1, <2>2 DEF LockInv, TopIds
  <2>6. NamedInv(s)'
    BY <2>1, <2>2, <1>2 DEF NamedInv
  <2> QED
    BY <2>3, <2>4, <2>5, <2>6
<1>6. lastFile' \in Nat /\ (DOMAIN files \subseteq 1..lastFile)' /\ RowsHaveBytes'
  BY DEF FilesInv, RowsHaveBytes
<1> QED
  BY <1>1, <1>3, <1>4, <1>5, <1>6 DEF FilesInv

\* The request begins, ends or stops without a trace.
LEMMA QuietKeepsInv ==
    ASSUME FilesInv, NEW r \in Uploaders,
           StartUpload(r) \/ StartDelete(r) \/ StartDownload(r) \/ LoadBytes(r) \/ Crash(r)
    PROVE  FilesInv'
<1>1. UploadInv(r) /\ WorkShape(r) /\ NamedInv(r)
  BY DEF FilesInv
<1>2. CASE StartUpload(r)
  <2>1. PICK todo : At(r, [at |-> "upload", todo |-> todo, rows |-> <<>>])
    BY <1>2 DEF StartUpload
  <2>2. work'[r] = [at |-> "upload", todo |-> todo, rows |-> <<>>]
    BY <2>1, OthersStay
  <2>3. Pending(r) = {} /\ Pending(r)' = {}
    BY <1>2, <2>2 DEF Pending, StartUpload, NoWork
  <2>4. WorkShape(r)' /\ NamedInv(r)' /\ work'[r].at # "save"
    BY <2>2 DEF WorkShape, NamedInv
  <2> QED
    BY <1>2, <2>1, <2>3, <2>4, OtherWorkKeepsInv DEF StartUpload
<1>3. CASE StartDelete(r)
  <2>1. PICK f \in DOMAIN files : At(r, [at |-> "delete", file |-> f])
    BY <1>3 DEF StartDelete
  <2>2. work'[r] = [at |-> "delete", file |-> f]
    BY <2>1, OthersStay
  <2>3. Pending(r) = {} /\ Pending(r)' = {}
    BY <1>3, <2>2 DEF Pending, StartDelete, NoWork
  <2>4. f \in 1..lastFile /\ \A s \in Uploaders : f \notin Pending(s)
    BY DEF FilesInv, UploadInv
  <2>5. \A s \in Uploaders : Pending(s)' = Pending(s)
    BY <2>1, <2>3, OthersStay
  <2>6. WorkShape(r)' /\ NamedInv(r)' /\ work'[r].at # "save"
    BY <1>3, <2>2, <2>4, <2>5 DEF WorkShape, NamedInv, StartDelete
  <2> QED
    BY <1>3, <2>1, <2>3, <2>6, OtherWorkKeepsInv DEF StartDelete
<1>4. CASE StartDownload(r)
  <2>1. PICK f \in DOMAIN files : At(r, [at |-> "load", file |-> f, content |-> files[f]])
    BY <1>4 DEF StartDownload
  <2>2. work'[r] = [at |-> "load", file |-> f, content |-> files[f]]
    BY <2>1, OthersStay
  <2>3. Pending(r) = {} /\ Pending(r)' = {}
    BY <1>4, <2>2 DEF Pending, StartDownload, NoWork
  <2>4. /\ f \in 1..lastFile /\ \A s \in Uploaders : f \notin Pending(s)
        /\ f \in DOMAIN bytes => bytes[f] = files[f]
    BY DEF FilesInv, UploadInv, RowsHaveBytes
  <2>5. \A s \in Uploaders : Pending(s)' = Pending(s)
    BY <2>1, <2>3, OthersStay
  <2>6. WorkShape(r)' /\ NamedInv(r)' /\ work'[r].at # "save"
    BY <1>4, <2>2, <2>4, <2>5 DEF WorkShape, NamedInv, StartDownload
  <2> QED
    BY <1>4, <2>1, <2>3, <2>6, OtherWorkKeepsInv DEF StartDownload
<1>5. CASE LoadBytes(r) \/ Crash(r)
  <2>1. At(r, NoWork) /\ UNCHANGED <<sqlite, files, lastFile, bytes, writer>> /\ Pending(r) = {}
    BY <1>5 DEF LoadBytes, Crash, Pending
  <2>2. work'[r] = NoWork
    BY <2>1, OthersStay
  <2>3. Pending(r)' = {} /\ WorkShape(r)' /\ NamedInv(r)' /\ work'[r].at # "save"
    BY <2>2 DEF Pending, WorkShape, NamedInv, NoWork
  <2> QED
    BY <2>1, <2>3, OtherWorkKeepsInv
<1> QED
  BY <1>2, <1>3, <1>4, <1>5

-----------------------------------------------------------------------------
(* What a step of r must respect for the others to keep their invariant.   *)

LEMMA OthersKeep ==
    ASSUME FilesInv, NEW r \in Uploaders, NEW w, At(r, w), NEW s \in Uploaders \ {r},
           \A f \in Pending(s) :
             /\ f \in 1..lastFile' /\ f \notin DOMAIN files' /\ f \notin Pending(r)'
             /\ f \in DOMAIN bytes => f \in DOMAIN bytes' /\ bytes'[f] = bytes[f],
           \A f \in 1..lastFile : (\A t \in Uploaders : f \notin Pending(t)) =>
             /\ f \in 1..lastFile' /\ f \notin Pending(r)'
             /\ f \in DOMAIN files' => f \in DOMAIN files /\ files'[f] = files[f]
             /\ f \in DOMAIN bytes' => f \in DOMAIN bytes /\ bytes'[f] = bytes[f]
    PROVE  WorkShape(s)' /\ UploadInv(s)' /\ NamedInv(s)'
<1>1. \A t \in Uploaders \ {r} : work'[t] = work[t] /\ Pending(t)' = Pending(t)
  BY OthersStay
<1>2. WorkShape(s) /\ UploadInv(s) /\ NamedInv(s)
  BY DEF FilesInv
<1>3. WorkShape(s)'
  BY <1>1, <1>2 DEF WorkShape
<1>4. \A f \in Pending(s) : Saved(s, f) => Saved(s, f)'
  BY <1>1 DEF Saved
<1>5. UploadInv(s)'
  <2>1. Pending(s)' \subseteq 1..lastFile' /\ Pending(s)' \cap DOMAIN files' = {}
    BY <1>1
  <2>2. \A t \in Uploaders \ {s} : Pending(s)' \cap Pending(t)' = {}
    BY <1>1, <1>2 DEF UploadInv
  <2>3. work'[s].at = "upload" => \A f \in Pending(s)' : Saved(s, f)'
    BY <1>1, <1>2, <1>4 DEF UploadInv
  <2>4. work'[s].at = "save" =>
          \E last \in Pending(s)' : \A f \in Pending(s)' : f <= last /\ (f # last => Saved(s, f)')
    BY <1>1, <1>2, <1>4 DEF UploadInv
  <2> QED
    BY <2>1, <2>2, <2>3, <2>4 DEF UploadInv
<1>6. NamedInv(s)'
  <2> SUFFICES ASSUME work'[s].at \in {"delete", "unlink", "load"} PROVE NamedInv(s)'
    BY DEF NamedInv
  <2>1. work[s].at \in {"delete", "unlink", "load"} /\ work'[s] = work[s]
    BY <1>1
  <2>2. work[s].file \in 1..lastFile /\ \A t \in Uploaders : work[s].file \notin Pending(t)
    BY <1>2, <2>1 DEF NamedInv
  <2>3. \A t \in Uploaders : work'[s].file \notin Pending(t)'
    BY <1>1, <2>1, <2>2
  <2> QED
    BY <1>2, <2>1, <2>2, <2>3 DEF NamedInv
<1> QED
  BY <1>3, <1>5, <1>6

LEMMA TogetherAgain ==
    ASSUME FilesInv, NEW r \in Uploaders, NEW w, At(r, w),
           lastFile' \in Nat, DOMAIN files' \subseteq 1..lastFile', RowsHaveBytes',
           WorkShape(r)' /\ UploadInv(r)' /\ LockInv(r)' /\ NamedInv(r)',
           \A s \in Uploaders \ {r} : WorkShape(s)' /\ UploadInv(s)' /\ LockInv(s)' /\ NamedInv(s)'
    PROVE  FilesInv'
<1>1. DOMAIN work' = Uploaders
  BY OthersStay
<1> QED
  BY <1>1 DEF FilesInv

-----------------------------------------------------------------------------
(* Deletions.                                                              *)

LEMMA CommitDeleteKeepsInv ==
    ASSUME FilesInv, NEW r \in Uploaders, CommitDelete(r)
    PROVE  FilesInv'
<1> DEFINE w == [work[r] EXCEPT !.at = "unlink"]
<1>1. At(r, w) /\ UNCHANGED <<sqlite, lastFile, bytes, writer>>
  BY DEF CommitDelete
<1>2. WorkShape(r) /\ NamedInv(r) /\ work[r].at = "delete"
  BY DEF FilesInv, CommitDelete
<1>3. w.at = "unlink" /\ w.file = work[r].file /\ DOMAIN w = DOMAIN work[r]
  BY <1>2 DEF WorkShape
<1>4. /\ work'[r] = w
      /\ \A s \in Uploaders \ {r} : work'[s] = work[s] /\ Pending(s)' = Pending(s)
  BY <1>1, OthersStay
<1>5. Pending(r) = {} /\ Pending(r)' = {}
  BY <1>2, <1>3, <1>4 DEF Pending
<1>6. DOMAIN files' = DOMAIN files \ {work[r].file} /\ \A f \in DOMAIN files' : files'[f] = files[f]
  BY DEF CommitDelete, Drop
<1>7. DOMAIN files' \subseteq 1..lastFile' /\ RowsHaveBytes' /\ lastFile' \in Nat
  BY <1>1, <1>6 DEF FilesInv, RowsHaveBytes
<1>8. WorkShape(r)' /\ UploadInv(r)' /\ LockInv(r)' /\ NamedInv(r)'
  <2>1. WorkShape(r)'
    BY <1>2, <1>3, <1>4 DEF WorkShape
  <2>2. UploadInv(r)' /\ LockInv(r)'
    BY <1>3, <1>4, <1>5 DEF UploadInv, LockInv
  <2>3. \A s \in Uploaders : Pending(s)' = Pending(s)
    BY <1>4, <1>5
  <2>4. NamedInv(r)'
    BY <1>1, <1>2, <1>3, <1>4, <1>6, <2>3 DEF NamedInv
  <2> QED
    BY <2>1, <2>2, <2>4
<1>9. ASSUME NEW s \in Uploaders \ {r}
      PROVE  WorkShape(s)' /\ UploadInv(s)' /\ LockInv(s)' /\ NamedInv(s)'
  <2>1. UploadInv(s) /\ LockInv(s)
    BY DEF FilesInv
  <2>2. \A f \in Pending(s) :
             /\ f \in 1..lastFile' /\ f \notin DOMAIN files' /\ f \notin Pending(r)'
             /\ f \in DOMAIN bytes => f \in DOMAIN bytes' /\ bytes'[f] = bytes[f]
    BY <1>1, <1>5, <1>6, <2>1 DEF UploadInv
  <2>3. \A f \in 1..lastFile : (\A t \in Uploaders : f \notin Pending(t)) =>
             /\ f \in 1..lastFile' /\ f \notin Pending(r)'
             /\ f \in DOMAIN files' => f \in DOMAIN files /\ files'[f] = files[f]
             /\ f \in DOMAIN bytes' => f \in DOMAIN bytes /\ bytes'[f] = bytes[f]
    BY <1>1, <1>5, <1>6
  <2>4. WorkShape(s)' /\ UploadInv(s)' /\ NamedInv(s)'
    BY <1>1, <2>2, <2>3, OthersKeep
  <2>5. LockInv(s)'
    BY <1>1, <1>4, <2>1 DEF LockInv, TopIds
  <2> QED
    BY <2>4, <2>5
<1> QED
  BY <1>1, <1>7, <1>8, <1>9, TogetherAgain

LEMMA UnlinkKeepsInv ==
    ASSUME FilesInv, NEW r \in Uploaders, Unlink(r)
    PROVE  FilesInv'
<1>1. At(r, NoWork) /\ UNCHANGED <<sqlite, files, lastFile, writer>> /\ work[r].at = "unlink"
  BY DEF Unlink
<1>2. NamedInv(r)
  BY DEF FilesInv
<1>3. /\ work'[r] = NoWork
      /\ \A s \in Uploaders \ {r} : work'[s] = work[s] /\ Pending(s)' = Pending(s)
  BY <1>1, OthersStay
<1>4. Pending(r) = {} /\ Pending(r)' = {}
  BY <1>1, <1>3 DEF Pending, NoWork
<1>5. DOMAIN bytes' = DOMAIN bytes \ {work[r].file} /\ \A f \in DOMAIN bytes' : bytes'[f] = bytes[f]
  BY DEF Unlink, Drop
<1>6. work[r].file \notin DOMAIN files /\ \A s \in Uploaders : work[r].file \notin Pending(s)
  BY <1>1, <1>2 DEF NamedInv
<1>7. DOMAIN files' \subseteq 1..lastFile' /\ RowsHaveBytes' /\ lastFile' \in Nat
  BY <1>1, <1>5, <1>6 DEF FilesInv, RowsHaveBytes
<1>8. WorkShape(r)' /\ UploadInv(r)' /\ LockInv(r)' /\ NamedInv(r)'
  BY <1>3, <1>4 DEF UploadInv, LockInv, NamedInv, WorkShape, NoWork
<1>9. ASSUME NEW s \in Uploaders \ {r}
      PROVE  WorkShape(s)' /\ UploadInv(s)' /\ LockInv(s)' /\ NamedInv(s)'
  <2>1. UploadInv(s) /\ LockInv(s)
    BY DEF FilesInv
  <2>2. \A f \in Pending(s) :
             /\ f \in 1..lastFile' /\ f \notin DOMAIN files' /\ f \notin Pending(r)'
             /\ f \in DOMAIN bytes => f \in DOMAIN bytes' /\ bytes'[f] = bytes[f]
    BY <1>1, <1>4, <1>5, <1>6, <2>1 DEF UploadInv
  <2>3. \A f \in 1..lastFile : (\A t \in Uploaders : f \notin Pending(t)) =>
             /\ f \in 1..lastFile' /\ f \notin Pending(r)'
             /\ f \in DOMAIN files' => f \in DOMAIN files /\ files'[f] = files[f]
             /\ f \in DOMAIN bytes' => f \in DOMAIN bytes /\ bytes'[f] = bytes[f]
    BY <1>1, <1>4, <1>5
  <2>4. WorkShape(s)' /\ UploadInv(s)' /\ NamedInv(s)'
    BY <1>1, <2>2, <2>3, OthersKeep
  <2>5. LockInv(s)'
    BY <1>1, <1>3, <2>1 DEF LockInv, TopIds
  <2> QED
    BY <2>4, <2>5
<1> QED
  BY <1>1, <1>7, <1>8, <1>9, TogetherAgain

-----------------------------------------------------------------------------
(* Uploads.                                                                *)

LEMMA CommitUploadKeepsInv ==
    ASSUME FilesInv, NEW r \in Uploaders, CommitUpload(r)
    PROVE  FilesInv'
<1>1. /\ At(r, NoWork) /\ Releases(r) /\ UNCHANGED <<sqlite, lastFile, bytes>>
      /\ work[r].at = "upload"
  BY DEF CommitUpload
<1>2. UploadInv(r) /\ Pending(r) = DOMAIN work[r].rows
  BY <1>1 DEF FilesInv, Pending
<1>3. /\ work'[r] = NoWork
      /\ \A s \in Uploaders \ {r} : work'[s] = work[s] /\ Pending(s)' = Pending(s)
  BY <1>1, OthersStay
<1>4. Pending(r)' = {}
  BY <1>3 DEF Pending, NoWork
<1>5. /\ DOMAIN files' = DOMAIN files \cup Pending(r)
      /\ \A f \in Pending(r) : files'[f] = work[r].rows[f]
      /\ \A f \in DOMAIN files \ Pending(r) : files'[f] = files[f]
  BY <1>2 DEF CommitUpload
<1>6. \A f \in Pending(r) : Saved(r, f) /\ f \notin DOMAIN files
  BY <1>1, <1>2 DEF UploadInv
<1>7. DOMAIN files' \subseteq 1..lastFile' /\ RowsHaveBytes' /\ lastFile' \in Nat
  BY <1>1, <1>2, <1>5, <1>6 DEF FilesInv, RowsHaveBytes, Saved, UploadInv
<1>8. WorkShape(r)' /\ UploadInv(r)' /\ LockInv(r)' /\ NamedInv(r)'
  BY <1>3, <1>4 DEF UploadInv, LockInv, NamedInv, WorkShape, NoWork
<1>9. ASSUME NEW s \in Uploaders \ {r}
      PROVE  WorkShape(s)' /\ UploadInv(s)' /\ LockInv(s)' /\ NamedInv(s)'
  <2>1. UploadInv(s) /\ LockInv(s)
    BY DEF FilesInv
  <2>2. \A f \in Pending(s) :
             /\ f \in 1..lastFile' /\ f \notin DOMAIN files' /\ f \notin Pending(r)'
             /\ f \in DOMAIN bytes => f \in DOMAIN bytes' /\ bytes'[f] = bytes[f]
    BY <1>1, <1>4, <1>5, <2>1 DEF UploadInv
  <2>3. \A f \in 1..lastFile : (\A t \in Uploaders : f \notin Pending(t)) =>
             /\ f \in 1..lastFile' /\ f \notin Pending(r)'
             /\ f \in DOMAIN files' => f \in DOMAIN files /\ files'[f] = files[f]
             /\ f \in DOMAIN bytes' => f \in DOMAIN bytes /\ bytes'[f] = bytes[f]
    BY <1>1, <1>4, <1>5
  <2>4. WorkShape(s)' /\ UploadInv(s)' /\ NamedInv(s)'
    BY <1>1, <2>2, <2>3, OthersKeep
  <2>5. LockInv(s)'
    BY <1>1, <1>3, <2>1 DEF LockInv, TopIds, Releases
  <2> QED
    BY <2>4, <2>5
<1> QED
  BY <1>1, <1>7, <1>8, <1>9, TogetherAgain

\* A rollback gives back the ids of its own rows, and no others.
LEMMA RollbackGivesBackOwn ==
    ASSUME FilesInv, NEW r \in Uploaders, FailUpload(r)
    PROVE  /\ lastFile' \in Nat /\ lastFile' <= lastFile
           /\ sqlite => Pending(r) = (lastFile' + 1)..lastFile
           /\ ~sqlite => lastFile' = lastFile
<1>1. Pending(r) = DOMAIN work[r].rows /\ lastFile \in Nat /\ LockInv(r)
  BY DEF FilesInv, Pending, FailUpload
<1>2. CASE ~sqlite
  BY <1>1, <1>2 DEF FailUpload
<1>3. CASE sqlite
  <2>1. \E base \in Nat : base <= lastFile /\ Pending(r) = (base + 1)..lastFile
    <3>1. CASE Pending(r) = {}
      <4>1. lastFile \in Nat /\ lastFile <= lastFile /\ Pending(r) = (lastFile + 1)..lastFile
        BY <1>1, <3>1
      <4> QED
        BY <4>1
    <3>2. CASE Pending(r) # {}
      BY <1>1, <1>3, <3>2 DEF LockInv, TopIds
    <3> QED
      BY <3>1, <3>2
  <2>2. PICK base \in Nat : base <= lastFile /\ Pending(r) = (base + 1)..lastFile
    BY <2>1
  <2>3. Cardinality(Pending(r)) = lastFile - base
    <3>1. base + 1 \in Int /\ lastFile \in Int
      BY <1>1
    <3>2. Cardinality((base + 1)..lastFile) = IF base + 1 > lastFile THEN 0 ELSE lastFile - (base + 1) + 1
      BY <3>1, FS_Interval
    <3> QED
      BY <1>1, <2>2, <3>2
  <2>4. lastFile' = lastFile - Cardinality(Pending(r))
    BY <1>1, <1>3 DEF FailUpload
  <2>5. lastFile' = base
    BY <1>1, <2>2, <2>3, <2>4
  <2> QED
    BY <1>3, <2>2, <2>5
<1> QED
  BY <1>2, <1>3

LEMMA FailUploadKeepsInv ==
    ASSUME FilesInv, NEW r \in Uploaders, FailUpload(r)
    PROVE  FilesInv'
<1>1. At(r, NoWork) /\ Releases(r) /\ UNCHANGED <<sqlite, files, bytes>>
  BY DEF FailUpload
<1>2. UploadInv(r) /\ LockInv(r) /\ lastFile \in Nat /\ DOMAIN files \subseteq 1..lastFile
  BY DEF FilesInv
<1>3. /\ work'[r] = NoWork
      /\ \A s \in Uploaders \ {r} : work'[s] = work[s] /\ Pending(s)' = Pending(s)
  BY <1>1, OthersStay
<1>4. Pending(r)' = {}
  BY <1>3 DEF Pending, NoWork
<1>5. /\ lastFile' \in Nat
      /\ \A f \in 1..lastFile : f \notin Pending(r) => f \in 1..lastFile'
  BY <1>2, RollbackGivesBackOwn
<1>6. DOMAIN files' \subseteq 1..lastFile' /\ RowsHaveBytes'
  BY <1>1, <1>2, <1>5 DEF FilesInv, RowsHaveBytes, UploadInv
<1>7. WorkShape(r)' /\ UploadInv(r)' /\ LockInv(r)' /\ NamedInv(r)'
  BY <1>3, <1>4 DEF UploadInv, LockInv, NamedInv, WorkShape, NoWork
<1>8. ASSUME NEW s \in Uploaders \ {r}
      PROVE  WorkShape(s)' /\ UploadInv(s)' /\ LockInv(s)' /\ NamedInv(s)'
  <2>1. UploadInv(s) /\ LockInv(s)
    BY DEF FilesInv
  <2>2. \A f \in Pending(s) :
             /\ f \in 1..lastFile' /\ f \notin DOMAIN files' /\ f \notin Pending(r)'
             /\ f \in DOMAIN bytes => f \in DOMAIN bytes' /\ bytes'[f] = bytes[f]
    BY <1>1, <1>4, <1>5, <2>1 DEF UploadInv
  <2>3. \A f \in 1..lastFile : (\A t \in Uploaders : f \notin Pending(t)) =>
             /\ f \in 1..lastFile' /\ f \notin Pending(r)'
             /\ f \in DOMAIN files' => f \in DOMAIN files /\ files'[f] = files[f]
             /\ f \in DOMAIN bytes' => f \in DOMAIN bytes /\ bytes'[f] = bytes[f]
    BY <1>1, <1>4, <1>5
  <2>4. WorkShape(s)' /\ UploadInv(s)' /\ NamedInv(s)'
    BY <1>1, <2>2, <2>3, OthersKeep
  <2>5. LockInv(s)'
    <3> SUFFICES ASSUME sqlite, Pending(s) # {} PROVE writer' = s /\ TopIds(s)'
      BY <1>1, <1>3 DEF LockInv
    <3>1. writer = s /\ TopIds(s)
      BY <2>1 DEF LockInv
    <3>2. Pending(r) = {}
      BY <1>2, <3>1 DEF LockInv
    <3>3. lastFile' = lastFile
      BY <1>2, <1>5, <3>2, RollbackGivesBackOwn
    <3> QED
      BY <1>1, <1>3, <3>1, <3>3 DEF TopIds, Releases
  <2> QED
    BY <2>4, <2>5
<1> QED
  BY <1>1, <1>5, <1>6, <1>7, <1>8, TogetherAgain

LEMMA SaveBytesKeepsInv ==
    ASSUME FilesInv, NEW r \in Uploaders, SaveBytes(r)
    PROVE  FilesInv'
<1> DEFINE w == [work[r] EXCEPT !.at = "upload", !.todo = Tail(@)]
<1>1. At(r, w) /\ UNCHANGED <<sqlite, files, lastFile, writer>> /\ work[r].at = "save"
  BY DEF SaveBytes
<1>2. WorkShape(r) /\ UploadInv(r) /\ LockInv(r) /\ Pending(r) = DOMAIN work[r].rows
  BY <1>1 DEF FilesInv, Pending
<1>3. w.at = "upload" /\ w.rows = work[r].rows /\ DOMAIN w = DOMAIN work[r]
  BY <1>1, <1>2 DEF WorkShape
<1>4. /\ work'[r] = w
      /\ \A s \in Uploaders \ {r} : work'[s] = work[s] /\ Pending(s)' = Pending(s)
  BY <1>1, OthersStay
<1> HIDE DEF w
<1>5. Pending(r)' = Pending(r)
  BY <1>2, <1>3, <1>4 DEF Pending
<1>6. PICK last \in Pending(r) : \A f \in Pending(r) : f <= last /\ (f # last => Saved(r, f))
  BY <1>1, <1>2 DEF UploadInv
<1>7. Max(DOMAIN work[r].rows) = last
  <2>1. Pending(r) \in SUBSET (1..lastFile) /\ lastFile \in Nat
    BY <1>2 DEF UploadInv, FilesInv
  <2> QED
    BY <1>2, <1>6, <2>1, MaxIsLast
<1>8. /\ DOMAIN bytes' = DOMAIN bytes \cup {last} /\ bytes'[last] = work[r].rows[last]
      /\ \A f \in DOMAIN bytes : f # last => bytes'[f] = bytes[f]
  <2>1. bytes' = Put(bytes, last, work[r].rows[last])
    BY <1>7 DEF SaveBytes
  <2> QED
    BY <2>1 DEF Put
<1>9. last \notin DOMAIN files /\ \A s \in Uploaders \ {r} : last \notin Pending(s)
  BY <1>2, <1>6 DEF UploadInv
<1>10. DOMAIN files' \subseteq 1..lastFile' /\ RowsHaveBytes' /\ lastFile' \in Nat
  BY <1>1, <1>8, <1>9 DEF FilesInv, RowsHaveBytes
<1>11. WorkShape(r)' /\ UploadInv(r)' /\ LockInv(r)' /\ NamedInv(r)'
  <2>1. WorkShape(r)' /\ NamedInv(r)'
    BY <1>1, <1>2, <1>3, <1>4 DEF WorkShape, NamedInv
  <2>2. \A f \in Pending(r)' : Saved(r, f)'
    BY <1>3, <1>4, <1>5, <1>6, <1>8 DEF Saved
  <2>3. UploadInv(r)'
    <3>1. work'[r].at # "save"
      BY <1>3, <1>4
    <3> QED
      BY <1>1, <1>2, <1>4, <1>5, <2>2, <3>1 DEF UploadInv
  <2>4. LockInv(r)'
    BY <1>1, <1>2, <1>5 DEF LockInv, TopIds
  <2> QED
    BY <2>1, <2>3, <2>4
<1>12. ASSUME NEW s \in Uploaders \ {r}
       PROVE  WorkShape(s)' /\ UploadInv(s)' /\ LockInv(s)' /\ NamedInv(s)'
  <2>1. UploadInv(s) /\ LockInv(s)
    BY DEF FilesInv
  <2>2. \A f \in Pending(s) :
             /\ f \in 1..lastFile' /\ f \notin DOMAIN files' /\ f \notin Pending(r)'
             /\ f \in DOMAIN bytes => f \in DOMAIN bytes' /\ bytes'[f] = bytes[f]
    BY <1>1, <1>5, <1>8, <1>9, <2>1 DEF UploadInv
  <2>3. \A f \in 1..lastFile : (\A t \in Uploaders : f \notin Pending(t)) =>
             /\ f \in 1..lastFile' /\ f \notin Pending(r)'
             /\ f \in DOMAIN files' => f \in DOMAIN files /\ files'[f] = files[f]
             /\ f \in DOMAIN bytes' => f \in DOMAIN bytes /\ bytes'[f] = bytes[f]
    BY <1>1, <1>5, <1>6, <1>8
  <2>4. WorkShape(s)' /\ UploadInv(s)' /\ NamedInv(s)'
    BY <1>1, <2>2, <2>3, OthersKeep
  <2>5. LockInv(s)'
    BY <1>1, <1>4, <2>1 DEF LockInv, TopIds
  <2> QED
    BY <2>4, <2>5
<1> QED
  BY <1>1, <1>10, <1>11, <1>12, TogetherAgain

\* A file above the limit is passed over.
LEMMA PassedOverKeepsInv ==
    ASSUME FilesInv, NEW r \in Uploaders, work[r].at = "upload",
           At(r, [work[r] EXCEPT !.todo = Tail(@)]),
           UNCHANGED <<sqlite, files, lastFile, bytes, writer>>
    PROVE  FilesInv'
<1> DEFINE w == [work[r] EXCEPT !.todo = Tail(@)]
<1>2. WorkShape(r) /\ UploadInv(r) /\ LockInv(r) /\ Pending(r) = DOMAIN work[r].rows
  BY DEF FilesInv, Pending
<1>3. w.at = "upload" /\ w.rows = work[r].rows /\ DOMAIN w = DOMAIN work[r]
  BY <1>2 DEF WorkShape
<1>4. /\ work'[r] = w
      /\ \A s \in Uploaders \ {r} : work'[s] = work[s] /\ Pending(s)' = Pending(s)
  BY OthersStay
<1>5. At(r, w)
  OBVIOUS
<1> HIDE DEF w
<1>6. Pending(r)' = Pending(r)
  BY <1>2, <1>3, <1>4 DEF Pending
<1>7. DOMAIN files' \subseteq 1..lastFile' /\ RowsHaveBytes' /\ lastFile' \in Nat
  BY DEF FilesInv, RowsHaveBytes
<1>8. WorkShape(r)' /\ UploadInv(r)' /\ LockInv(r)' /\ NamedInv(r)'
  <2>1. WorkShape(r)' /\ NamedInv(r)'
    BY <1>2, <1>3, <1>4 DEF WorkShape, NamedInv
  <2>2. \A f \in Pending(r)' : Saved(r, f)'
    BY <1>2, <1>3, <1>4, <1>6 DEF Saved, UploadInv
  <2>3. work'[r].at # "save"
    BY <1>3, <1>4
  <2>4. UploadInv(r)'
    BY <1>2, <1>4, <1>6, <2>2, <2>3 DEF UploadInv
  <2>5. LockInv(r)'
    BY <1>2, <1>6 DEF LockInv, TopIds
  <2> QED
    BY <2>1, <2>4, <2>5
<1>9. ASSUME NEW s \in Uploaders \ {r}
      PROVE  WorkShape(s)' /\ UploadInv(s)' /\ LockInv(s)' /\ NamedInv(s)'
  <2>1. UploadInv(s) /\ LockInv(s)
    BY DEF FilesInv
  <2>2. \A f \in Pending(s) :
             /\ f \in 1..lastFile' /\ f \notin DOMAIN files' /\ f \notin Pending(r)'
             /\ f \in DOMAIN bytes => f \in DOMAIN bytes' /\ bytes'[f] = bytes[f]
    BY <1>6, <2>1 DEF UploadInv
  <2>3. \A f \in 1..lastFile : (\A t \in Uploaders : f \notin Pending(t)) =>
             /\ f \in 1..lastFile' /\ f \notin Pending(r)'
             /\ f \in DOMAIN files' => f \in DOMAIN files /\ files'[f] = files[f]
             /\ f \in DOMAIN bytes' => f \in DOMAIN bytes /\ bytes'[f] = bytes[f]
    BY <1>6
  <2>4. WorkShape(s)' /\ UploadInv(s)' /\ NamedInv(s)'
    BY <1>5, <2>2, <2>3, OthersKeep
  <2>5. LockInv(s)'
    BY <1>4, <2>1 DEF LockInv, TopIds
  <2> QED
    BY <2>4, <2>5
<1> QED
  BY <1>5, <1>7, <1>8, <1>9, TogetherAgain

\* A row that is flushed takes the id above all that were handed out.
LEMMA FlushFileKeepsInv ==
    ASSUME FilesInv, NEW r \in Uploaders, FlushFile(r)
    PROVE  FilesInv'
<1> DEFINE c == Head(work[r].todo)
           id == lastFile + 1
           w == [work[r] EXCEPT !.at = "save", !.rows = Put(@, id, c)]
<1>1. CASE c = TooLarge
  <2>1. At(r, [work[r] EXCEPT !.todo = Tail(@)]) /\ UNCHANGED <<lastFile, writer>>
    BY <1>1 DEF FlushFile
  <2> QED
    BY <2>1, PassedOverKeepsInv DEF FlushFile
<1>2. CASE c # TooLarge
  <2>1. /\ MayWrite(r) /\ Writes(r) /\ At(r, w) /\ lastFile' = id
        /\ UNCHANGED <<sqlite, files, bytes>> /\ work[r].at = "upload"
    BY <1>2 DEF FlushFile, NextFile
  <2>2. /\ WorkShape(r) /\ UploadInv(r) /\ LockInv(r) /\ Pending(r) = DOMAIN work[r].rows
        /\ lastFile \in Nat /\ DOMAIN files \subseteq 1..lastFile
    BY <2>1 DEF FilesInv, Pending
  <2>3. w.at = "save" /\ w.rows = Put(work[r].rows, id, c) /\ DOMAIN w = DOMAIN work[r]
    BY <2>1, <2>2 DEF WorkShape
  <2>4. /\ work'[r] = w
        /\ \A s \in Uploaders \ {r} : work'[s] = work[s] /\ Pending(s)' = Pending(s)
    BY <2>1, OthersStay
  <2> HIDE DEF w, c
  <2>5. /\ Pending(r)' = Pending(r) \cup {id} /\ DOMAIN w.rows = Pending(r) \cup {id}
        /\ \A f \in Pending(r) : f # id => w.rows[f] = work[r].rows[f]
    <3>1. /\ DOMAIN w.rows = DOMAIN work[r].rows \cup {id}
          /\ \A f \in DOMAIN work[r].rows : f # id => w.rows[f] = work[r].rows[f]
      BY <2>3 DEF Put
    <3>2. Pending(r)' = DOMAIN w.rows
      BY <2>3, <2>4 DEF Pending
    <3> QED
      BY <2>2, <3>1, <3>2
  <2>6. id \notin 1..lastFile /\ id \in 1..lastFile' /\ 1..lastFile \subseteq 1..lastFile' /\ lastFile' \in Nat
    BY <2>1, <2>2
  <2>7. DOMAIN files' \subseteq 1..lastFile' /\ RowsHaveBytes'
    BY <2>1, <2>2, <2>6 DEF FilesInv, RowsHaveBytes
  <2>8. WorkShape(r)' /\ NamedInv(r)'
    BY <2>1, <2>2, <2>3, <2>4 DEF WorkShape, NamedInv
  <2>9. UploadInv(r)'
    <3>1. Pending(r)' \subseteq 1..lastFile' /\ Pending(r)' \cap DOMAIN files' = {}
      BY <2>1, <2>2, <2>5, <2>6 DEF UploadInv
    <3>2. \A s \in Uploaders \ {r} : Pending(r)' \cap Pending(s)' = {}
      <4>1. \A s \in Uploaders \ {r} : Pending(s) \subseteq 1..lastFile /\ Pending(r) \cap Pending(s) = {}
        BY <2>2 DEF FilesInv, UploadInv
      <4> QED
        BY <2>4, <2>5, <2>6, <4>1
    <3>3. \A f \in Pending(r)' : f <= id /\ (f # id => Saved(r, f)')
      <4>1. \A f \in Pending(r) : f \in 1..lastFile /\ Saved(r, f)
        BY <2>1, <2>2 DEF UploadInv
      <4>2. \A f \in Pending(r) : f <= id /\ Saved(r, f)'
        BY <2>1, <2>2, <2>4, <2>5, <2>6, <4>1 DEF Saved
      <4> QED
        BY <2>2, <2>5, <4>2
    <3>4. work'[r].at # "upload" /\ id \in Pending(r)'
      BY <2>3, <2>4, <2>5
    <3> QED
      BY <3>1, <3>2, <3>3, <3>4 DEF UploadInv
  <2>10. LockInv(r)'
    <3> SUFFICES ASSUME sqlite PROVE writer' = r /\ TopIds(r)'
      BY <2>1 DEF LockInv
    <3>1. \E base \in Nat : base <= lastFile /\ Pending(r) = (base + 1)..lastFile
      <4>1. CASE Pending(r) = {}
        <5>1. lastFile <= lastFile /\ Pending(r) = (lastFile + 1)..lastFile
          BY <2>2, <4>1
        <5> QED
          BY <2>2, <5>1
      <4>2. CASE Pending(r) # {}
        BY <2>2, <4>2 DEF LockInv, TopIds
      <4> QED
        BY <4>1, <4>2
    <3>2. PICK base \in Nat : base <= lastFile /\ Pending(r) = (base + 1)..lastFile
      BY <3>1
    <3>3. base <= lastFile' /\ Pending(r)' = (base + 1)..lastFile'
      BY <2>1, <2>2, <2>5, <3>2
    <3> QED
      BY <2>1, <3>3 DEF TopIds, Writes
  <2>11. ASSUME NEW s \in Uploaders \ {r}
         PROVE  WorkShape(s)' /\ UploadInv(s)' /\ LockInv(s)' /\ NamedInv(s)'
    <3>1. UploadInv(s) /\ LockInv(s)
      BY DEF FilesInv
    <3>2. \A f \in Pending(s) :
             /\ f \in 1..lastFile' /\ f \notin DOMAIN files' /\ f \notin Pending(r)'
             /\ f \in DOMAIN bytes => f \in DOMAIN bytes' /\ bytes'[f] = bytes[f]
      BY <2>1, <2>5, <2>6, <3>1 DEF UploadInv
    <3>3. \A f \in 1..lastFile : (\A t \in Uploaders : f \notin Pending(t)) =>
             /\ f \in 1..lastFile' /\ f \notin Pending(r)'
             /\ f \in DOMAIN files' => f \in DOMAIN files /\ files'[f] = files[f]
             /\ f \in DOMAIN bytes' => f \in DOMAIN bytes /\ bytes'[f] = bytes[f]
      BY <2>1, <2>5, <2>6
    <3>4. WorkShape(s)' /\ UploadInv(s)' /\ NamedInv(s)'
      BY <2>1, <3>2, <3>3, OthersKeep
    <3>5. LockInv(s)'
      <4> SUFFICES ASSUME sqlite, Pending(s) # {} PROVE FALSE
        BY <2>1, <2>4 DEF LockInv
      <4>1. writer = s
        BY <3>1 DEF LockInv
      <4> QED
        BY <2>1, <4>1, AttachmentsAssumption DEF MayWrite
    <3> QED
      BY <3>4, <3>5
  <2> QED
    BY <2>1, <2>6, <2>7, <2>8, <2>9, <2>10, <2>11, TogetherAgain
<1> QED
  BY <1>1, <1>2

-----------------------------------------------------------------------------
(* The specification.                                                      *)

LEMMA StutterKeepsInv == FilesInv /\ UNCHANGED attachmentVars => FilesInv'
BY DEF attachmentVars, FilesInv, RowsHaveBytes, WorkShape, UploadInv, LockInv, NamedInv, Pending, Saved, TopIds

\* Whatever fails between the database and the directory, whichever requests overlap
\* and however many files they bring: a committed row has its own bytes, and a
\* download has those of the row it looked up, or none once that was deleted.
THEOREM RowsKeepTheirBytes == AttachmentsSpec => []FilesWhole
<1>1. FilesInv /\ [AttachmentsNext]_attachmentVars => FilesInv'
  <2> SUFFICES ASSUME FilesInv, AttachmentsNext PROVE FilesInv'
    BY StutterKeepsInv
  <2>1. PICK r \in Uploaders :
           \/ StartUpload(r) \/ FlushFile(r) \/ SaveBytes(r) \/ CommitUpload(r) \/ FailUpload(r)
           \/ StartDelete(r) \/ CommitDelete(r) \/ Unlink(r) \/ Crash(r)
           \/ StartDownload(r) \/ LoadBytes(r)
    BY DEF AttachmentsNext
  <2>2. CASE StartUpload(r) \/ StartDelete(r) \/ StartDownload(r) \/ LoadBytes(r) \/ Crash(r)
    BY <2>2, QuietKeepsInv
  <2>3. CASE FlushFile(r)
    BY <2>3, FlushFileKeepsInv
  <2>4. CASE SaveBytes(r)
    BY <2>4, SaveBytesKeepsInv
  <2>5. CASE CommitUpload(r)
    BY <2>5, CommitUploadKeepsInv
  <2>6. CASE FailUpload(r)
    BY <2>6, FailUploadKeepsInv
  <2>7. CASE CommitDelete(r)
    BY <2>7, CommitDeleteKeepsInv
  <2>8. CASE Unlink(r)
    BY <2>8, UnlinkKeepsInv
  <2> QED
    BY <2>1, <2>2, <2>3, <2>4, <2>5, <2>6, <2>7, <2>8
<1> QED
  BY <1>1, FilesAtFirst, InvImpliesWhole, PTL DEF AttachmentsSpec

-----------------------------------------------------------------------------
(* Labels.                                                                 *)

\* What a request will put on its task: it saw the label, or the label has gone since.
Listing(q, top, there) ==
    /\ q.kind = "attach" => q.label \in 1..top /\ q.label \in q.saw
    /\ q.kind = "replace" =>
         /\ \E m \in Nat : DOMAIN q.list \subseteq 1..m
         /\ \A n \in DOMAIN q.list : q.list[n] \in 1..top /\ (q.list[n] \in q.saw \/ q.list[n] \notin there)

Listed(q) == Listing(q, issued, DOMAIN labels)
LabelsInv ==
    /\ issued \in Nat /\ issuedRow \in Nat /\ DOMAIN labels \subseteq 1..issued
    /\ \A i \in DOMAIN labelRows : labelRows[i].label \in 1..issued
    /\ DOMAIN asked = Askers /\ \A r \in Askers : Listed(asked[r])

\* A label that u comes to see, and had not made, is on a task it was not on before.
LEMMA SightComesByRows ==
    ASSUME NEW u \in People, NEW l, l \in VisibleLabels(u)', l \notin VisibleLabels(u),
           level'[u] = level[u], l \in DOMAIN labels, labels'[l] = labels[l]
    PROVE  \E i \in DOMAIN labelRows' : /\ labelRows'[i].label = l
                                        /\ i \notin DOMAIN labelRows \/ labelRows'[i] # labelRows[i]
<1>1. PICK t \in LabelledTasks : level'[u][t] # "none" /\ l \in On(t)'
  BY DEF VisibleLabels
<1>2. l \notin On(t)
  BY <1>1 DEF VisibleLabels
<1>3. PICK i \in DOMAIN labelRows' : labelRows'[i].task = t /\ labelRows'[i].label = l
  BY <1>1 DEF On, RowsOn
<1>4. i \notin DOMAIN labelRows \/ labelRows'[i] # labelRows[i]
  BY <1>2, <1>3 DEF On, RowsOn
<1> QED
  BY <1>3, <1>4

LEMMA RowsRewritten ==
    ASSUME NEW t, NEW list, NEW fresh, NEW gone, Rewrite(t, list, fresh, gone), issuedRow \in Int,
           fresh \subseteq Int
    PROVE  \A i \in DOMAIN labelRows' :
             \/ i \in DOMAIN labelRows /\ labelRows'[i] = labelRows[i]
             \/ \E n \in fresh : labelRows'[i].label = list[n]
<1> DEFINE new == {issuedRow + n : n \in fresh}
<1>1. labelRows' = [i \in (DOMAIN labelRows \ gone) \cup new |->
                      IF i \in new THEN [task |-> t, label |-> list[i - issuedRow]] ELSE labelRows[i]]
  BY DEF Rewrite
<1>2. ASSUME NEW i \in new PROVE \E n \in fresh : labelRows'[i].label = list[n]
  <2>1. PICK n \in fresh : i = issuedRow + n
    OBVIOUS
  <2>2. i - issuedRow = n
    BY <2>1
  <2>3. labelRows'[i] = [task |-> t, label |-> list[i - issuedRow]]
    BY <1>1
  <2> QED
    BY <2>2, <2>3
<1> HIDE DEF new
<1>3. ASSUME NEW i \in DOMAIN labelRows \ new, i \in DOMAIN labelRows'
      PROVE  labelRows'[i] = labelRows[i]
  BY <1>1, <1>3
<1>4. DOMAIN labelRows' \subseteq DOMAIN labelRows \cup new
  BY <1>1
<1> QED
  BY <1>2, <1>3, <1>4

LEMMA NextRowId ==
    ASSUME NEW t, NEW list, NEW fresh, NEW gone, Rewrite(t, list, fresh, gone), issuedRow \in Nat,
           NEW m \in Nat, fresh \subseteq 1..m
    PROVE  issuedRow' \in Nat
<1>1. PICK S : S = {issuedRow} \cup {issuedRow + n : n \in fresh}
  OBVIOUS
<1>2. issuedRow + m \in Nat /\ S \in SUBSET (0..(issuedRow + m)) /\ S # {}
  BY <1>1
<1>3. Max(S) \in S
  BY <1>2, BoundedMax
<1>4. issuedRow' = Max(S)
  BY <1>1 DEF Rewrite
<1>5. S \subseteq Nat
  BY <1>2
<1> QED
  BY <1>3, <1>4, <1>5

LEMMA LabelsAtFirst == LabelsInit => LabelsInv
<1> SUFFICES ASSUME LabelsInit PROVE LabelsInv
  OBVIOUS
<1>1. issued = 0 /\ issuedRow = 0 /\ DOMAIN labels = {} /\ DOMAIN labelRows = {}
  BY DEF LabelsInit
<1>2. NotAsked.kind = "none"
  BY DEF NotAsked
<1>3. DOMAIN asked = Askers /\ \A r \in Askers : Listed(asked[r])
  BY <1>2 DEF LabelsInit, Listed, Listing
<1> QED
  BY <1>1, <1>3 DEF LabelsInv

\* A request that asks lists what it saw.
LEMMA AskedFits ==
    ASSUME LabelsInv, NEW r \in Askers, Ask(r)
    PROVE  /\ UNCHANGED <<labels, issued, labelRows, issuedRow, level>>
           /\ \E q : asked' = [asked EXCEPT ![r] = q] /\ Listed(q)
<1>1. PICK u \in People :
        \/ \E l \in 1..issued : \/ AskDelete(r, u, l)
                              \/ \E t \in LabelledTasks : AskAttach(r, u, t, l) \/ AskDetach(r, u, t, l)
        \/ \E n \in 0..MaxListed : \E list \in [1..n -> 1..issued] :
             \E t \in LabelledTasks : AskReplace(r, u, t, list)
  BY DEF Ask
<1>2. ASSUME NEW l \in 1..issued, AskDelete(r, u, l)
      PROVE  \E q : Asked(r, q) /\ Listed(q)
  <2>1. PICK q : q = [kind |-> "delete", label |-> l, saw |-> {}]
    OBVIOUS
  <2>2. Asked(r, q) /\ q.kind = "delete"
    BY <1>2, <2>1 DEF AskDelete
  <2> QED
    BY <2>2 DEF Listed, Listing
<1>3. ASSUME NEW l \in 1..issued, NEW t \in LabelledTasks, AskAttach(r, u, t, l)
      PROVE  \E q : Asked(r, q) /\ Listed(q)
  <2>1. PICK q : q = [kind |-> "attach", task |-> t, label |-> l, saw |-> VisibleLabels(u)]
    OBVIOUS
  <2>2. Asked(r, q) /\ l \in VisibleLabels(u)
    BY <1>3, <2>1 DEF AskAttach
  <2>3. q.kind = "attach" /\ q.label = l /\ q.saw = VisibleLabels(u)
    BY <2>1
  <2>4. Listed(q)
    BY <2>2, <2>3 DEF Listed, Listing
  <2> QED
    BY <2>2, <2>4
<1>4. ASSUME NEW l \in 1..issued, NEW t \in LabelledTasks, AskDetach(r, u, t, l)
      PROVE  \E q : Asked(r, q) /\ Listed(q)
  <2>1. PICK q : q = [kind |-> "detach", row |-> FirstRow(t, l), saw |-> {}]
    OBVIOUS
  <2>2. Asked(r, q) /\ q.kind = "detach"
    BY <1>4, <2>1 DEF AskDetach
  <2> QED
    BY <2>2 DEF Listed, Listing
<1>5. ASSUME NEW n \in 0..MaxListed, NEW list \in [1..n -> 1..issued], NEW t \in LabelledTasks,
             AskReplace(r, u, t, list)
      PROVE  \E q : Asked(r, q) /\ Listed(q)
  <2>1. PICK q : q = [kind |-> "replace", task |-> t, list |-> list, rows |-> RowsOn(t), saw |-> VisibleLabels(u)]
    OBVIOUS
  <2>2. Asked(r, q) /\ MayLabel(u, t) /\ \A i \in DOMAIN list : MayList(u, t, list[i])
    BY <1>5, <2>1 DEF AskReplace
  <2>3. q.kind = "replace" /\ q.list = list /\ q.saw = VisibleLabels(u)
    BY <2>1
  <2>4. ASSUME NEW i \in DOMAIN list, list[i] \in DOMAIN labels PROVE list[i] \in VisibleLabels(u)
    <3>1. list[i] \in On(t) \/ list[i] \in VisibleLabels(u)
      BY <2>2 DEF MayList
    <3>2. level[u][t] # "none"
      BY <2>2 DEF MayLabel
    <3> QED
      BY <2>4, <3>1, <3>2 DEF VisibleLabels
  <2>5. n \in Nat /\ DOMAIN list \subseteq 1..n /\ \A i \in DOMAIN list : list[i] \in 1..issued
    BY LabelsAssumption
  <2>6. Listed(q)
    BY <2>3, <2>4, <2>5 DEF Listed, Listing
  <2> QED
    BY <2>2, <2>6
<1>6. PICK q : Asked(r, q) /\ Listed(q)
  BY <1>1, <1>2, <1>3, <1>4, <1>5
<1>7. UNCHANGED <<labels, issued, labelRows, issuedRow, level>> /\ asked' = [asked EXCEPT ![r] = q]
  BY <1>6 DEF Asked
<1> QED
  BY <1>6, <1>7

\* What a step may do to labels and to the requests that wait, for the invariant to hold.
LEMMA StillListed ==
    ASSUME NEW p, NEW top \in Nat, NEW top2 \in Nat, top <= top2, NEW there, NEW there2,
           \A l \in there2 \ there : l > top, Listing(p, top, there)
    PROVE  Listing(p, top2, there2)
<1>1. p.kind = "attach" => p.label \in 1..top2 /\ p.label \in p.saw
  BY DEF Listing
<1>2. ASSUME p.kind = "replace", NEW n \in DOMAIN p.list
      PROVE  p.list[n] \in 1..top2 /\ (p.list[n] \in p.saw \/ p.list[n] \notin there2)
  <2>1. p.list[n] \in 1..top /\ (p.list[n] \in p.saw \/ p.list[n] \notin there)
    BY <1>2 DEF Listing
  <2> QED
    BY <2>1
<1>3. p.kind = "replace" => \E m \in Nat : DOMAIN p.list \subseteq 1..m
  BY DEF Listing
<1> QED
  BY <1>1, <1>2, <1>3 DEF Listing

LEMMA InvAfter ==
    ASSUME LabelsInv, issued' \in Nat, issued' >= issued, issuedRow' \in Nat,
           DOMAIN labels' \subseteq 1..issued',
           \A l \in DOMAIN labels' \ DOMAIN labels : l > issued,
           \A i \in DOMAIN labelRows' : labelRows'[i].label \in 1..issued,
           NEW r, NEW q, Listed(q), asked' = [asked EXCEPT ![r] = q] \/ asked' = asked
    PROVE  LabelsInv'
<1>1. DOMAIN asked = Askers /\ (\A o \in Askers : Listed(asked[o])) /\ issued \in Nat
  BY DEF LabelsInv
<1>2. DOMAIN asked' = Askers /\ \A o \in Askers : asked'[o] = q \/ asked'[o] = asked[o]
  BY <1>1
<1>3. ASSUME NEW p, Listed(p) PROVE Listing(p, issued', DOMAIN labels')
  BY <1>1, <1>3, StillListed DEF Listed
<1>4. \A o \in Askers : Listing(asked'[o], issued', DOMAIN labels')
  BY <1>1, <1>2, <1>3
<1>5. \A i \in DOMAIN labelRows' : labelRows'[i].label \in 1..issued'
  BY <1>1
<1> QED
  BY <1>2, <1>4, <1>5 DEF LabelsInv, Listed

LEMMA NothingListed == Listed(NotAsked)
BY DEF NotAsked, Listed, Listing


\* What an answer writes: rows for labels that its request saw, or that have gone since.
Written(r) ==
    \A i \in DOMAIN labelRows' :
      \/ i \in DOMAIN labelRows /\ labelRows'[i] = labelRows[i]
      \/ /\ labelRows'[i].label \in 1..issued
         /\ labelRows'[i].label \in asked[r].saw \/ labelRows'[i].label \notin DOMAIN labels

LEMMA AnswerWrites ==
    ASSUME LabelsInv, NEW r \in Askers, AnswerLabels(r)
    PROVE  /\ Answered(r) /\ asked[r] # NotAsked /\ Written(r) /\ issuedRow' \in Nat
           /\ DOMAIN labels' \subseteq DOMAIN labels /\ \A l \in DOMAIN labels' : labels'[l] = labels[l]
<1> USE DEF AnswerLabels
<1>1. issued \in Nat /\ issuedRow \in Nat /\ Listing(asked[r], issued, DOMAIN labels)
  BY DEF LabelsInv, Listed
<1>2. NotAsked.kind = "none"
  BY DEF NotAsked
<1>3. CASE DeleteLabel(r)
  BY <1>1, <1>2, <1>3 DEF DeleteLabel, Written
<1>4. CASE DetachLabel(r)
  BY <1>1, <1>2, <1>4 DEF DetachLabel, Written
<1>5. CASE AttachLabel(r)
  <2>1. /\ asked[r].kind = "attach" /\ Answered(r) /\ labels' = labels
        /\ Rewrite(asked[r].task, <<asked[r].label>>, {1}, {})
    BY <1>5 DEF AttachLabel
  <2>2. issuedRow' \in Nat
    BY <1>1, <2>1, NextRowId, {1} \subseteq 1..1, 1 \in Nat
  <2>3. \A i \in DOMAIN labelRows' :
          \/ i \in DOMAIN labelRows /\ labelRows'[i] = labelRows[i]
          \/ \E n \in {1} : labelRows'[i].label = <<asked[r].label>>[n]
    BY <1>1, <2>1, RowsRewritten, {1} \subseteq Int, issuedRow \in Int
  <2>4. \A n \in {1} : <<asked[r].label>>[n] = asked[r].label
    OBVIOUS
  <2>5. Written(r)
    BY <1>1, <2>1, <2>3, <2>4 DEF Written, Listing
  <2> QED
    BY <1>2, <2>1, <2>2, <2>5
<1>6. CASE ReplaceLabels(r)
  <2>1. PICK list : list = asked[r].list
    OBVIOUS
  <2>2. asked[r].kind = "replace" /\ Answered(r) /\ labels' = labels
    BY <1>6 DEF ReplaceLabels
  <2>3. PICK fresh, gone : fresh \subseteq DOMAIN list /\ Rewrite(asked[r].task, list, fresh, gone)
    <3>1. PICK known : Rewrite(asked[r].task, list,
                               {n \in DOMAIN list : list[n] \notin {labelRows[i].label : i \in known}},
                               {i \in LastRows(known) : labelRows[i].label \notin ToSet(list)})
      BY <1>6, <2>1 DEF ReplaceLabels
    <3>2. {n \in DOMAIN list : list[n] \notin {labelRows[i].label : i \in known}} \subseteq DOMAIN list
      OBVIOUS
    <3> QED
      BY <3>1, <3>2
  <2>4. PICK m \in Nat : DOMAIN list \subseteq 1..m
    BY <1>1, <2>1, <2>2 DEF Listing
  <2>5. fresh \subseteq 1..m /\ fresh \subseteq Int /\ issuedRow \in Int
    BY <1>1, <2>3, <2>4
  <2>6. issuedRow' \in Nat
    BY <1>1, <2>3, <2>5, NextRowId
  <2>7. \A i \in DOMAIN labelRows' :
          \/ i \in DOMAIN labelRows /\ labelRows'[i] = labelRows[i]
          \/ \E n \in fresh : labelRows'[i].label = list[n]
    BY <2>3, <2>5, RowsRewritten
  <2>8. \A n \in fresh : list[n] \in 1..issued /\ (list[n] \in asked[r].saw \/ list[n] \notin DOMAIN labels)
    BY <1>1, <2>1, <2>2, <2>3 DEF Listing
  <2>9. Written(r)
    BY <2>7, <2>8 DEF Written
  <2> QED
    BY <1>2, <2>2, <2>6, <2>9
<1> QED
  BY <1>3, <1>4, <1>5, <1>6

LEMMA CreationNumbers ==
    ASSUME LabelsInv, NEW u, CreateLabel(u)
    PROVE  /\ issued' = issued + 1 /\ issued' \in Nat
           /\ DOMAIN labels' = DOMAIN labels \cup {issued + 1} /\ labels'[issued + 1] = u
           /\ \A l \in DOMAIN labels : labels'[l] = labels[l]
           /\ UNCHANGED <<labelRows, issuedRow, level, asked>>
<1>1. issued \in Nat /\ DOMAIN labels \subseteq 1..issued
  BY DEF LabelsInv
<1> QED
  BY <1>1 DEF CreateLabel, NextLabel

LEMMA StepKeepsLabels == LabelsInv /\ [LabelsNext]_labelVars => LabelsInv'
<1> SUFFICES ASSUME LabelsInv, [LabelsNext]_labelVars PROVE LabelsInv'
  OBVIOUS
<1>1. /\ issued \in Nat /\ issuedRow \in Nat /\ DOMAIN labels \subseteq 1..issued
      /\ \A i \in DOMAIN labelRows : labelRows[i].label \in 1..issued
  BY DEF LabelsInv
<1>2. ASSUME NEW u \in People, CreateLabel(u) PROVE LabelsInv'
  <2>1. /\ issued' \in Nat /\ issued' >= issued /\ issuedRow' \in Nat
        /\ DOMAIN labels' \subseteq 1..issued' /\ \A l \in DOMAIN labels' \ DOMAIN labels : l > issued
        /\ \A i \in DOMAIN labelRows' : labelRows'[i].label \in 1..issued
    BY <1>1, <1>2, CreationNumbers
  <2>2. asked' = asked
    BY <1>2 DEF CreateLabel
  <2> QED
    BY <2>1, <2>2, NothingListed, InvAfter
<1>3. ASSUME NEW u \in People, NEW t \in LabelledTasks, Regrant(u, t) PROVE LabelsInv'
  BY <1>3 DEF Regrant, LabelsInv, Listed
<1>4. ASSUME NEW r \in Askers, Ask(r) PROVE LabelsInv'
  <2>1. PICK q : asked' = [asked EXCEPT ![r] = q] /\ Listed(q)
    BY <1>4, AskedFits
  <2>2. UNCHANGED <<labels, issued, labelRows, issuedRow, level>>
    BY <1>4, AskedFits
  <2>3. /\ issued' \in Nat /\ issued' >= issued /\ issuedRow' \in Nat
        /\ DOMAIN labels' \subseteq 1..issued' /\ \A l \in DOMAIN labels' \ DOMAIN labels : l > issued
        /\ \A i \in DOMAIN labelRows' : labelRows'[i].label \in 1..issued
    BY <1>1, <2>2
  <2> QED
    BY <2>1, <2>3, InvAfter
<1>5. ASSUME NEW r \in Askers, AnswerLabels(r) PROVE LabelsInv'
  <2>1. /\ Answered(r) /\ Written(r) /\ issuedRow' \in Nat
        /\ DOMAIN labels' \subseteq DOMAIN labels
    BY <1>5, AnswerWrites
  <2>2. asked' = [asked EXCEPT ![r] = NotAsked] /\ issued' = issued
    BY <2>1 DEF Answered
  <2>3. /\ issued' \in Nat /\ issued' >= issued /\ issuedRow' \in Nat
        /\ DOMAIN labels' \subseteq 1..issued' /\ \A l \in DOMAIN labels' \ DOMAIN labels : l > issued
    BY <1>1, <2>1, <2>2
  <2>4. \A i \in DOMAIN labelRows' : labelRows'[i].label \in 1..issued
    BY <1>1, <2>1 DEF Written
  <2> QED
    BY <2>2, <2>3, <2>4, NothingListed, InvAfter
<1>6. ASSUME UNCHANGED labelVars PROVE LabelsInv'
  BY <1>6 DEF labelVars, LabelsInv, Listed
<1> QED
  BY <1>2, <1>3, <1>4, <1>5, <1>6 DEF LabelsNext

LEMMA SightOfCreated ==
    ASSUME LabelsInv, NEW v \in People, CreateLabel(v), NEW u \in People, NEW l \in VisibleLabels(u)' \ VisibleLabels(u)
    PROVE  l \notin DOMAIN labels /\ labels'[l] = u
<1>1. /\ DOMAIN labels' = DOMAIN labels \cup {issued + 1} /\ labels'[issued + 1] = v
      /\ \A k \in DOMAIN labels : labels'[k] = labels[k]
      /\ UNCHANGED <<labelRows, issuedRow, level, asked>>
  BY CreationNumbers
<1>2. issued \in Nat /\ DOMAIN labels \subseteq 1..issued /\ \A i \in DOMAIN labelRows : labelRows[i].label \in 1..issued
  BY DEF LabelsInv
<1>3. \A t \in LabelledTasks : On(t)' = On(t) /\ issued + 1 \notin On(t)
  BY <1>1, <1>2 DEF On, RowsOn
<1>4. l \in DOMAIN labels' /\ (labels'[l] = u \/ \E t \in LabelledTasks : level'[u][t] # "none" /\ l \in On(t)')
  BY DEF VisibleLabels
<1>5. l \notin DOMAIN labels
  BY <1>1, <1>3, <1>4 DEF VisibleLabels
<1>6. l = issued + 1
  BY <1>1, <1>4, <1>5
<1> QED
  BY <1>3, <1>4, <1>5, <1>6

LEMMA SightOfWritten ==
    ASSUME LabelsInv, NEW r \in Askers, AnswerLabels(r), NEW u \in People, NEW l \in VisibleLabels(u)' \ VisibleLabels(u)
    PROVE  Finishes(r) /\ l \in asked[r].saw
<1>1. /\ Answered(r) /\ asked[r] # NotAsked /\ Written(r)
      /\ DOMAIN labels' \subseteq DOMAIN labels /\ \A k \in DOMAIN labels' : labels'[k] = labels[k]
  BY AnswerWrites
<1>2. l \in DOMAIN labels' /\ l \in DOMAIN labels /\ labels'[l] = labels[l] /\ level'[u] = level[u]
  BY <1>1 DEF VisibleLabels, Answered
<1>3. PICK i \in DOMAIN labelRows' : /\ labelRows'[i].label = l
                                     /\ i \notin DOMAIN labelRows \/ labelRows'[i] # labelRows[i]
  <2>1. l \in VisibleLabels(u)' /\ l \notin VisibleLabels(u)
    OBVIOUS
  <2> QED
    BY <1>2, <2>1, SightComesByRows
<1>4. l \in asked[r].saw
  BY <1>1, <1>2, <1>3 DEF Written
<1>5. asked'[r] = NotAsked
  BY <1>1 DEF Answered, LabelsInv
<1> QED
  BY <1>1, <1>4, <1>5 DEF Finishes

\* "Visible is usable": a label comes into somebody's sight only because they made it,
\* because they were given a task, or because a request put it on a task whose user
\* saw it when they asked; for any number of people, tasks and overlapping requests.
THEOREM LabelsShownBySeers == LabelsSpec => LabelsSpreadBySight
<1> DEFINE Spread == \A u \in People : \A l \in VisibleLabels(u)' \ VisibleLabels(u) :
                       \/ l \notin DOMAIN labels /\ labels'[l] = u
                       \/ level'[u] # level[u]
                       \/ \E r \in Askers : Finishes(r) /\ l \in asked[r].saw
<1>1. ASSUME LabelsInv, LabelsNext PROVE Spread
  <2> SUFFICES ASSUME NEW u \in People, NEW l \in VisibleLabels(u)' \ VisibleLabels(u), level'[u] = level[u]
               PROVE  \/ l \notin DOMAIN labels /\ labels'[l] = u
                      \/ \E r \in Askers : Finishes(r) /\ l \in asked[r].saw
    OBVIOUS
  <2>1. ASSUME NEW v \in People, CreateLabel(v) PROVE l \notin DOMAIN labels /\ labels'[l] = u
    BY <1>1, <2>1, SightOfCreated
  <2>2. ASSUME UNCHANGED <<labels, labelRows>> PROVE FALSE
    BY <2>2 DEF VisibleLabels, On, RowsOn
  <2>3. ASSUME NEW v \in People, NEW t \in LabelledTasks, Regrant(v, t) PROVE FALSE
    BY <2>2, <2>3 DEF Regrant
  <2>4. ASSUME NEW r \in Askers, Ask(r) PROVE FALSE
    <3>1. UNCHANGED <<labels, issued, labelRows, issuedRow, level>>
      BY <1>1, <2>4, AskedFits
    <3> QED
      BY <2>2, <3>1
  <2>5. ASSUME NEW r \in Askers, AnswerLabels(r) PROVE Finishes(r) /\ l \in asked[r].saw
    BY <1>1, <2>5, SightOfWritten
  <2> QED
    BY <1>1, <2>1, <2>3, <2>4, <2>5 DEF LabelsNext
<1>2. LabelsInv /\ [LabelsNext]_labelVars => [Spread]_labelVars
  BY <1>1
<1> QED
  BY <1>2, LabelsAtFirst, StepKeepsLabels, PTL DEF LabelsSpec, LabelsSpreadBySight
=============================================================================
