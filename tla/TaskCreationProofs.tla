------------------------- MODULE TaskCreationProofs -------------------------
(***************************************************************************)
(* Proofs about TaskCreation: for any number of requests, on either        *)
(* engine, it implements TaskLedger, and under SQLite no creation fails    *)
(* for want of an index.                                                   *)
(***************************************************************************)
EXTENDS TaskCreation, FiniteSetTheorems, WellFoundedInduction, TLAPS

Stages == {"new", "numbering", "inserting", "checking", "created", "refused", "failed"}

TypeOK ==
    /\ sqlite \in BOOLEAN
    /\ stage \in [Requests -> Stages]
    /\ attempt \in [Requests -> Nat]
    /\ wanted \in [Requests -> Nat]
    /\ snapshot \in [Requests -> Nat]
    /\ holder \in [Index -> Requests \cup {NoRequest}]
    /\ durable \in SUBSET Requests
    /\ writer \in Requests \cup {NoRequest}

\* The requests that have not written a row.
Unwritten == {r \in Requests : stage[r] \in {"new", "numbering", "inserting"}}

\* No index is above this: a request writes at most one row, the index after
\* the highest or one that it was given.
Reach == MaxIndex - Cardinality(Unwritten)

WithinReach ==
    /\ \A i \in Index : holder[i] # NoRequest => i <= Reach
    /\ \A r \in Unwritten : snapshot[r] <= Reach
    /\ \A r \in Requests : stage[r] = "inserting" => wanted[r] > 0 /\ wanted[r] <= Reach + 1

\* A row is there from its insert on until it is rolled back, or the task leaves.
RowsHeld ==
    /\ \A i, j \in Index : holder[i] = holder[j] /\ holder[i] # NoRequest => i = j
    /\ \A i \in Index : holder[i] \notin Unwritten
    /\ \A r \in Requests : stage[r] = "checking" \/ r \in durable => \E i \in Index : holder[i] = r
    /\ ~sqlite => \A r \in durable : stage[r] = "created"

\* Under SQLite a row that is not committed is the lock holder's, and a creation that
\* has collided holds the lock until it has a row.
LockHeld ==
    sqlite => /\ \A i \in Index : holder[i] \in durable \cup {NoRequest, writer}
              /\ \A r \in Requests :
                   /\ attempt[r] <= 1
                   /\ attempt[r] > 0 /\ r \in Unwritten => writer = r
                   /\ attempt[r] > 0 /\ stage[r] = "inserting" => holder[wanted[r]] = NoRequest

Inv == TypeOK /\ WithinReach /\ RowsHeld /\ LockHeld

-----------------------------------------------------------------------------
(* Indices.                                                                *)

\* Max is what it says, for a set of naturals with a bound.
LEMMA BoundedMax ==
    ASSUME NEW n \in Nat, NEW S \in SUBSET (0..n), S # {}
    PROVE  Max(S) \in S /\ \A x \in S : x <= Max(S)
<1> DEFINE T == {n - x : x \in S}
           R == OpToRel(<, Nat)
<1>1. T \subseteq Nat /\ T # {}
  <2>1. \A x \in S : n - x \in Nat
    OBVIOUS
  <2> QED
    BY <2>1
<1>2. \E m \in T : \A y \in T : ~(<<y, m>> \in R)
  <2> HIDE DEF T, R
  <2>1. IsWellFoundedOn(R, Nat)
    BY NatLessThanWellFounded DEF R
  <2> QED
    BY <1>1, <2>1, WFMin
<1>3. PICK m \in T : \A y \in T : ~(y < m)
  BY <1>1, <1>2 DEF OpToRel
<1>4. PICK x \in S : m = n - x
  OBVIOUS
<1>5. \A y \in S : y <= x
  BY <1>3, <1>4
<1> QED
  BY <1>5 DEF Max

\* The index of a set of rows that has the highest one.
LEMMA HighestOf ==
    ASSUME NEW S \in SUBSET Index
    PROVE  /\ Max({0} \cup S) \in {0} \cup S
           /\ \A i \in S : i <= Max({0} \cup S)
<1> DEFINE Z == {0} \cup S
<1>1. Z \in SUBSET (0..MaxIndex) /\ Z # {} /\ MaxIndex \in Nat
  BY IndexAssumption DEF Index
<1>2. Max(Z) \in Z /\ \A x \in Z : x <= Max(Z)
  <2> HIDE DEF Z
  <2> QED
    BY <1>1, BoundedMax
<1> QED
  BY <1>2

LEMMA ReachType ==
    /\ Reach \in 0..MaxIndex
    /\ \A r \in Unwritten : Reach < MaxIndex
    /\ \A p \in Preferred \cup {0} : p <= Reach
<1>1. Unwritten \in SUBSET Requests
  BY DEF Unwritten
<1>2. IsFiniteSet(Unwritten) /\ Cardinality(Unwritten) <= Cardinality(Requests)
  BY <1>1, FS_Subset, IndexAssumption
<1>3. Cardinality(Unwritten) \in Nat /\ Cardinality(Requests) \in Nat
  BY <1>2, FS_CardinalityType, IndexAssumption
<1>4. \A r \in Unwritten : Cardinality(Unwritten) # 0
  BY <1>2, FS_EmptySet
<1> QED
  BY <1>2, <1>3, <1>4, IndexAssumption DEF Reach

\* As requests write their rows, the reach grows.
LEMMA ReachGrows ==
    ASSUME Unwritten' \subseteq Unwritten
    PROVE  /\ Reach' \in Int /\ Reach <= Reach'
           /\ \A r \in Unwritten : r \notin Unwritten' => Reach + 1 <= Reach'
<1>1. Unwritten \in SUBSET Requests
  BY DEF Unwritten
<1>2. IsFiniteSet(Unwritten)
  BY <1>1, FS_Subset, IndexAssumption
<1>3. IsFiniteSet(Unwritten') /\ Cardinality(Unwritten') <= Cardinality(Unwritten)
  BY <1>2, FS_Subset
<1>4. Cardinality(Unwritten) \in Nat /\ Cardinality(Unwritten') \in Nat
  BY <1>2, <1>3, FS_CardinalityType
<1>5. \A r \in Unwritten : r \notin Unwritten' => Cardinality(Unwritten') # Cardinality(Unwritten)
  BY <1>2, FS_Subset
<1> QED
  BY <1>3, <1>4, <1>5, IndexAssumption DEF Reach

LEMMA HighestWithinReach ==
    ASSUME TypeOK, WithinReach
    PROVE  /\ HighestIndex \in Nat /\ HighestIndex <= Reach
           /\ \A i \in Index : holder[i] \in durable => i <= HighestIndex
<1> DEFINE S == {i \in Index : holder[i] \in durable}
<1>1. S \in SUBSET Index
  OBVIOUS
<1>2. /\ Max({0} \cup S) \in {0} \cup S
      /\ \A i \in S : i <= Max({0} \cup S)
  <2> HIDE DEF S
  <2> QED
    BY <1>1, HighestOf
<1>3. \A i \in S : i <= Reach /\ i \in Nat
  BY RequestsAssumption DEF WithinReach, TypeOK, Index
<1>4. HighestIndex = Max({0} \cup S)
  BY DEF HighestIndex
<1>5. Reach \in Nat /\ 0 <= Reach
  BY ReachType
<1> QED
  BY <1>2, <1>3, <1>4, <1>5

\* The one index that a request has in rows h.
LEMMA OneIndex ==
    ASSUME NEW h, NEW r, NEW i \in Index, h[i] = r,
           \A j \in Index : h[j] = r => j = i
    PROVE  Max({0} \cup {j \in Index : h[j] = r}) = i
<1> DEFINE S == {j \in Index : h[j] = r}
<1>1. S = {i}
  OBVIOUS
<1>2. Max({0} \cup S) \in {0, i} /\ i <= Max({0} \cup S)
  <2>1. S \in SUBSET Index
    OBVIOUS
  <2> HIDE DEF S
  <2> QED
    BY <1>1, <2>1, HighestOf
<1>3. i > 0 /\ i \in Nat
  BY DEF Index
<1> QED
  BY <1>2, <1>3

-----------------------------------------------------------------------------
(* Every step keeps the invariant.                                         *)

LEMMA AtFirst == Init => Inv
<1> SUFFICES ASSUME Init PROVE Inv
  OBVIOUS
<1>1. TypeOK
  BY DEF Init, TypeOK, Stages
<1>2. WithinReach
  <2>1. Reach \in Nat
    BY ReachType, IndexAssumption
  <2> QED
    BY <2>1 DEF Init, WithinReach, Unwritten
<1>3. RowsHeld
  BY RequestsAssumption DEF Init, RowsHeld, Unwritten
<1>4. LockHeld
  BY DEF Init, LockHeld
<1> QED
  BY <1>1, <1>2, <1>3, <1>4 DEF Inv

\* Requests that are under way give up, and roll back what they have not committed.
LEMMA AbandonKeeps ==
    ASSUME Inv, NEW R \in SUBSET Requests, \A r \in R : stage[r] \in Running,
           NEW outcome \in {"refused", "failed"}, Abandon(R, outcome),
           UNCHANGED <<sqlite, wanted, snapshot, durable>>,
           attempt' \in [Requests -> Nat],
           \A r \in Requests : attempt'[r] = attempt[r] \/ (r \in R /\ (sqlite => attempt'[r] <= 1))
    PROVE  Inv'
<1> USE DEF Inv
<1>1. /\ stage' \in [Requests -> Stages]
      /\ \A r \in Requests : stage'[r] = IF r \in R THEN outcome ELSE stage[r]
  BY DEF Abandon, TypeOK, Stages
<1>2. \A i \in Index : \/ holder'[i] = holder[i] /\ (holder[i] \in R => holder[i] \in durable)
                       \/ holder'[i] = NoRequest /\ holder[i] \in R \ durable
  BY DEF Abandon, Kept
<1>3. holder' \in [Index -> Requests \cup {NoRequest}]
  BY DEF Abandon, Kept, TypeOK
<1>4. writer' = NoRequest \/ (writer' = writer /\ writer \notin R)
  BY DEF Abandon, Unlocked
<1>5. TypeOK'
  BY <1>1, <1>3, <1>4 DEF TypeOK
<1>6. Unwritten' = Unwritten \ R
  BY <1>1 DEF Unwritten
<1>7. WithinReach'
  <2>1. Reach' \in Int /\ Reach <= Reach' /\ Reach \in Nat
    BY <1>6, ReachGrows, ReachType
  <2>2. \A i \in Index : holder'[i] # NoRequest => i <= Reach
    BY <1>2 DEF WithinReach
  <2>3. \A r \in Unwritten' : snapshot'[r] <= Reach
    BY <1>6 DEF WithinReach
  <2>4. \A r \in Requests : stage'[r] = "inserting" => wanted'[r] > 0 /\ wanted'[r] <= Reach + 1
    BY <1>1 DEF WithinReach
  <2>5. \A i \in Index : i \in Nat
    BY DEF Index
  <2> QED
    BY <1>5, <2>1, <2>2, <2>3, <2>4, <2>5 DEF WithinReach, TypeOK, Unwritten
<1>8. RowsHeld'
  <2>1. \A i, j \in Index : holder'[i] = holder'[j] /\ holder'[i] # NoRequest => i = j
    BY <1>2 DEF RowsHeld
  <2>2. \A i \in Index : holder'[i] \notin Unwritten'
    BY <1>2, <1>6, RequestsAssumption DEF RowsHeld, Unwritten
  <2>3. \A r \in Requests : stage'[r] = "checking" \/ r \in durable' => \E i \in Index : holder'[i] = r
    BY <1>1, <1>2 DEF RowsHeld
  <2>4. ~sqlite' => \A r \in durable' : stage'[r] = "created"
    BY <1>1 DEF RowsHeld, Running, TypeOK
  <2> QED
    BY <2>1, <2>2, <2>3, <2>4 DEF RowsHeld
<1>9. LockHeld'
  <2> SUFFICES ASSUME sqlite PROVE LockHeld'
    BY DEF LockHeld
  <2>1. \A i \in Index : holder'[i] \in durable' \cup {NoRequest, writer'}
    BY <1>2, <1>4, Zenon DEF LockHeld, Abandon, Unlocked
  <2>2. \A r \in Requests : attempt'[r] <= 1
    BY DEF LockHeld
  <2>3. ASSUME NEW r \in Requests, attempt'[r] > 0, r \in Unwritten'
        PROVE  writer' = r /\ (stage'[r] = "inserting" => holder'[wanted'[r]] = NoRequest)
    <3>1. r \notin R /\ r \in Unwritten /\ stage'[r] = stage[r] /\ attempt'[r] = attempt[r]
      BY <1>1, <1>6, <2>3
    <3>2. writer = r /\ (stage[r] = "inserting" => holder[wanted[r]] = NoRequest)
      BY <2>3, <3>1 DEF LockHeld
    <3>3. writer' = r
      BY <3>1, <3>2 DEF Abandon, Unlocked
    <3>4. stage[r] = "inserting" => wanted[r] \in Index
      BY ReachType, RequestsAssumption, IndexAssumption DEF WithinReach, Unwritten, Index, TypeOK
    <3> QED
      BY <1>2, <3>1, <3>2, <3>3, <3>4
  <2> QED
    BY <2>1, <2>2, <2>3 DEF LockHeld, Unwritten
<1> QED
  BY <1>5, <1>7, <1>8, <1>9

LEMMA StartKeeps ==
    ASSUME Inv, NEW r \in Requests, Start(r)
    PROVE  Inv'
<1> USE DEF Inv
<1>1. /\ stage' \in [Requests -> Stages] /\ stage[r] = "new" /\ stage'[r] = "numbering"
      /\ \A q \in Requests \ {r} : stage'[q] = stage[q]
  BY DEF Start, TypeOK, Stages
<1>2. HighestIndex \in Nat /\ HighestIndex <= Reach /\ Reach \in Nat
  BY HighestWithinReach, ReachType
<1>3. /\ snapshot' \in [Requests -> Nat] /\ snapshot'[r] <= Reach
      /\ \A q \in Requests \ {r} : snapshot'[q] = snapshot[q]
  BY <1>2 DEF Start, TypeOK
<1>4. UNCHANGED <<sqlite, attempt, wanted, holder, durable, writer>>
  BY DEF Start
<1>5. TypeOK'
  BY <1>1, <1>3, <1>4 DEF TypeOK
<1>6. Unwritten' = Unwritten
  BY <1>1 DEF Unwritten
<1>7. WithinReach'
  <2>1. Reach' = Reach
    BY <1>6 DEF Reach
  <2> QED
    BY <1>1, <1>3, <1>4, <1>6, <2>1 DEF WithinReach, Unwritten
<1>8. RowsHeld'
  BY <1>1, <1>4, <1>6 DEF RowsHeld, TypeOK
<1>9. LockHeld'
  BY <1>1, <1>4, <1>6 DEF LockHeld, Unwritten
<1> QED
  BY <1>5, <1>7, <1>8, <1>9

LEMMA NumberKeeps ==
    ASSUME Inv, NEW r \in Requests, Number(r)
    PROVE  Inv'
<1> USE DEF Inv
<1>1. /\ stage' \in [Requests -> Stages] /\ stage[r] = "numbering" /\ stage'[r] = "inserting"
      /\ \A q \in Requests \ {r} : stage'[q] = stage[q]
      /\ UNCHANGED <<sqlite, attempt, snapshot, holder, durable, writer>>
  BY DEF Number, TypeOK, Stages
<1>2. PICK p \in IF r \in Movers \/ attempt[r] > 0 THEN {0} ELSE Preferred :
        wanted' = [wanted EXCEPT ![r] =
                     IF p # 0 THEN p ELSE 1 + (IF sqlite THEN HighestIndex ELSE snapshot[r])]
  BY DEF Number
<1>3. /\ HighestIndex \in Nat /\ HighestIndex <= Reach /\ Reach \in Nat
      /\ \A i \in Index : holder[i] \in durable => i <= HighestIndex
  BY HighestWithinReach, ReachType, IndexAssumption
<1>4. p \in Nat /\ p <= Reach
  BY ReachType, IndexAssumption
<1>5. snapshot[r] \in Nat /\ snapshot[r] <= Reach
  BY <1>1 DEF TypeOK, WithinReach, Unwritten
<1>6. /\ wanted' \in [Requests -> Nat] /\ wanted'[r] > 0 /\ wanted'[r] <= Reach + 1
      /\ \A q \in Requests \ {r} : wanted'[q] = wanted[q]
      /\ sqlite /\ attempt[r] > 0 => wanted'[r] = 1 + HighestIndex
  BY <1>2, <1>3, <1>4, <1>5 DEF TypeOK
<1>7. TypeOK'
  BY <1>1, <1>6 DEF TypeOK
<1>8. Unwritten' = Unwritten /\ Reach' = Reach
  BY <1>1 DEF Unwritten, Reach
<1>9. WithinReach'
  BY <1>1, <1>6, <1>8 DEF WithinReach, Unwritten
<1>10. RowsHeld'
  BY <1>1, <1>8 DEF RowsHeld, TypeOK
<1>11. LockHeld'
  <2> SUFFICES ASSUME sqlite PROVE LockHeld'
    BY <1>1 DEF LockHeld
  <2>1. ASSUME attempt[r] > 0 PROVE holder[wanted'[r]] = NoRequest
    <3>1. \A i \in Index : holder[i] # NoRequest => holder[i] \in durable
      BY <1>1, <2>1 DEF LockHeld, RowsHeld, Unwritten
    <3>2. wanted'[r] \in Index
      BY <1>1, <1>3, <1>6, ReachType, IndexAssumption DEF Index, Unwritten
    <3> QED
      BY <1>3, <1>6, <2>1, <3>1, <3>2
  <2> QED
    BY <1>1, <1>6, <1>8, <2>1 DEF LockHeld, Unwritten
<1> QED
  BY <1>7, <1>9, <1>10, <1>11

\* What a request that is about to write knows.
LEMMA AboutToWrite ==
    ASSUME Inv, NEW r \in Requests, stage[r] = "inserting"
    PROVE  r \in Unwritten /\ wanted[r] \in Index /\ wanted[r] <= Reach + 1 /\ Reach \in Nat
BY ReachType, IndexAssumption DEF Inv, WithinReach, TypeOK, Unwritten, Index

LEMMA InsertKeeps ==
    ASSUME Inv, NEW r \in Requests, Insert(r)
    PROVE  Inv'
<1> USE DEF Inv
<1> DEFINE w == wanted[r]
<1>1. /\ stage' \in [Requests -> Stages] /\ stage[r] = "inserting" /\ stage'[r] = "checking"
      /\ \A q \in Requests \ {r} : stage'[q] = stage[q]
      /\ UNCHANGED <<sqlite, attempt, wanted, snapshot>>
  BY DEF Insert, TypeOK, Stages
<1>2. r \in Unwritten /\ w \in Index /\ w <= Reach + 1 /\ Reach \in Nat
  BY <1>1, AboutToWrite
<1>3. /\ holder' \in [Index -> Requests \cup {NoRequest}] /\ holder[w] = NoRequest /\ holder'[w] = r
      /\ \A i \in Index \ {w} : holder'[i] = holder[i]
  BY <1>2 DEF Insert, TypeOK
<1>4. /\ durable \subseteq durable' /\ durable' \subseteq durable \cup {r}
      /\ writer' \in {writer, r}
      /\ ~sqlite => durable' = durable
      /\ sqlite => writer \in {r, NoRequest} /\ (r \in durable' \/ writer' = r)
  BY DEF Insert, ReleaseCommits, Blocked
<1> HIDE DEF w
<1>5. TypeOK'
  BY <1>1, <1>3, <1>4 DEF TypeOK
<1>6. Unwritten' = Unwritten \ {r}
  BY <1>1 DEF Unwritten
<1>7. Reach' \in Int /\ Reach + 1 <= Reach'
  BY <1>2, <1>6, ReachGrows
<1>8. \A i \in Index : i \in Nat
  BY DEF Index
<1>9. WithinReach'
  <2>1. \A i \in Index : holder'[i] # NoRequest => i <= Reach'
    BY <1>2, <1>3, <1>7, <1>8 DEF WithinReach
  <2>2. \A q \in Unwritten' : snapshot'[q] <= Reach'
    BY <1>1, <1>2, <1>5, <1>6, <1>7 DEF WithinReach, TypeOK, Unwritten
  <2>3. \A q \in Requests : stage'[q] = "inserting" => wanted'[q] > 0 /\ wanted'[q] <= Reach' + 1
    BY <1>1, <1>2, <1>5, <1>7 DEF WithinReach, TypeOK
  <2> QED
    BY <2>1, <2>2, <2>3 DEF WithinReach
<1>10. RowsHeld'
  <2>1. \A i \in Index : holder[i] # r
    BY <1>2 DEF RowsHeld
  <2>2. r # NoRequest
    BY RequestsAssumption
  <2>3. \A i, j \in Index : holder'[i] = holder'[j] /\ holder'[i] # NoRequest => i = j
    BY <1>3, <2>1 DEF RowsHeld
  <2>4. \A i \in Index : holder'[i] \notin Unwritten'
    BY <1>3, <1>6 DEF RowsHeld
  <2>5. \A q \in Requests : stage'[q] = "checking" \/ q \in durable' => \E i \in Index : holder'[i] = q
    <3> SUFFICES ASSUME NEW q \in Requests, q # r, stage'[q] = "checking" \/ q \in durable'
                 PROVE  \E i \in Index : holder'[i] = q
      BY <1>2, <1>3
    <3>1. PICK i \in Index : holder[i] = q
      BY <1>1, <1>4 DEF RowsHeld
    <3>2. i # w
      BY <1>3, <3>1, RequestsAssumption
    <3> QED
      BY <1>3, <3>1, <3>2
  <2>6. ~sqlite' => \A q \in durable' : stage'[q] = "created"
    BY <1>1, <1>4 DEF RowsHeld, TypeOK
  <2> QED
    BY <2>3, <2>4, <2>5, <2>6 DEF RowsHeld
<1>11. LockHeld'
  <2> SUFFICES ASSUME sqlite PROVE LockHeld'
    BY <1>1 DEF LockHeld
  <2>1. \A i \in Index : holder'[i] \in durable' \cup {NoRequest, writer'}
    BY <1>3, <1>4 DEF LockHeld
  <2>2. \A q \in Unwritten' : ~(attempt[q] > 0)
    BY <1>4, <1>6, RequestsAssumption DEF LockHeld, Unwritten
  <2> QED
    BY <1>1, <2>1, <2>2 DEF LockHeld, Unwritten
<1> QED
  BY <1>5, <1>9, <1>10, <1>11

\* Under SQLite an insert can collide once only.
LEMMA CollidesOnce ==
    ASSUME Inv, NEW r \in Requests, Collide(r)
    PROVE  /\ attempt' \in [Requests -> Nat]
           /\ attempt'[r] = attempt[r] + 1 /\ (sqlite => attempt'[r] = 1)
           /\ \A q \in Requests \ {r} : attempt'[q] = attempt[q]
<1>1. /\ attempt' \in [Requests -> Nat] /\ attempt'[r] = attempt[r] + 1
      /\ \A q \in Requests \ {r} : attempt'[q] = attempt[q]
  BY DEF Collide, Inv, TypeOK
<1>2. stage[r] = "inserting" /\ holder[wanted[r]] # NoRequest /\ attempt[r] \in Nat
  BY DEF Collide, Inv, TypeOK
<1>3. sqlite => attempt[r] = 0
  BY <1>2 DEF Inv, LockHeld
<1> QED
  BY <1>1, <1>2, <1>3

LEMMA CollideKeeps ==
    ASSUME Inv, NEW r \in Requests, Collide(r)
    PROVE  Inv'
<1> USE DEF Inv
<1>1. /\ attempt' \in [Requests -> Nat]
      /\ attempt'[r] = attempt[r] + 1 /\ (sqlite => attempt'[r] = 1)
      /\ \A q \in Requests \ {r} : attempt'[q] = attempt[q]
  BY CollidesOnce
<1>2. /\ stage[r] = "inserting" /\ UNCHANGED <<sqlite, wanted, snapshot, durable>>
      /\ sqlite => writer \in {r, NoRequest}
  BY DEF Collide, Blocked
<1>3. CASE GivesUp(r)
  <2>1. Abandon({r}, "failed")
    BY <1>3 DEF Collide
  <2>2. \A q \in {r} : stage[q] \in Running
    BY <1>2 DEF Running
  <2> QED
    BY <1>1, <1>2, <2>1, <2>2, AbandonKeeps
<1>4. CASE ~GivesUp(r)
  <2>1. /\ stage' \in [Requests -> Stages] /\ stage'[r] = "numbering"
        /\ \A q \in Requests \ {r} : stage'[q] = stage[q]
        /\ writer' = (IF sqlite THEN r ELSE writer)
        /\ UNCHANGED holder
    BY <1>4 DEF Collide, TypeOK, Stages
  <2>2. TypeOK'
    BY <1>1, <1>2, <2>1 DEF TypeOK
  <2>3. Unwritten' = Unwritten /\ Reach' = Reach
    BY <1>2, <2>1 DEF Unwritten, Reach
  <2>4. WithinReach'
    BY <1>2, <2>1, <2>3 DEF WithinReach, Unwritten
  <2>5. RowsHeld'
    BY <1>2, <2>1, <2>3 DEF RowsHeld, TypeOK
  <2>6. LockHeld'
    <3> SUFFICES ASSUME sqlite PROVE LockHeld'
      BY <1>2 DEF LockHeld
    <3>1. \A i \in Index : holder'[i] \in durable' \cup {NoRequest, writer'}
      BY <1>2, <2>1 DEF LockHeld
    <3>2. \A q \in Unwritten \ {r} : ~(attempt'[q] > 0)
      BY <1>1, <1>2, RequestsAssumption DEF LockHeld, Unwritten
    <3> QED
      BY <1>1, <2>1, <2>3, <3>1, <3>2 DEF LockHeld, Unwritten
  <2> QED
    BY <2>2, <2>4, <2>5, <2>6
<1> QED
  BY <1>3, <1>4

LEMMA CommitKeeps ==
    ASSUME Inv, NEW r \in Requests, Commit(r)
    PROVE  Inv'
<1> USE DEF Inv
<1>1. /\ stage' \in [Requests -> Stages] /\ stage[r] = "checking" /\ stage'[r] = "created"
      /\ \A q \in Requests \ {r} : stage'[q] = stage[q]
      /\ durable' = durable \cup {r}
      /\ UNCHANGED <<sqlite, attempt, wanted, snapshot, holder>>
  BY DEF Commit, TypeOK, Stages
<1>2. writer' \in {writer, NoRequest} /\ (sqlite => writer \in {r, NoRequest})
  BY DEF Commit, Unlocked, Blocked
<1>3. TypeOK'
  BY <1>1, <1>2 DEF TypeOK
<1>4. Unwritten' = Unwritten /\ Reach' = Reach
  BY <1>1 DEF Unwritten, Reach
<1>5. WithinReach'
  BY <1>1, <1>4 DEF WithinReach, Unwritten
<1>6. RowsHeld'
  BY <1>1, <1>4 DEF RowsHeld, TypeOK
<1>7. LockHeld'
  <2> SUFFICES ASSUME sqlite PROVE LockHeld'
    BY <1>1 DEF LockHeld
  <2>1. \A i \in Index : holder'[i] \in durable' \cup {NoRequest, writer'}
    BY <1>1, <1>2 DEF LockHeld
  <2>2. \A q \in Unwritten : ~(attempt[q] > 0)
    BY <1>1, <1>2, RequestsAssumption DEF LockHeld, Unwritten
  <2> QED
    BY <1>1, <1>4, <2>1, <2>2 DEF LockHeld, Unwritten
<1> QED
  BY <1>3, <1>5, <1>6, <1>7

LEMMA MoveOutKeeps ==
    ASSUME Inv, NEW r \in Requests, MoveOut(r)
    PROVE  Inv'
<1> USE DEF Inv
<1>1. /\ durable' = durable \ {r} /\ writer = NoRequest /\ stage[r] = "created"
      /\ UNCHANGED <<sqlite, stage, attempt, wanted, snapshot, writer>>
  BY DEF MoveOut
<1>2. \A i \in Index : \/ holder'[i] = NoRequest /\ holder[i] = r
                       \/ holder'[i] = holder[i] /\ holder[i] # r
  BY DEF MoveOut
<1>3. holder' \in [Index -> Requests \cup {NoRequest}]
  BY DEF MoveOut, TypeOK
<1>4. TypeOK'
  BY <1>1, <1>3 DEF TypeOK
<1>5. Unwritten' = Unwritten /\ Reach' = Reach
  BY <1>1 DEF Unwritten, Reach
<1>6. WithinReach'
  BY <1>1, <1>2, <1>5 DEF WithinReach, Unwritten
<1>7. RowsHeld'
  BY <1>1, <1>2, <1>5, RequestsAssumption DEF RowsHeld, TypeOK, Unwritten
<1>8. LockHeld'
  <2> SUFFICES ASSUME sqlite PROVE LockHeld'
    BY <1>1 DEF LockHeld
  <2>1. \A i \in Index : holder'[i] \in durable' \cup {NoRequest, writer'}
    BY <1>1, <1>2 DEF LockHeld
  <2>2. \A q \in Unwritten : ~(attempt[q] > 0)
    BY <1>1, RequestsAssumption DEF LockHeld, Unwritten
  <2> QED
    BY <1>1, <1>5, <2>1, <2>2 DEF LockHeld, Unwritten
<1> QED
  BY <1>4, <1>6, <1>7, <1>8

\* Nothing the invariant is about changes.
LEMMA StutterKeeps ==
    ASSUME Inv, UNCHANGED <<sqlite, stage, attempt, wanted, snapshot, holder, durable, writer>>
    PROVE  Inv'
BY DEF Inv, TypeOK, WithinReach, RowsHeld, LockHeld, Unwritten, Reach

LEMMA StepKeepsInv == Inv /\ [Next]_vars => Inv'
<1> SUFFICES ASSUME Inv, [Next]_vars PROVE Inv'
  OBVIOUS
<1>1. attempt \in [Requests -> Nat] /\ (sqlite => \A r \in Requests : attempt[r] <= 1)
  BY DEF Inv, TypeOK, LockHeld
<1>2. ASSUME NEW r \in Requests, Refuse(r) PROVE Inv'
  <2>1. Abandon({r}, "refused") /\ UNCHANGED <<sqlite, attempt, wanted, snapshot, durable>>
    BY <1>2 DEF Refuse
  <2>2. \A q \in {r} : stage[q] \in Running
    BY <1>2 DEF Refuse, Running
  <2> QED
    BY <1>1, <2>1, <2>2, AbandonKeeps
<1>3. ASSUME NEW r \in Requests, LockTimeout(r) PROVE Inv'
  <2>1. Abandon({r}, "failed") /\ UNCHANGED <<sqlite, attempt, wanted, snapshot, durable>>
    BY <1>3 DEF LockTimeout
  <2>2. \A q \in {r} : stage[q] \in Running
    BY <1>3 DEF LockTimeout, Running
  <2> QED
    BY <1>1, <2>1, <2>2, AbandonKeeps
<1>4. CASE Crash
  <2> DEFINE R == {r \in Requests : stage[r] \in Running}
  <2>1. Abandon(R, "failed") /\ UNCHANGED <<sqlite, attempt, wanted, snapshot, durable>>
    BY <1>4 DEF Crash
  <2>2. R \in SUBSET Requests /\ \A q \in R : stage[q] \in Running
    OBVIOUS
  <2> HIDE DEF R
  <2> QED
    BY <1>1, <2>1, <2>2, AbandonKeeps
<1>5. ASSUME NEW r \in Requests, Delete(r) PROVE Inv'
  BY <1>5, StutterKeeps DEF Delete
<1>6. CASE UNCHANGED vars
  BY <1>6, StutterKeeps DEF vars
<1> QED
  BY <1>2, <1>3, <1>4, <1>5, <1>6, StartKeeps, NumberKeeps, InsertKeeps, CollideKeeps,
     CommitKeeps, MoveOutKeeps DEF Next, Work, Done

\* Type correctness of the creations, on either engine.
THEOREM CreationTypeCorrect == Spec => []TypeOK
<1>1. Inv => TypeOK
  BY DEF Inv
<1> QED
  BY <1>1, AtFirst, StepKeepsInv, PTL DEF Spec

\* Under SQLite no creation fails for want of an index: the collision that sends it into
\* its second attempt leaves it with the write lock, and no index it then reads is taken
\* before it inserts.  Two attempts are enough, of the ten of INDEX_ALLOCATION_ATTEMPTS.
THEOREM CreationsConverge ==
    ASSUME Attempts > 1
    PROVE  Spec => []CreatorsConverge
<1>1. Inv => CreatorsConverge
  BY AttemptsAssumption DEF Inv, TypeOK, LockHeld, CreatorsConverge
<1> QED
  BY <1>1, AtFirst, StepKeepsInv, PTL DEF Spec

-----------------------------------------------------------------------------
(* The refinement of TaskLedger.                                           *)

\* The ledger's variables, as Ledger substitutes them.
Answer == [r \in Requests |-> CASE stage[r] = "created" -> "created"
                                [] stage[r] \in {"refused", "failed"} -> "refused"
                                [] OTHER -> "none"]
Shown == [r \in Requests |-> IF Told(r) THEN IndexOf(r) ELSE 0]

\* A task that the ledger knows is in the row that its index says.
LEMMA ShownIsHeld ==
    ASSUME Inv
    PROVE  \A r \in Requests : IF Told(r) THEN Shown[r] \in Index /\ holder[Shown[r]] = r
                                          ELSE Shown[r] = 0
<1> SUFFICES ASSUME NEW r \in Requests, Told(r)
             PROVE  Shown[r] \in Index /\ holder[Shown[r]] = r
  BY DEF Shown
<1>1. PICK i \in Index : holder[i] = r
  BY DEF Told, Inv, RowsHeld
<1>2. \A j \in Index : holder[j] = r => j = i
  BY <1>1, RequestsAssumption DEF Inv, RowsHeld
<1>3. IndexOf(r) = i
  BY <1>1, <1>2, OneIndex DEF IndexOf
<1> QED
  BY <1>1, <1>3 DEF Shown

LEMMA ShownIsHeldNext ==
    ASSUME Inv'
    PROVE  \A r \in Requests : IF Told(r)' THEN Shown'[r] \in Index /\ holder'[Shown'[r]] = r
                                           ELSE Shown'[r] = 0
<1> SUFFICES ASSUME NEW r \in Requests, Told(r)'
             PROVE  Shown'[r] \in Index /\ holder'[Shown'[r]] = r
  BY DEF Shown
<1>1. PICK i \in Index : holder'[i] = r
  BY DEF Told, Inv, RowsHeld
<1>2. \A j \in Index : holder'[j] = r => j = i
  BY <1>1, RequestsAssumption DEF Inv, RowsHeld
<1>3. IndexOf(r)' = i
  BY <1>1, <1>2, OneIndex DEF IndexOf
<1> QED
  BY <1>1, <1>3 DEF Shown

\* A request that the ledger knows before and after, in the row it had, keeps its index.
LEMMA ShownStays ==
    ASSUME Inv, Inv', NEW r \in Requests, Told(r)' <=> Told(r),
           Told(r) => \A i \in Index : holder[i] = r => holder'[i] = r
    PROVE  Shown'[r] = Shown[r]
BY ShownIsHeld, ShownIsHeldNext, RequestsAssumption DEF Inv, RowsHeld

LEMMA AnswersAre ==
    \A r \in Requests : Answer[r] = IF stage[r] = "created" THEN "created"
                                    ELSE IF stage[r] \in {"refused", "failed"} THEN "refused"
                                    ELSE "none"
BY DEF Answer

LEMMA AnswersAreNext ==
    \A r \in Requests : Answer'[r] = IF stage'[r] = "created" THEN "created"
                                     ELSE IF stage'[r] \in {"refused", "failed"} THEN "refused"
                                     ELSE "none"
BY DEF Answer

\* A step that answers nobody and leaves the rows of those who were answered alone.
LEMMA SilentStep ==
    ASSUME Inv, Inv', \A r \in Requests : Answer'[r] = Answer[r],
           \A r \in Requests : Told(r)' <=> Told(r),
           \A r \in Requests : Told(r) => \A i \in Index : holder[i] = r => holder'[i] = r
    PROVE  UNCHANGED Ledger!vars
<1>1. \A r \in Requests : Shown'[r] = Shown[r]
  BY ShownStays
<1>2. Shown' = Shown
  BY <1>1 DEF Shown
<1>3. Answer' = Answer
  BY DEF Answer
<1> QED
  BY <1>2, <1>3 DEF Ledger!vars, Answer, Shown

\* Giving up, or being given up by the process, is the ledger's refusal.
LEMMA AbandonRefuses ==
    ASSUME Inv, Inv', NEW R \in SUBSET Requests, R # {}, \A r \in R : stage[r] \in Running,
           NEW outcome \in {"refused", "failed"}, Abandon(R, outcome),
           UNCHANGED <<sqlite, durable>>
    PROVE  Ledger!Refuse(R)
<1>1. \A r \in Requests : stage'[r] = IF r \in R THEN outcome ELSE stage[r]
  BY DEF Abandon
<1>2. \A r \in R : Answer[r] = "none"
  BY AnswersAre DEF Running
<1>3. \A r \in Requests : Answer'[r] = IF r \in R THEN "refused" ELSE Answer[r]
  BY <1>1, AnswersAre, AnswersAreNext
<1>4. Answer' = [r \in Requests |-> IF r \in R THEN "refused" ELSE Answer[r]]
  <2>1. Answer' = [r \in Requests |-> Answer'[r]]
    BY DEF Answer
  <2> QED
    BY <1>3, <2>1
<1>5. \A r \in Requests : Told(r)' <=> Told(r)
  BY <1>1 DEF Told, Running, Inv, RowsHeld
<1>6. \A r \in Requests : Told(r) => \A i \in Index : holder[i] = r => holder'[i] = r
  BY DEF Told, Abandon, Kept
<1>7. \A r \in Requests : Shown'[r] = Shown[r]
  BY <1>5, <1>6, ShownStays
<1>8. Shown' = Shown
  BY <1>7 DEF Shown
<1> QED
  BY <1>2, <1>4, <1>8 DEF Ledger!Refuse, Answer, Shown

\* A commit is the ledger's success: the task shows up with its index, which no other
\* task of the project has.
LEMMA CommitSucceeds ==
    ASSUME Inv, Inv', NEW r \in Requests, Commit(r)
    PROVE  Ledger!Succeed(r)
<1>1. /\ stage[r] = "checking" /\ stage'[r] = "created" /\ r \in durable'
      /\ \A q \in Requests \ {r} : stage'[q] = stage[q] /\ (q \in durable' <=> q \in durable)
      /\ UNCHANGED <<sqlite, holder>>
  BY DEF Commit, Inv, TypeOK
<1>2. ~Told(r) /\ Told(r)' /\ \A q \in Requests \ {r} : Told(q)' <=> Told(q)
  BY <1>1 DEF Told, Inv, RowsHeld
<1>3. \A q \in Requests \ {r} : Shown'[q] = Shown[q]
  BY <1>1, <1>2, ShownStays
<1>4. Shown'[r] \in Index /\ holder[Shown'[r]] = r
  BY <1>1, <1>2, ShownIsHeldNext
<1>5. \A q \in Requests : Shown[q] # Shown'[r]
  BY <1>2, <1>4, ShownIsHeld DEF Index
<1>6. Shown' = [Shown EXCEPT ![r] = Shown'[r]]
  <2>1. Shown' = [q \in Requests |-> Shown'[q]]
    BY DEF Shown
  <2>2. Shown = [q \in Requests |-> Shown[q]]
    BY DEF Shown
  <2> QED
    BY <1>3, <2>1, <2>2, Zenon
<1>7. Answer[r] = "none" /\ Answer'[r] = "created"
      /\ \A q \in Requests \ {r} : Answer'[q] = Answer[q]
  BY <1>1, AnswersAre, AnswersAreNext
<1>8. Answer' = [Answer EXCEPT ![r] = "created"]
  <2>1. Answer' = [q \in Requests |-> Answer'[q]]
    BY DEF Answer
  <2>2. Answer = [q \in Requests |-> Answer[q]]
    BY DEF Answer
  <2> QED
    BY <1>7, <2>1, <2>2, Zenon
<1>9. /\ Answer[r] = "none" /\ Answer' = [Answer EXCEPT ![r] = "created"]
      /\ \E i \in Index : (\A q \in Requests : Shown[q] # i) /\ Shown' = [Shown EXCEPT ![r] = i]
  BY <1>4, <1>5, <1>6, <1>7, <1>8
<1> QED
  BY <1>9 DEF Ledger!Succeed, Ledger!Free, Answer, Shown

LEMMA MoveOutLeaves ==
    ASSUME Inv, Inv', NEW r \in Requests, MoveOut(r)
    PROVE  Ledger!Leave(r)
<1>1. /\ stage[r] = "created" /\ r \in durable /\ durable' = durable \ {r}
      /\ UNCHANGED <<sqlite, stage>>
      /\ \A i \in Index : holder[i] # r => holder'[i] = holder[i]
  BY DEF MoveOut
<1>2. Told(r) /\ ~Told(r)' /\ \A q \in Requests \ {r} : Told(q)' <=> Told(q)
  BY <1>1 DEF Told
<1>3. \A q \in Requests \ {r} : Shown'[q] = Shown[q]
  BY <1>1, <1>2, ShownStays
<1>4. Shown[r] # 0 /\ Shown'[r] = 0
  BY <1>2, ShownIsHeld, ShownIsHeldNext DEF Index
<1>5. Shown' = [Shown EXCEPT ![r] = 0]
  <2>1. Shown' = [q \in Requests |-> Shown'[q]]
    BY DEF Shown
  <2>2. Shown = [q \in Requests |-> Shown[q]]
    BY DEF Shown
  <2> QED
    BY <1>3, <1>4, <2>1, <2>2, Zenon
<1>6. Answer' = Answer
  BY <1>1 DEF Answer
<1> QED
  BY <1>4, <1>5, <1>6 DEF Ledger!Leave, Answer, Shown

\* An insert shows nobody a task that its request has not been answered for.
LEMMA InsertIsSilent ==
    ASSUME Inv, Inv', NEW r \in Requests, Insert(r)
    PROVE  UNCHANGED Ledger!vars
<1>1. /\ stage[r] = "inserting" /\ stage'[r] = "checking" /\ holder[wanted[r]] = NoRequest
      /\ \A q \in Requests \ {r} : stage'[q] = stage[q] /\ (q \in durable' <=> q \in durable)
      /\ UNCHANGED sqlite
      /\ \A i \in Index \ {wanted[r]} : holder'[i] = holder[i]
  BY DEF Insert, Inv, TypeOK
<1>2. \A q \in Requests : Answer'[q] = Answer[q]
  BY <1>1, AnswersAre, AnswersAreNext
<1>3. ~Told(r) /\ ~Told(r)'
  BY <1>1 DEF Told, Inv, RowsHeld
<1>4. \A q \in Requests : Told(q)' <=> Told(q)
  BY <1>1, <1>3 DEF Told
<1>5. \A q \in Requests : \A i \in Index : holder[i] = q => holder'[i] = q
  BY <1>1, RequestsAssumption
<1> QED
  BY <1>2, <1>4, <1>5, SilentStep

LEMMA AtFirstLedger == Init => Ledger!Init
<1> SUFFICES ASSUME Init PROVE Ledger!Init
  OBVIOUS
<1>1. \A r \in Requests : stage[r] = "new" /\ ~Told(r)
  BY DEF Init, Told
<1>2. \A r \in Requests : Answer[r] = "none" /\ Shown[r] = 0
  BY <1>1, AnswersAre DEF Shown
<1>3. Answer = [r \in Requests |-> "none"] /\ Shown = [r \in Requests |-> 0]
  <2>1. Answer = [r \in Requests |-> Answer[r]]
    BY DEF Answer
  <2>2. Shown = [r \in Requests |-> Shown[r]]
    BY DEF Shown
  <2> QED
    BY <1>2, <2>1, <2>2
<1> QED
  BY <1>3 DEF Ledger!Init, Answer, Shown

LEMMA StepRefines == Inv /\ Inv' /\ [Next]_vars => [Ledger!Next]_Ledger!vars
<1> SUFFICES ASSUME Inv, Inv', [Next]_vars PROVE [Ledger!Next]_Ledger!vars
  OBVIOUS
<1>1. ASSUME NEW R \in SUBSET Requests, Ledger!Refuse(R) PROVE [Ledger!Next]_Ledger!vars
  BY <1>1 DEF Ledger!Next
<1>2. ASSUME NEW r \in Requests, Start(r) \/ Number(r) PROVE UNCHANGED Ledger!vars
  <2>1. /\ stage[r] \in {"new", "numbering"} /\ stage'[r] \in {"numbering", "inserting"}
        /\ \A q \in Requests \ {r} : stage'[q] = stage[q]
        /\ UNCHANGED <<sqlite, holder, durable>>
    BY <1>2 DEF Start, Number, Inv, TypeOK
  <2>2. \A q \in Requests : Answer'[q] = Answer[q]
    BY <2>1, AnswersAre, AnswersAreNext
  <2>3. r \notin durable
    BY <2>1 DEF Inv, RowsHeld, Unwritten
  <2>4. \A q \in Requests : Told(q)' <=> Told(q)
    BY <2>1, <2>3 DEF Told
  <2> QED
    BY <2>1, <2>2, <2>4, SilentStep
<1>3. ASSUME NEW r \in Requests, Collide(r) PROVE [Ledger!Next]_Ledger!vars
  <2>1. stage[r] = "inserting" /\ UNCHANGED <<sqlite, durable>>
    BY <1>3 DEF Collide
  <2>2. CASE GivesUp(r)
    <3>1. Abandon({r}, "failed")
      BY <1>3, <2>2 DEF Collide
    <3>2. \A q \in {r} : stage[q] \in Running
      BY <2>1 DEF Running
    <3> QED
      BY <1>1, <2>1, <3>1, <3>2, AbandonRefuses
  <2>3. CASE ~GivesUp(r)
    <3>1. /\ stage'[r] = "numbering" /\ UNCHANGED holder
          /\ \A q \in Requests \ {r} : stage'[q] = stage[q]
      BY <1>3, <2>3 DEF Collide, Inv, TypeOK
    <3>2. \A q \in Requests : Answer'[q] = Answer[q]
      BY <2>1, <3>1, AnswersAre, AnswersAreNext
    <3>3. r \notin durable
      BY <2>1 DEF Inv, RowsHeld, Unwritten
    <3>4. \A q \in Requests : Told(q)' <=> Told(q)
      BY <2>1, <3>1, <3>3 DEF Told
    <3> QED
      BY <3>1, <3>2, <3>4, SilentStep
  <2> QED
    BY <2>2, <2>3
<1>4. ASSUME NEW r \in Requests, Refuse(r) PROVE [Ledger!Next]_Ledger!vars
  <2>1. Abandon({r}, "refused") /\ UNCHANGED <<sqlite, durable>>
    BY <1>4 DEF Refuse
  <2>2. \A q \in {r} : stage[q] \in Running
    BY <1>4 DEF Refuse, Running
  <2> QED
    BY <1>1, <2>1, <2>2, AbandonRefuses
<1>5. ASSUME NEW r \in Requests, LockTimeout(r) PROVE [Ledger!Next]_Ledger!vars
  <2>1. Abandon({r}, "failed") /\ UNCHANGED <<sqlite, durable>>
    BY <1>5 DEF LockTimeout
  <2>2. \A q \in {r} : stage[q] \in Running
    BY <1>5 DEF LockTimeout, Running
  <2> QED
    BY <1>1, <2>1, <2>2, AbandonRefuses
<1>6. ASSUME Crash PROVE [Ledger!Next]_Ledger!vars
  <2> DEFINE R == {r \in Requests : stage[r] \in Running}
  <2>1. R # {} /\ Abandon(R, "failed") /\ UNCHANGED <<sqlite, durable>>
    BY <1>6 DEF Crash
  <2>2. R \in SUBSET Requests /\ \A q \in R : stage[q] \in Running
    OBVIOUS
  <2> HIDE DEF R
  <2> QED
    BY <1>1, <2>1, <2>2, AbandonRefuses
<1>7. ASSUME UNCHANGED <<sqlite, stage, holder, durable>> PROVE UNCHANGED Ledger!vars
  <2>1. \A q \in Requests : Answer'[q] = Answer[q]
    BY <1>7 DEF Answer
  <2>2. \A q \in Requests : Told(q)' <=> Told(q)
    BY <1>7 DEF Told
  <2> QED
    BY <1>7, <2>1, <2>2, SilentStep
<1>8. ASSUME NEW r \in Requests, Delete(r) PROVE UNCHANGED Ledger!vars
  BY <1>7, <1>8 DEF Delete
<1>9. ASSUME UNCHANGED vars PROVE UNCHANGED Ledger!vars
  BY <1>7, <1>9 DEF vars
<1>10. ASSUME NEW r \in Requests, Commit(r) PROVE Ledger!Next
  BY <1>10, CommitSucceeds DEF Ledger!Next
<1>11. ASSUME NEW r \in Requests, MoveOut(r) PROVE Ledger!Next
  BY <1>11, MoveOutLeaves DEF Ledger!Next
<1> QED
  BY <1>2, <1>3, <1>4, <1>5, <1>6, <1>8, <1>9, <1>10, <1>11, InsertIsSilent DEF Next, Work, Done

\* A task shows up whole, with an index of its own, when its request is answered and not
\* before, and stays until it leaves; a request that is refused or fails shows nothing.
\* (Under SQLite of the tasks that are answered for; others may show there as well.)
THEOREM CreationImplementsLedger == Spec => ImplementsLedger
<1> QED
  BY AtFirst, StepKeepsInv, AtFirstLedger, StepRefines, PTL DEF Spec, ImplementsLedger, Ledger!Spec
=============================================================================
