------------------------- MODULE TaskRelationsProofs -------------------------
(***************************************************************************)
(* Proofs about TaskRelations and Collections, for any number of tasks and *)
(* requests: whatever overlaps, the two rows of a relation stay together;  *)
(* a request that no other overtook keeps the tasks a forest; the pages of *)
(* a listing hold each of its tasks once, and the walk down a forest ends  *)
(* with every task of it shown.                                            *)
(***************************************************************************)
EXTENDS Collections, FiniteSetTheorems, SequenceTheorems, WellFoundedInduction, TLAPS

\* The two rows of one relation have ids that follow each other, the first one odd.
Odd(r) == r % 2 = 1
Partner(r) == IF Odd(r) THEN r + 1 ELSE r - 1

\* S holds both rows of a relation or none.
Paired(S) == \A r \in S : Partner(r) \in S

\* What each row is, how it stands to its partner, and which rows a deletion that
\* is under way will take.
PairInv ==
    /\ issued \in Nat /\ ~Odd(issued)
    /\ DOMAIN rows \subseteq 1..issued
    /\ \A r \in DOMAIN rows : rows[r] \in Row
    /\ Paired(DOMAIN rows)
    /\ \A r \in DOMAIN rows : rows[Partner(r)] = Mirror(rows[r])
    /\ \A q \in Linkers :
         /\ request[q].phase = "create" => request[q].row \in Row
         /\ request[q].phase = "delete" =>
              request[q].doomed \subseteq 1..issued /\ Paired(request[q].doomed)

-----------------------------------------------------------------------------
(* Partners and mirror images.                                             *)

LEMMA MirrorTwice ==
    ASSUME NEW row \in Row
    PROVE  Mirror(row) \in Row /\ Mirror(Mirror(row)) = row
<1>1. row.kind \in Kinds /\ row.task \in Tasks /\ row.other \in Tasks
  BY DEF Row
<1>2. InverseKind[row.kind] \in Kinds
  BY <1>1, RelationsAssumption
<1>3. \A k \in DOMAIN InverseKind : InverseKind[InverseKind[k]] = k
  BY DEF InverseKind
<1>4. InverseKind[InverseKind[row.kind]] = row.kind
  BY <1>1, <1>3, RelationsAssumption
<1> QED
  BY <1>1, <1>2, <1>4 DEF Row, Mirror

\* Partners come in twos, within the ids that were issued.
LEMMA Partners ==
    ASSUME NEW n \in Nat, ~Odd(n), NEW r \in 1..n
    PROVE  Partner(r) \in 1..n /\ Partner(Partner(r)) = r /\ Partner(r) # r
<1>1. CASE Odd(r)
  <2>1. ~Odd(r + 1) /\ r # n
    BY <1>1 DEF Odd
  <2> QED
    BY <1>1, <2>1 DEF Partner
<1>2. CASE ~Odd(r)
  <2>1. Odd(r - 1) /\ r - 1 # 0
    BY <1>2 DEF Odd
  <2> QED
    BY <1>2, <2>1 DEF Partner
<1> QED
  BY <1>1, <1>2

LEMMA NextOdd ==
    ASSUME NEW n \in Nat, ~Odd(n)
    PROVE  Odd(n + 1) /\ ~Odd(n + 2) /\ Partner(n + 1) = n + 2 /\ Partner(n + 2) = n + 1
BY DEF Odd, Partner

-----------------------------------------------------------------------------
(* Steps.                                                                  *)

LEMMA PairInvAtFirst == RelationsInit => PairInv
<1>1. ~Odd(0)
  BY DEF Odd
<1> QED
  BY <1>1 DEF RelationsInit, PairInv, Paired, Idle

\* A deletion takes all rows that hold the relation, in either direction.
LEMMA DeletionReads ==
    ASSUME PairInv, NEW q \in Linkers, NEW row \in Row, ReadDelete(q, row)
    PROVE  PairInv'
<1> DEFINE doomed == Holding(row) \cup Holding(Mirror(row))
<1>1. doomed \subseteq DOMAIN rows
  BY DEF Holding
<1>2. ASSUME NEW r \in doomed PROVE Partner(r) \in doomed
  <2>1. Partner(r) \in DOMAIN rows /\ rows[Partner(r)] = Mirror(rows[r])
    BY <1>1 DEF PairInv, Paired
  <2>2. rows[r] = row \/ rows[r] = Mirror(row)
    BY DEF Holding
  <2> QED
    BY <2>1, <2>2, MirrorTwice DEF Holding
<1>3. UNCHANGED <<rows, issued>>
  BY DEF ReadDelete
<1>4. \A s \in Linkers : request'[s] = request[s] \/ (request'[s].phase = "delete" /\ request'[s].doomed = doomed)
  BY DEF ReadDelete
<1>5. ASSUME NEW s \in Linkers
      PROVE  /\ request'[s].phase = "create" => request'[s].row \in Row
             /\ request'[s].phase = "delete" =>
                  request'[s].doomed \subseteq 1..issued /\ Paired(request'[s].doomed)
  BY <1>1, <1>2, <1>4 DEF PairInv, Paired
<1> QED
  BY <1>3, <1>5 DEF PairInv, Paired

LEMMA CreationReads ==
    ASSUME PairInv, NEW q \in Linkers, NEW row \in Row, ReadCreate(q, row)
    PROVE  PairInv'
<1>1. UNCHANGED <<rows, issued>>
  BY DEF ReadCreate
<1>2. \A s \in Linkers : request'[s] = request[s] \/ (request'[s].phase = "create" /\ request'[s].row = row)
  BY DEF ReadCreate
<1> QED
  BY <1>1, <1>2 DEF PairInv, Paired

\* What a commit leaves of the other requests.
LEMMA CommitKeepsRequests ==
    ASSUME NEW q \in Linkers, LinkCommits(q), NEW s \in Linkers
    PROVE  \/ request'[s] = Idle
           \/ /\ request'[s].phase = request[s].phase
              /\ request[s].phase = "create" => request'[s].row = request[s].row
              /\ request[s].phase = "delete" => request'[s].doomed = request[s].doomed
<1> QED
  BY DEF LinkCommits

LEMMA CreationWrites ==
    ASSUME PairInv, NEW q \in Linkers, WriteCreate(q)
    PROVE  PairInv'
<1> DEFINE row == request[q].row
<1>1. row \in Row /\ Mirror(row) \in Row /\ Mirror(Mirror(row)) = row
  BY MirrorTwice DEF PairInv, WriteCreate
<1>2. issued \in Nat /\ ~Odd(issued) /\ issued' = issued + 2
  BY DEF PairInv, WriteCreate
<1>3. /\ Odd(issued + 1) /\ ~Odd(issued + 2)
      /\ Partner(issued + 1) = issued + 2 /\ Partner(issued + 2) = issued + 1
  BY <1>2, NextOdd
<1>4. /\ DOMAIN rows' = DOMAIN rows \cup {issued + 1, issued + 2}
      /\ rows'[issued + 1] = row /\ rows'[issued + 2] = Mirror(row)
      /\ \A r \in DOMAIN rows : rows'[r] = rows[r]
  BY <1>2 DEF PairInv, WriteCreate, BothRows
<1>5. /\ Paired(DOMAIN rows') /\ \A r \in DOMAIN rows' : rows'[r] \in Row
      /\ \A r \in DOMAIN rows' : rows'[Partner(r)] = Mirror(rows'[r])
  BY <1>1, <1>3, <1>4 DEF PairInv, Paired
<1>6. DOMAIN rows' \subseteq 1..issued' /\ issued' \in Nat /\ ~Odd(issued')
  BY <1>2, <1>3, <1>4 DEF PairInv
<1>7. LinkCommits(q)
  BY DEF WriteCreate
<1>8. ASSUME NEW s \in Linkers
      PROVE  /\ request'[s].phase = "create" => request'[s].row \in Row
             /\ request'[s].phase = "delete" =>
                  request'[s].doomed \subseteq 1..issued' /\ Paired(request'[s].doomed)
  <2>1. 1..issued \subseteq 1..issued'
    BY <1>2
  <2> QED
    BY <1>7, <2>1, CommitKeepsRequests DEF PairInv, Idle
<1> QED
  BY <1>5, <1>6, <1>8 DEF PairInv

LEMMA DeletionWrites ==
    ASSUME PairInv, NEW q \in Linkers, WriteDelete(q)
    PROVE  PairInv'
<1> DEFINE doomed == request[q].doomed
<1>1. doomed \subseteq 1..issued /\ Paired(doomed)
  BY DEF PairInv, WriteDelete
<1>2. DOMAIN rows' = DOMAIN rows \ doomed /\ \A r \in DOMAIN rows' : rows'[r] = rows[r]
  BY DEF WriteDelete
<1>3. ASSUME NEW r \in DOMAIN rows' PROVE Partner(r) \in DOMAIN rows'
  <2>1. Partner(r) \in DOMAIN rows /\ r \in 1..issued
    BY <1>2 DEF PairInv, Paired
  <2>2. Partner(Partner(r)) = r
    BY <2>1, Partners DEF PairInv
  <2>3. Partner(r) \notin doomed
    BY <1>1, <1>2, <2>2 DEF Paired
  <2> QED
    BY <1>2, <2>1, <2>3
<1>4. LinkCommits(q) /\ issued' = issued
  BY DEF WriteDelete
<1>5. ASSUME NEW s \in Linkers
      PROVE  /\ request'[s].phase = "create" => request'[s].row \in Row
             /\ request'[s].phase = "delete" =>
                  request'[s].doomed \subseteq 1..issued' /\ Paired(request'[s].doomed)
  BY <1>4, CommitKeepsRequests DEF PairInv, Idle
<1> QED
  BY <1>2, <1>3, <1>4, <1>5 DEF PairInv, Paired

LEMMA StepKeepsPairs ==
    ASSUME PairInv, [RelationsNext]_relationVars
    PROVE  PairInv'
<1>1. ASSUME NEW q \in Linkers, NEW row \in Row, ReadCreate(q, row) PROVE PairInv'
  BY <1>1, CreationReads
<1>2. ASSUME NEW q \in Linkers, NEW row \in Row, ReadDelete(q, row) PROVE PairInv'
  BY <1>2, DeletionReads
<1>3. ASSUME NEW q \in Linkers, WriteCreate(q) PROVE PairInv'
  BY <1>3, CreationWrites
<1>4. ASSUME NEW q \in Linkers, WriteDelete(q) PROVE PairInv'
  BY <1>4, DeletionWrites
<1>5. ASSUME UNCHANGED <<rows, issued, request>> PROVE PairInv'
  BY <1>5 DEF PairInv
<1> QED
  BY <1>1, <1>2, <1>3, <1>4, <1>5 DEF RelationsNext, MarkDeleted, relationVars

\* However creations and deletions of relations overlap, no row is ever left without
\* its mirror image: a task can be detached from either end.
THEOREM RowsInPairs == RelationsSpec => []Mirrored
<1>1. PairInv /\ [RelationsNext]_relationVars => PairInv'
  BY StepKeepsPairs
<1>2. PairInv => Mirrored
  BY DEF PairInv, Paired, Mirrored, Stored
<1> QED
  BY <1>1, <1>2, PairInvAtFirst, PTL DEF RelationsSpec
-----------------------------------------------------------------------------
(* Walks in a set E of pairs of tasks.                                     *)

ClosedIn(S, E) == \A a, b \in Tasks : <<a, b>> \in E /\ a \in S => b \in S
Walk(E, a) == {t \in Tasks : \A S \in SUBSET Tasks : a \in S /\ ClosedIn(S, E) => t \in S}
NoLoop(E) == \A a, b \in Tasks : <<a, b>> \in E => a \notin Walk(E, b)
Reversed(E) == {e \in Tasks \X Tasks : <<e[2], e[1]>> \in E}

LEMMA WalkIsClosed ==
    ASSUME NEW E, NEW a \in Tasks
    PROVE  Walk(E, a) \in SUBSET Tasks /\ a \in Walk(E, a) /\ ClosedIn(Walk(E, a), E)
BY DEF Walk, ClosedIn

LEMMA WalkIsLeast ==
    ASSUME NEW E, NEW a, NEW S \in SUBSET Tasks, a \in S, ClosedIn(S, E)
    PROVE  Walk(E, a) \subseteq S
BY DEF Walk

\* Fewer steps, shorter walks.
LEMMA FewerSteps ==
    ASSUME NEW E, NEW F, F \subseteq E, NoLoop(E)
    PROVE  NoLoop(F)
<1>1. ASSUME NEW a \in Tasks, NEW b \in Tasks, <<a, b>> \in F, a \in Walk(F, b) PROVE FALSE
  <2>1. Walk(E, b) \in SUBSET Tasks /\ b \in Walk(E, b) /\ ClosedIn(Walk(E, b), E)
    BY WalkIsClosed
  <2>2. ClosedIn(Walk(E, b), F)
    BY <2>1 DEF ClosedIn
  <2>3. a \in Walk(E, b)
    BY <1>1, <2>1, <2>2, WalkIsLeast
  <2> QED
    BY <1>1, <2>3 DEF NoLoop
<1> QED
  BY <1>1 DEF NoLoop

\* A step from u to v closes no loop when no walk leads from v to u.
LEMMA OneMoreStep ==
    ASSUME NEW E, NoLoop(E), NEW u \in Tasks, NEW v \in Tasks, u \notin Walk(E, v)
    PROVE  NoLoop(E \cup {<<u, v>>})
<1> DEFINE F == E \cup {<<u, v>>}
<1>1. \A c \in Tasks : Walk(E, c) \in SUBSET Tasks /\ c \in Walk(E, c) /\ ClosedIn(Walk(E, c), E)
  BY WalkIsClosed
<1>2. ClosedIn(Walk(E, v), F)
  BY <1>1 DEF ClosedIn
<1>3. ASSUME NEW a \in Tasks, NEW b \in Tasks, <<a, b>> \in F, a \in Walk(F, b) PROVE FALSE
  <2>1. CASE <<a, b>> = <<u, v>>
    <3>1. Walk(F, b) \subseteq Walk(E, v)
      BY <1>1, <1>2, <2>1, WalkIsLeast
    <3> QED
      BY <1>3, <2>1, <3>1
  <2>2. CASE <<a, b>> \in E
    <3>1. a \notin Walk(E, b)
      BY <2>2 DEF NoLoop
    <3>2. CASE u \notin Walk(E, b)
      <4>1. ClosedIn(Walk(E, b), F)
        BY <1>1, <3>2 DEF ClosedIn
      <4>2. Walk(F, b) \subseteq Walk(E, b)
        BY <1>1, <4>1, WalkIsLeast
      <4> QED
        BY <1>3, <3>1, <4>2
    <3>3. CASE u \in Walk(E, b)
      <4> DEFINE both == Walk(E, b) \cup Walk(E, v)
      <4>1. both \in SUBSET Tasks /\ b \in both /\ ClosedIn(both, F)
        BY <1>1 DEF ClosedIn
      <4>2. Walk(F, b) \subseteq both
        BY <4>1, WalkIsLeast
      <4>3. a \in Walk(E, v)
        BY <1>3, <3>1, <4>2
      <4>4. b \in Walk(E, v)
        BY <1>1, <2>2, <4>3 DEF ClosedIn
      <4>5. Walk(E, b) \subseteq Walk(E, v)
        BY <1>1, <4>4, WalkIsLeast
      <4> QED
        BY <3>3, <4>5
    <3> QED
      BY <3>2, <3>3
  <2> QED
    BY <1>3, <2>1, <2>2
<1> QED
  BY <1>3 DEF NoLoop

\* What leads nowhere back forwards, leads nowhere back backwards.
LEMMA BackwardsToo ==
    ASSUME NEW E, NoLoop(E)
    PROVE  NoLoop(Reversed(E))
<1>1. ASSUME NEW a \in Tasks, NEW b \in Tasks, <<a, b>> \in Reversed(E), a \in Walk(Reversed(E), b)
      PROVE  FALSE
  <2>1. <<b, a>> \in E
    BY <1>1 DEF Reversed
  <2>2. b \notin Walk(E, a)
    BY <2>1 DEF NoLoop
  <2>3. Walk(E, a) \in SUBSET Tasks /\ a \in Walk(E, a) /\ ClosedIn(Walk(E, a), E)
    BY WalkIsClosed
  <2> DEFINE rest == Tasks \ Walk(E, a)
  <2>4. ASSUME NEW c \in Tasks, NEW d \in Tasks, <<c, d>> \in Reversed(E), c \in rest PROVE d \in rest
    <3>1. <<d, c>> \in E
      BY <2>4 DEF Reversed
    <3> QED
      BY <2>3, <2>4, <3>1 DEF ClosedIn
  <2>5. ClosedIn(rest, Reversed(E))
    BY <2>4 DEF ClosedIn
  <2>6. a \in rest
    BY <1>1, <2>2, <2>5, WalkIsLeast
  <2> QED
    BY <2>3, <2>6
<1> QED
  BY <1>1 DEF NoLoop

-----------------------------------------------------------------------------
(* The rows as sets of pairs, a set for each kind.                         *)

\* The steps of a walk against the rows of kind k.
Steps(R, k) == {e \in Tasks \X Tasks :
                  \E r \in DOMAIN R : R[r].kind = k /\ R[r].other = e[1] /\ R[r].task = e[2]}
Rows(R) == \A r \in DOMAIN R : R[r] \in Row
Single(R) == \A r, s \in DOMAIN R : R[r] = R[s] => r = s
Forest(R) == \A k \in Hierarchical : NoLoop(Steps(R, k))

LEMMA StepsAre ==
    ASSUME NEW R, NEW k, NEW a \in Tasks, NEW b \in Tasks
    PROVE  <<a, b>> \in Steps(R, k) <=>
             \E r \in DOMAIN R : R[r].kind = k /\ R[r].other = a /\ R[r].task = b
BY DEF Steps

LEMMA ClosedUpwardsIs ==
    ASSUME Rows(rows), NEW S, NEW k
    PROVE  ClosedUpwards(S, k) <=> ClosedIn(S, Steps(rows, k))
<1>1. \A r \in DOMAIN rows : rows[r].task \in Tasks /\ rows[r].other \in Tasks
  BY DEF Rows, Row
<1>2. ASSUME ClosedUpwards(S, k), NEW a \in Tasks, NEW b \in Tasks,
             <<a, b>> \in Steps(rows, k), a \in S
      PROVE  b \in S
  <2>1. PICK r \in DOMAIN rows : rows[r].kind = k /\ rows[r].other = a /\ rows[r].task = b
    BY <1>2, StepsAre
  <2> QED
    BY <1>2, <2>1 DEF ClosedUpwards
<1>3. ASSUME ClosedIn(S, Steps(rows, k)), NEW r \in DOMAIN rows, rows[r].kind = k, rows[r].other \in S
      PROVE  rows[r].task \in S
  <2>1. <<rows[r].other, rows[r].task>> \in Steps(rows, k)
    BY <1>1, <1>3, StepsAre
  <2> QED
    BY <1>1, <1>3, <2>1 DEF ClosedIn
<1> QED
  BY <1>2, <1>3 DEF ClosedUpwards, ClosedIn

LEMMA ReachedIs ==
    ASSUME Rows(rows), NEW a, NEW k
    PROVE  Reached({a}, k) = Walk(Steps(rows, k), a)
BY ClosedUpwardsIs DEF Reached, Walk

LEMMA AcyclicIs ==
    ASSUME Rows(rows)
    PROVE  Acyclic <=> Forest(rows)
<1>1. \A r \in DOMAIN rows : rows[r].task \in Tasks /\ rows[r].other \in Tasks
  BY DEF Rows, Row
<1>2. \A k : \A a : Reached({a}, k) = Walk(Steps(rows, k), a)
  BY ReachedIs
<1>3. ASSUME Acyclic, NEW k \in Hierarchical, NEW a \in Tasks, NEW b \in Tasks,
             <<a, b>> \in Steps(rows, k)
      PROVE  a \notin Walk(Steps(rows, k), b)
  <2>1. PICK r \in DOMAIN rows : rows[r].kind = k /\ rows[r].other = a /\ rows[r].task = b
    BY <1>3, StepsAre
  <2>2. a \notin Reached({b}, k)
    BY <1>3, <2>1 DEF Acyclic
  <2> QED
    BY <1>2, <2>2
<1>4. ASSUME Forest(rows), NEW k \in Hierarchical, NEW r \in DOMAIN rows, rows[r].kind = k
      PROVE  rows[r].other \notin Reached({rows[r].task}, k)
  <2>1. PICK a \in Tasks, b \in Tasks : a = rows[r].other /\ b = rows[r].task
    BY <1>1
  <2>2. <<a, b>> \in Steps(rows, k)
    BY <1>4, <2>1, StepsAre
  <2>3. a \notin Walk(Steps(rows, k), b)
    BY <1>4, <2>2 DEF Forest, NoLoop
  <2> QED
    BY <1>2, <2>1, <2>3
<1>5. Acyclic => Forest(rows)
  BY <1>3 DEF Forest, NoLoop
<1>6. Forest(rows) => Acyclic
  BY <1>4 DEF Acyclic
<1> QED
  BY <1>5, <1>6

\* When every row has its mirror image, the pairs of the inverse kind are the same
\* pairs turned round.
LEMMA InverseSteps ==
    ASSUME NEW R, Rows(R), \A r \in DOMAIN R : \E s \in DOMAIN R : R[s] = Mirror(R[r]),
           NEW k \in Kinds
    PROVE  Steps(R, InverseKind[k]) = Reversed(Steps(R, k))
<1>1. InverseKind[InverseKind[k]] = k
  BY RelationsAssumption DEF InverseKind
<1>2. \A r \in DOMAIN R : R[r].task \in Tasks /\ R[r].other \in Tasks
  BY DEF Rows, Row
<1>3. ASSUME NEW j, NEW i, i = InverseKind[j], NEW a \in Tasks, NEW b \in Tasks,
             <<a, b>> \in Steps(R, j)
      PROVE  <<b, a>> \in Steps(R, i)
  <2>1. PICK r \in DOMAIN R : R[r].kind = j /\ R[r].other = a /\ R[r].task = b
    BY <1>3, StepsAre
  <2>2. PICK s \in DOMAIN R : R[s] = Mirror(R[r])
    OBVIOUS
  <2>3. R[s].kind = i /\ R[s].other = b /\ R[s].task = a
    BY <1>3, <2>1, <2>2 DEF Mirror
  <2> QED
    BY <2>3, StepsAre
<1>4. ASSUME NEW a \in Tasks, NEW b \in Tasks
      PROVE  <<a, b>> \in Steps(R, InverseKind[k]) <=> <<b, a>> \in Steps(R, k)
  BY <1>1, <1>3
<1>5. Steps(R, InverseKind[k]) \subseteq Tasks \X Tasks
  BY DEF Steps
<1> QED
  BY <1>4, <1>5 DEF Reversed

-----------------------------------------------------------------------------
(* A request that nobody overtook writes under what it has checked.        *)

\* What a creation has checked, but for the tasks being there still.
StillAllowed(row) ==
    /\ row \in Row /\ row.task # row.other
    /\ ~Stored(row)
    /\ row.kind \in Hierarchical => ~WouldCycle(row)

AloneInv ==
    /\ DOMAIN request = Linkers
    /\ \A q \in Linkers :
         /\ request[q] # Idle => "alone" \in DOMAIN request[q]
         /\ request[q].phase = "create" /\ request[q].alone => StillAllowed(request[q].row)

LEMMA AloneAtFirst == RelationsInit => AloneInv
BY DEF RelationsInit, AloneInv, Idle

LEMMA StepKeepsAlone ==
    ASSUME AloneInv, [RelationsNext]_relationVars
    PROVE  AloneInv'
<1>1. ASSUME UNCHANGED rows, NEW row PROVE StillAllowed(row)' <=> StillAllowed(row)
  BY <1>1 DEF StillAllowed, Stored, WouldCycle, Reached, ClosedUpwards
<1>2. ASSUME NEW q \in Linkers, NEW row \in Row, ReadCreate(q, row) PROVE AloneInv'
  <2>1. StillAllowed(row) /\ UNCHANGED rows
    BY <1>2 DEF ReadCreate, LinkAllowed, StillAllowed
  <2>3. DOMAIN request' = Linkers
    BY <1>2 DEF ReadCreate, AloneInv
  <2>2. \A s \in Linkers : \/ request'[s] = request[s]
                           \/ request'[s] = [phase |-> "create", row |-> row, alone |-> TRUE]
    BY <1>2 DEF ReadCreate
  <2> QED
    BY <1>1, <2>1, <2>2, <2>3 DEF AloneInv
<1>3. ASSUME NEW q \in Linkers, NEW row \in Row, ReadDelete(q, row) PROVE AloneInv'
  <2>1. UNCHANGED rows /\ DOMAIN request' = Linkers
    BY <1>3 DEF ReadDelete, AloneInv
  <2>2. \A s \in Linkers : \/ request'[s] = request[s]
                           \/ request'[s] = [phase |-> "delete", row |-> row, alone |-> TRUE,
                                doomed |-> Holding(row) \cup Holding(Mirror(row))]
    BY <1>3 DEF ReadDelete
  <2> QED
    BY <1>1, <2>1, <2>2 DEF AloneInv
<1>4. ASSUME NEW q \in Linkers, LinkCommits(q) PROVE AloneInv'
  <2>1. ASSUME NEW s \in Linkers, request'[s] # Idle
        PROVE  "alone" \in DOMAIN request'[s] /\ request'[s].alone = FALSE
    BY <1>4, <2>1 DEF LinkCommits, AloneInv
  <2>2. \A s \in Linkers : request'[s].phase = "create" => request'[s] # Idle
    BY DEF Idle
  <2>3. \A s \in Linkers : ~(request'[s].phase = "create" /\ request'[s].alone)
    BY <2>1, <2>2
  <2>4. DOMAIN request' = Linkers
    BY <1>4 DEF LinkCommits
  <2> QED
    BY <2>1, <2>3, <2>4 DEF AloneInv
<1>5. ASSUME UNCHANGED <<rows, request>> PROVE AloneInv'
  BY <1>1, <1>5 DEF AloneInv
<1> QED
  BY <1>2, <1>3, <1>4, <1>5 DEF RelationsNext, WriteCreate, WriteDelete, MarkDeleted, relationVars

LEMMA PairedRows ==
    ASSUME PairInv
    PROVE  Rows(rows) /\ \A r \in DOMAIN rows : \E s \in DOMAIN rows : rows[s] = Mirror(rows[r])
BY DEF PairInv, Paired, Rows

LEMMA CreationKeepsForest ==
    ASSUME PairInv, AloneInv, NEW q \in Linkers, WriteCreate(q), request[q].alone,
           Forest(rows), Single(rows)
    PROVE  Forest(rows') /\ Single(rows')
<1>1. PICK row : row = request[q].row
  OBVIOUS
<1>2. StillAllowed(row)
  BY <1>1 DEF AloneInv, WriteCreate
<1>3. row \in Row /\ row.task # row.other /\ row.kind \in Kinds /\ row.task \in Tasks /\ row.other \in Tasks
  BY <1>2 DEF StillAllowed, Row
<1>4. Mirror(row) \in Row /\ Mirror(Mirror(row)) = row /\ Mirror(row) # row
  BY <1>3, MirrorTwice DEF Mirror
<1>5. issued \in Nat /\ issued + 1 \notin DOMAIN rows /\ issued + 2 \notin DOMAIN rows
      /\ issued + 1 # issued + 2
  BY DEF PairInv
<1>6. /\ DOMAIN rows' = DOMAIN rows \cup {issued + 1, issued + 2}
      /\ rows'[issued + 1] = row /\ rows'[issued + 2] = Mirror(row)
      /\ \A r \in DOMAIN rows : rows'[r] = rows[r]
  BY <1>1, <1>5 DEF PairInv, WriteCreate, BothRows
<1>7. \A r \in DOMAIN rows : rows[r] # row
  BY <1>2 DEF StillAllowed, Stored
<1>8. ASSUME NEW r \in DOMAIN rows PROVE rows[r] # Mirror(row)
  <2>1. PICK s \in DOMAIN rows : rows[s] = Mirror(rows[r])
    BY PairedRows
  <2> QED
    BY <1>4, <1>7, <2>1
<1>9. Single(rows')
  <2>1. ASSUME NEW r \in DOMAIN rows', NEW s \in DOMAIN rows', rows'[r] = rows'[s] PROVE r = s
    BY <1>4, <1>6, <1>7, <1>8, <2>1 DEF Single
  <2> QED
    BY <2>1 DEF Single
<1>10. Rows(rows') /\ \A r \in DOMAIN rows' : \E s \in DOMAIN rows' : rows'[s] = Mirror(rows'[r])
  <2>1. ASSUME NEW r \in DOMAIN rows' PROVE \E s \in DOMAIN rows' : rows'[s] = Mirror(rows'[r])
    <3>1. CASE r \in DOMAIN rows
      <4>1. PICK s \in DOMAIN rows : rows[s] = Mirror(rows[r])
        BY <3>1, PairedRows
      <4> QED
        BY <1>6, <3>1, <4>1
    <3>2. CASE r = issued + 1 \/ r = issued + 2
      BY <1>4, <1>6, <3>2
    <3> QED
      BY <1>6, <3>1, <3>2
  <2> QED
    BY <1>3, <1>4, <1>6, <2>1, PairedRows DEF Rows
<1>11. ASSUME NEW k, k # row.kind, k # InverseKind[row.kind] PROVE Steps(rows', k) = Steps(rows, k)
  <2>1. Mirror(row).kind = InverseKind[row.kind]
    BY DEF Mirror
  <2>2. ASSUME NEW a \in Tasks, NEW b \in Tasks
        PROVE  <<a, b>> \in Steps(rows', k) <=> <<a, b>> \in Steps(rows, k)
    BY <1>6, <1>11, <2>1, StepsAre
  <2>3. Steps(rows', k) \subseteq Tasks \X Tasks /\ Steps(rows, k) \subseteq Tasks \X Tasks
    BY DEF Steps
  <2> QED
    BY <2>2, <2>3
<1>12. CASE row.kind \notin Hierarchical
  <2>1. InverseKind[row.kind] \notin Hierarchical
    BY <1>3, <1>12, RelationsAssumption DEF InverseKind, Hierarchical
  <2> QED
    BY <1>9, <1>11, <1>12, <2>1 DEF Forest
<1>13. CASE row.kind \in Hierarchical
  <2>1. PICK k : k = row.kind
    OBVIOUS
  <2>2. InverseKind[k] # k /\ Hierarchical = {k, InverseKind[k]}
    BY <1>13, <2>1 DEF InverseKind, Hierarchical
  <2>3. row.other \notin Walk(Steps(rows, k), row.task)
    BY <1>2, <1>13, <2>1, PairedRows, ReachedIs DEF StillAllowed, WouldCycle
  <2>4. Mirror(row).kind # k
    BY <2>1, <2>2 DEF Mirror
  <2>5. ASSUME NEW a \in Tasks, NEW b \in Tasks
        PROVE  <<a, b>> \in Steps(rows', k) <=>
                 <<a, b>> \in Steps(rows, k) \cup {<<row.other, row.task>>}
    BY <1>6, <2>1, <2>4, StepsAre
  <2>6. Steps(rows', k) \subseteq Tasks \X Tasks /\ Steps(rows, k) \subseteq Tasks \X Tasks
    BY DEF Steps
  <2>7. Steps(rows', k) = Steps(rows, k) \cup {<<row.other, row.task>>}
    BY <1>3, <2>5, <2>6
  <2>8. NoLoop(Steps(rows', k))
    BY <1>3, <1>13, <2>1, <2>3, <2>7, OneMoreStep DEF Forest
  <2>9. Steps(rows', InverseKind[k]) = Reversed(Steps(rows', k))
    BY <1>3, <1>10, <2>1, InverseSteps
  <2>10. NoLoop(Steps(rows', InverseKind[k]))
    BY <2>8, <2>9, BackwardsToo
  <2> QED
    BY <1>9, <2>2, <2>8, <2>10 DEF Forest
<1> QED
  BY <1>12, <1>13

LEMMA DeletionKeepsForest ==
    ASSUME NEW q \in Linkers, WriteDelete(q), Forest(rows), Single(rows)
    PROVE  Forest(rows') /\ Single(rows')
<1>1. DOMAIN rows' \subseteq DOMAIN rows /\ \A r \in DOMAIN rows' : rows'[r] = rows[r]
  BY DEF WriteDelete
<1>2. \A k : Steps(rows', k) \subseteq Steps(rows, k)
  BY <1>1 DEF Steps
<1> QED
  BY <1>1, <1>2, FewerSteps DEF Forest, Single

\* A step by which a request ends that nobody overtook is its own write.
LEMMA EndsByWriting ==
    ASSUME AloneInv, RelationsNext,
           NEW q \in Linkers, request[q] # Idle, request'[q] = Idle, request[q].alone
    PROVE  WriteCreate(q) \/ WriteDelete(q)
<1>1. ASSUME NEW s \in Linkers, s # q, LinkCommits(s) PROVE FALSE
  <2>1. request'[q] = [request[q] EXCEPT !.alone = FALSE] /\ "alone" \in DOMAIN request[q]
    BY <1>1 DEF LinkCommits, AloneInv
  <2>2. request'[q].alone = FALSE
    BY <2>1
  <2> QED
    BY <2>2 DEF Idle
<1>2. ASSUME NEW s \in Linkers, NEW row \in Row, ReadCreate(s, row) \/ ReadDelete(s, row) PROVE FALSE
  <2>1. s # q
    BY <1>2 DEF ReadCreate, ReadDelete
  <2>2. request'[q] = request[q]
    BY <1>2, <2>1 DEF ReadCreate, ReadDelete, AloneInv
  <2> QED
    BY <2>2
<1>3. ASSUME NEW t \in Tasks, MarkDeleted(t) PROVE FALSE
  BY <1>3 DEF MarkDeleted
<1> QED
  BY <1>1, <1>2, <1>3 DEF RelationsNext, WriteCreate, WriteDelete

\* A request that no other overtook leaves a forest a forest and stores no relation
\* twice: the cycle and the duplicate check, which look at the direction the
\* request names, cover the mirror row as well.
THEOREM LoneLinkKeepsForest == RelationsSpec => AloneKeepsForest
<1> DEFINE Ends(q) == request[q] # Idle /\ request'[q] = Idle /\ request[q].alone
<1> DEFINE Kept == \A q \in Linkers : Ends(q) => (Acyclic /\ NoTwins => (Acyclic /\ NoTwins)')
<1>1. ASSUME PairInv, AloneInv, RelationsNext, PairInv', NEW q \in Linkers, Ends(q), Acyclic, NoTwins
      PROVE  (Acyclic /\ NoTwins)'
  <2>1. Forest(rows) /\ Single(rows)
    BY <1>1, AcyclicIs, PairedRows DEF NoTwins, Single
  <2>2. WriteCreate(q) \/ WriteDelete(q)
    BY <1>1, EndsByWriting
  <2>3. Forest(rows') /\ Single(rows')
    BY <1>1, <2>1, <2>2, CreationKeepsForest, DeletionKeepsForest
  <2>4. (Rows(rows) => (Acyclic <=> Forest(rows)))'
    BY AcyclicIs, PTL
  <2>5. Rows(rows)'
    BY <1>1 DEF PairInv, Rows
  <2> QED
    BY <2>3, <2>4, <2>5 DEF NoTwins, Single
<1>2. PairInv /\ AloneInv /\ PairInv' /\ [RelationsNext]_relationVars => [Kept]_relationVars
  BY <1>1
<1>3. PairInv /\ [RelationsNext]_relationVars => PairInv'
  BY StepKeepsPairs
<1>4. AloneInv /\ [RelationsNext]_relationVars => AloneInv'
  BY StepKeepsAlone
<1> QED
  BY <1>2, <1>3, <1>4, PairInvAtFirst, AloneAtFirst, PTL DEF RelationsSpec, AloneKeepsForest

-----------------------------------------------------------------------------
(* Reading relations.                                                      *)

LEMMA InversesAreKinds == \A k \in Kinds : k \in DOMAIN InverseKind /\ InverseKind[k] \in Kinds
BY RelationsAssumption

\* What is fetched ahead for a page that has t tells of t what a query for t does.
LEMMA PrefetchTells ==
    ASSUME NEW t, NEW page, t \in page, NEW readable
    PROVE  RelatedFromPrefetch(t, Prefetch(page, readable)) = RelatedTasks(t, readable)
<1> DEFINE fetched == Prefetch(page, readable)
<1>1. /\ fetched.rows = {r \in DOMAIN rows : rows[r].task \in page}
      /\ fetched.ends = FarEnds(page) /\ fetched.permitted = FarEnds(page) \cap readable
  BY DEF Prefetch
<1>2. ASSUME NEW k \in Kinds, NEW o
      PROVE  /\ o \in fetched.ends \cap fetched.permitted
             /\ \E r \in fetched.rows : rows[r] = [task |-> t, other |-> o, kind |-> k]
             <=> o \in FarEnds({t}) \cap readable /\ Stored([task |-> t, other |-> o, kind |-> k])
  <2>1. \A r \in DOMAIN rows : rows[r] = [task |-> t, other |-> o, kind |-> k] =>
          rows[r].task = t /\ rows[r].other = o /\ r \in fetched.rows
    BY <1>1
  <2>2. (\E r \in fetched.rows : rows[r] = [task |-> t, other |-> o, kind |-> k])
          <=> Stored([task |-> t, other |-> o, kind |-> k])
    BY <1>1, <2>1 DEF Stored
  <2>3. Stored([task |-> t, other |-> o, kind |-> k]) =>
          ((o \in FarEnds(page) <=> o \in alive) /\ (o \in FarEnds({t}) <=> o \in alive))
    BY <2>1 DEF Stored, FarEnds
  <2> QED
    BY <1>1, <2>2, <2>3
<1> HIDE DEF fetched
<1>3. \A k \in Kinds : {o \in fetched.ends \cap fetched.permitted :
                          \E r \in fetched.rows : rows[r] = [task |-> t, other |-> o, kind |-> k]}
                       = {o \in FarEnds({t}) \cap readable : Stored([task |-> t, other |-> o, kind |-> k])}
  BY <1>2
<1>4. RelatedFromPrefetch(t, fetched) = RelatedTasks(t, readable)
  BY <1>3 DEF RelatedFromPrefetch, RelatedTasks
<1> QED
  BY <1>4 DEF fetched

LEMMA BothEnds ==
    ASSUME Mirrored, NEW t \in alive, NEW readable, t \in readable, NEW k \in Kinds,
           NEW o \in RelatedTasks(t, readable)[k]
    PROVE  t \in RelatedTasks(o, readable)[InverseKind[k]]
<1>1. Stored([task |-> t, other |-> o, kind |-> k])
  BY DEF RelatedTasks
<1>2. PICK r \in DOMAIN rows : rows[r] = [task |-> t, other |-> o, kind |-> k]
  BY <1>1 DEF Stored
<1>3. Mirror(rows[r]) = [task |-> o, other |-> t, kind |-> InverseKind[k]]
  BY <1>2 DEF Mirror
<1>4. Stored([task |-> o, other |-> t, kind |-> InverseKind[k]])
  BY <1>3 DEF Mirrored
<1>5. t \in FarEnds({o})
  BY <1>4 DEF Stored, FarEnds
<1> QED
  BY <1>4, <1>5, InversesAreKinds DEF RelatedTasks

\* Whatever relations are written and however requests overlap: a task read with its
\* page shows the relations that it shows alone, and both ends of one show it.
THEOREM RelatedAlike == RelationsSpec => []RelatedAgrees
<1>1. Mirrored => RelatedAgrees
  BY PrefetchTells, BothEnds DEF RelatedAgrees
<1> QED
  BY <1>1, RowsInPairs, PTL

-----------------------------------------------------------------------------
(* The rounds of the walk down to the subtasks.                            *)

\* Induction over data, without an induction theorem: the least counterexample.
LEMMA LeastOf ==
    ASSUME NEW T \in SUBSET Nat, T # {}
    PROVE  \E m \in T : \A x \in T : m <= x
<1> DEFINE R == OpToRel(<, Nat)
<1>1. \E m \in T : \A y \in T : ~(<<y, m>> \in R)
  <2> HIDE DEF R
  <2>1. IsWellFoundedOn(R, Nat)
    BY NatLessThanWellFounded DEF R
  <2> QED
    BY <2>1, WFMin
<1>2. PICK m \in T : \A y \in T : ~(y < m)
  BY <1>1 DEF OpToRel
<1> QED
  BY <1>2

LEMMA TasksCounted == IsFiniteSet(Tasks) /\ Cardinality(Tasks) \in Nat
BY FS_CardinalityType, CollectionsAssumption

RoundsTo(T, n) == LET f[i \in 0..n] == IF i = 0 THEN Subtasks(T) ELSE Subtasks(f[i - 1]) IN f
AreRounds(f, T, n) == f = [i \in 0..n |-> IF i = 0 THEN Subtasks(T) ELSE Subtasks(f[i - 1])]

LEMMA RoundsExist ==
    ASSUME NEW T, NEW n \in Nat
    PROVE  \E f : AreRounds(f, T, n)
<1> DEFINE C == {d \in Nat : ~\E f : AreRounds(f, T, d)}
<1> SUFFICES ASSUME C # {} PROVE FALSE
  OBVIOUS
<1>1. PICK d \in C : \A x \in C : d <= x
  BY LeastOf
<1>2. d \in Nat /\ ~\E f : AreRounds(f, T, d)
  OBVIOUS
<1>3. d # 0
  <2>1. AreRounds([i \in 0..0 |-> Subtasks(T)], T, 0)
    BY DEF AreRounds
  <2> QED
    BY <2>1, <1>2
<1>4. d - 1 \in Nat /\ d - 1 \notin C
  BY <1>1, <1>2, <1>3
<1>5. PICK f : AreRounds(f, T, d - 1)
  BY <1>4
<1> HIDE DEF C
<1> DEFINE g == [i \in 0..d |-> IF i = 0 THEN Subtasks(T) ELSE Subtasks(f[i - 1])]
<1>6. \A i \in 0..(d - 1) : g[i] = f[i]
  BY <1>2, <1>5 DEF AreRounds
<1>7. \A i \in 0..d : i # 0 => g[i - 1] = f[i - 1]
  <2> HIDE DEF g
  <2>1. \A i \in 0..d : i # 0 => i - 1 \in 0..(d - 1)
    BY <1>2
  <2> QED
    BY <1>6, <2>1
<1>8. g = [i \in 0..d |-> IF i = 0 THEN Subtasks(T) ELSE Subtasks(g[i - 1])]
  <2>1. \A i \in 0..d : (IF i = 0 THEN Subtasks(T) ELSE Subtasks(f[i - 1]))
                        = IF i = 0 THEN Subtasks(T) ELSE Subtasks(g[i - 1])
    <3> HIDE DEF g
    <3> QED
      BY <1>7
  <2> QED
    BY <2>1
<1>9. AreRounds(g, T, d)
  BY <1>8 DEF AreRounds
<1> QED
  BY <1>2, <1>9

LEMMA RoundsToIs ==
    ASSUME NEW T, NEW n \in Nat
    PROVE  /\ RoundsTo(T, n)[0] = Subtasks(T)
           /\ \A i \in 1..n : RoundsTo(T, n)[i] = Subtasks(RoundsTo(T, n)[i - 1])
<1> DEFINE w == RoundsTo(T, n)
<1>1. w = [i \in 0..n |-> IF i = 0 THEN Subtasks(T) ELSE Subtasks(w[i - 1])]
  BY RoundsExist DEF AreRounds, RoundsTo
<1> HIDE DEF w
<1>2. w[0] = Subtasks(T)
  BY <1>1
<1>3. ASSUME NEW i \in 1..n PROVE w[i] = Subtasks(w[i - 1])
  BY <1>1
<1> QED
  BY <1>2, <1>3 DEF w

\* More rounds begin as fewer do.
LEMMA RoundsAgree ==
    ASSUME NEW T, NEW n \in Nat
    PROVE  \A i \in 0..n : RoundsTo(T, n)[i] = RoundsTo(T, n + 1)[i]
<1> DEFINE v == RoundsTo(T, n)
           w == RoundsTo(T, n + 1)
           C == {i \in 0..n : v[i] # w[i]}
<1> SUFFICES ASSUME C # {} PROVE FALSE
  OBVIOUS
<1>1. PICK i \in C : \A x \in C : i <= x
  <2>1. C \in SUBSET Nat
    OBVIOUS
  <2> QED
    BY <2>1, LeastOf
<1>2. i \in 0..n /\ v[i] # w[i]
  OBVIOUS
<1>3. v[0] = Subtasks(T) /\ \A j \in 1..n : v[j] = Subtasks(v[j - 1])
  BY RoundsToIs
<1>4. w[0] = Subtasks(T) /\ \A j \in 1..(n + 1) : w[j] = Subtasks(w[j - 1])
  <2>1. n + 1 \in Nat
    OBVIOUS
  <2> QED
    BY <2>1, RoundsToIs
<1> HIDE DEF v, w
<1>5. i # 0
  BY <1>2, <1>3, <1>4
<1>6. i - 1 \in 0..n /\ i - 1 \notin C /\ i \in 1..n /\ i \in 1..(n + 1)
  BY <1>1, <1>2, <1>5
<1>7. v[i - 1] = w[i - 1]
  BY <1>6
<1> QED
  BY <1>2, <1>3, <1>4, <1>6, <1>7

\* Each round holds the subtasks of the round before.
LEMMA RoundIs ==
    ASSUME NEW T
    PROVE  /\ DOMAIN Round(T) = 0..Cardinality(Tasks)
           /\ Round(T)[0] = Subtasks(T)
           /\ \A n \in 1..Cardinality(Tasks) : Round(T)[n] = Subtasks(Round(T)[n - 1])
<1>1. Cardinality(Tasks) \in Nat
  BY TasksCounted
<1>2. Round(T) = [n \in 0..Cardinality(Tasks) |-> RoundsTo(T, n)[n]]
  BY DEF Round, RoundsTo
<1>3. RoundsTo(T, 0)[0] = Subtasks(T)
  BY RoundsToIs
<1>4. ASSUME NEW n \in 1..Cardinality(Tasks)
      PROVE  Round(T)[n] = Subtasks(Round(T)[n - 1])
  <2>1. n \in Nat /\ n \in 1..n /\ n - 1 \in Nat /\ n - 1 \in 0..(n - 1) /\ n = (n - 1) + 1
    OBVIOUS
  <2>2. RoundsTo(T, n)[n] = Subtasks(RoundsTo(T, n)[n - 1])
    BY <2>1, RoundsToIs
  <2>3. RoundsTo(T, n - 1)[n - 1] = RoundsTo(T, n)[n - 1]
    BY <2>1, RoundsAgree
  <2>4. n \in 0..Cardinality(Tasks) /\ n - 1 \in 0..Cardinality(Tasks)
    BY <1>1
  <2> QED
    BY <1>2, <2>2, <2>3, <2>4
<1> QED
  BY <1>1, <1>2, <1>3, <1>4
-----------------------------------------------------------------------------
(* In a forest the walk ends: with each round the tasks lie deeper.        *)

\* How many tasks are met on the way up, the task itself among them.
Depth(t) == Cardinality(Walk(Steps(rows, "subtask"), t))

LEMMA DepthType ==
    ASSUME NEW t \in Tasks
    PROVE  Depth(t) \in 1..Cardinality(Tasks)
<1> DEFINE W == Walk(Steps(rows, "subtask"), t)
<1>1. W \in SUBSET Tasks /\ t \in W
  BY WalkIsClosed
<1> HIDE DEF W
<1>2. IsFiniteSet(Tasks) /\ Cardinality(Tasks) \in Nat
  BY TasksCounted
<1>3. IsFiniteSet(W) /\ Cardinality(W) <= Cardinality(Tasks)
  BY <1>1, <1>2, FS_Subset
<1>4. Cardinality(W) \in Nat
  BY <1>3, FS_CardinalityType
<1>5. Cardinality(W) # 0
  BY <1>1, <1>3, FS_EmptySet
<1> QED
  BY <1>2, <1>3, <1>4, <1>5 DEF W, Depth

LEMMA Deeper ==
    ASSUME Rows(rows), Acyclic, NEW r \in DOMAIN rows, rows[r].kind = "subtask"
    PROVE  /\ rows[r].task \in Tasks /\ rows[r].other \in Tasks
           /\ Depth(rows[r].task) < Depth(rows[r].other)
<1> DEFINE E == Steps(rows, "subtask")
<1>1. PICK a \in Tasks, b \in Tasks : a = rows[r].other /\ b = rows[r].task
  BY DEF Rows, Row
<1>2. <<a, b>> \in E
  BY <1>1, StepsAre
<1>3. NoLoop(E)
  BY AcyclicIs DEF Forest, Hierarchical
<1>4. a \notin Walk(E, b)
  BY <1>2, <1>3 DEF NoLoop
<1>5. Walk(E, a) \in SUBSET Tasks /\ a \in Walk(E, a) /\ ClosedIn(Walk(E, a), E)
  BY WalkIsClosed
<1>6. b \in Walk(E, a)
  BY <1>2, <1>5 DEF ClosedIn
<1>7. Walk(E, b) \subseteq Walk(E, a)
  BY <1>5, <1>6, WalkIsLeast
<1>8. IsFiniteSet(Walk(E, a))
  BY <1>5, TasksCounted, FS_Subset
<1>9. Cardinality(Walk(E, b)) <= Cardinality(Walk(E, a))
      /\ (Cardinality(Walk(E, a)) = Cardinality(Walk(E, b)) => Walk(E, a) = Walk(E, b))
  BY <1>7, <1>8, FS_Subset
<1>10. Depth(a) \in 1..Cardinality(Tasks) /\ Depth(b) \in 1..Cardinality(Tasks)
  BY DepthType
<1>11. Depth(b) <= Depth(a) /\ Depth(a) # Depth(b)
  BY <1>4, <1>5, <1>9 DEF Depth
<1>12. Cardinality(Tasks) \in Nat
  BY TasksCounted
<1>13. Depth(b) < Depth(a)
  BY <1>10, <1>11, <1>12
<1> QED
  BY <1>1, <1>13

LEMMA RoundsAreDeep ==
    ASSUME Rows(rows), Acyclic, NEW T
    PROVE  \A n \in 0..Cardinality(Tasks) :
             \A x \in Round(T)[n] : x \in Tasks /\ n + 2 <= Depth(x)
<1> DEFINE N == Cardinality(Tasks)
           Deep(n) == \A x \in Round(T)[n] : x \in Tasks /\ n + 2 <= Depth(x)
           C == {n \in 0..N : ~Deep(n)}
<1> SUFFICES ASSUME C # {} PROVE FALSE
  OBVIOUS
<1>1. N \in Nat
  BY TasksCounted
<1> HIDE DEF N
<1>2. PICK n \in C : \A x \in C : n <= x
  <2>1. C \in SUBSET Nat
    BY <1>1
  <2> QED
    BY <2>1, LeastOf
<1>3. n \in 0..N /\ ~Deep(n)
  OBVIOUS
<1>4. PICK x \in Round(T)[n] : ~(x \in Tasks /\ n + 2 <= Depth(x))
  BY <1>3
<1>5. Round(T)[0] = Subtasks(T) /\ \A m \in 1..N : Round(T)[m] = Subtasks(Round(T)[m - 1])
  BY RoundIs DEF N
<1>6. CASE n = 0
  <2>1. PICK r \in DOMAIN rows : rows[r].kind = "subtask" /\ rows[r].other = x
    BY <1>4, <1>5, <1>6 DEF Subtasks
  <2>2. x \in Tasks /\ rows[r].task \in Tasks /\ Depth(rows[r].task) < Depth(x)
    BY <2>1, Deeper
  <2>3. Depth(rows[r].task) \in 1..N /\ Depth(x) \in 1..N
    BY <2>2, DepthType DEF N
  <2> QED
    BY <1>1, <1>4, <1>6, <2>2, <2>3
<1>7. CASE n # 0
  <2>1. n \in 1..N /\ n - 1 \in 0..N /\ n - 1 \notin C
    BY <1>1, <1>2, <1>3, <1>7
  <2>2. Deep(n - 1)
    BY <2>1
  <2>3. Round(T)[n] = Subtasks(Round(T)[n - 1])
    BY <1>5, <2>1
  <2>4. PICK r \in DOMAIN rows : /\ rows[r].kind = "subtask" /\ rows[r].other = x
                                 /\ rows[r].task \in Round(T)[n - 1]
    BY <1>4, <2>3 DEF Subtasks
  <2>5. x \in Tasks /\ rows[r].task \in Tasks /\ Depth(rows[r].task) < Depth(x)
    BY <2>4, Deeper
  <2>6. n - 1 + 2 <= Depth(rows[r].task)
    BY <2>2, <2>4
  <2>7. Depth(rows[r].task) \in 1..N /\ Depth(x) \in 1..N
    BY <2>5, DepthType DEF N
  <2> QED
    BY <1>1, <1>3, <1>4, <2>5, <2>6, <2>7
<1> QED
  BY <1>6, <1>7

LEMMA TheWalkEnds ==
    ASSUME Rows(rows), Acyclic, NEW T
    PROVE  WalkEnds(T)
<1>1. Cardinality(Tasks) \in Nat
  BY TasksCounted
<1>2. Cardinality(Tasks) \in 0..Cardinality(Tasks)
  BY <1>1
<1>3. \A x \in Round(T)[Cardinality(Tasks)] : x \in Tasks /\ Cardinality(Tasks) + 2 <= Depth(x)
  BY <1>2, RoundsAreDeep
<1>4. ASSUME NEW x \in Round(T)[Cardinality(Tasks)] PROVE FALSE
  <2>1. Depth(x) \in 1..Cardinality(Tasks)
    BY <1>3, DepthType
  <2> QED
    BY <1>1, <1>3, <2>1
<1> QED
  BY <1>4 DEF WalkEnds

-----------------------------------------------------------------------------
(* Every task of a scope is a root of it or hangs below one.               *)

BelowOrRoot(t, root) == t = root \/ \E n \in 0..Cardinality(Tasks) : t \in Round({root})[n]

LEMMA RootAbove ==
    ASSUME Rows(rows), Acyclic, Mirrored, NEW scope \in SUBSET Tasks
    PROVE  \A t \in scope : \E root \in scope : IsRoot(root, scope) /\ BelowOrRoot(t, root)
<1> DEFINE N == Cardinality(Tasks)
           Hangs(t) == \E root \in scope : IsRoot(root, scope) /\ BelowOrRoot(t, root)
           C == {d \in Nat : \E t \in scope : Depth(t) = d /\ ~Hangs(t)}
<1>1. N \in Nat
  BY TasksCounted
<1> SUFFICES ASSUME NEW u \in scope, ~Hangs(u) PROVE FALSE
  OBVIOUS
<1>2. Depth(u) \in 1..N
  BY DepthType
<1>3. Depth(u) \in Nat
  BY <1>1, <1>2
<1>4. Depth(u) \in C
  BY <1>3
<1>5. PICK d \in C : \A x \in C : d <= x
  <2>1. C \in SUBSET Nat /\ C # {}
    BY <1>4
  <2> QED
    BY <2>1, LeastOf
<1>6. PICK t \in scope : Depth(t) = d /\ ~Hangs(t)
  OBVIOUS
<1>7. ~IsRoot(t, scope)
  BY <1>6 DEF BelowOrRoot
<1>8. PICK r \in DOMAIN rows : rows[r].task = t /\ rows[r].kind = "parenttask" /\ rows[r].other \in scope
  BY <1>7 DEF IsRoot
<1>9. PICK s \in DOMAIN rows : rows[s] = Mirror(rows[r])
  BY DEF Mirrored, Stored
<1> DEFINE p == rows[s].task
<1>10. rows[s].kind = "subtask" /\ rows[s].other = t /\ p = rows[r].other
  BY <1>8, <1>9 DEF Mirror, InverseKind
<1>11. p \in scope /\ Depth(p) < Depth(t)
  BY <1>8, <1>10, Deeper
<1>12. Hangs(p)
  <2>1. Depth(p) \in 1..N
    BY <1>11, DepthType
  <2>2. Depth(p) \in Nat
    BY <1>1, <2>1
  <2>3. Depth(p) \notin C
    <3> HIDE DEF C
    <3>1. d \in Nat
      BY DEF C
    <3> QED
      BY <1>5, <1>6, <1>11, <2>2, <3>1
  <2> QED
    BY <1>11, <2>2, <2>3
<1>13. PICK root \in scope : IsRoot(root, scope) /\ BelowOrRoot(p, root)
  BY <1>12
<1>14. DOMAIN Round({root}) = 0..N /\ Round({root})[0] = Subtasks({root})
       /\ \A n \in 1..N : Round({root})[n] = Subtasks(Round({root})[n - 1])
  BY RoundIs
<1>15. CASE p = root
  <2>1. t \in Subtasks({root})
    BY <1>10, <1>15 DEF Subtasks
  <2>2. 0 \in 0..N
    BY <1>1
  <2>3. BelowOrRoot(t, root)
    BY <1>14, <2>1, <2>2 DEF BelowOrRoot
  <2> QED
    BY <1>6, <1>13, <2>3
<1>16. ASSUME NEW n \in 0..N, p \in Round({root})[n] PROVE FALSE
  <2>1. n + 2 <= Depth(p)
    BY <1>16, RoundsAreDeep
  <2>2. Depth(p) \in 1..N
    BY <1>11, DepthType
  <2>3. n + 1 \in 1..N /\ n + 1 \in 0..N /\ (n + 1) - 1 = n
    BY <1>1, <2>1, <2>2
  <2>4. Round({root})[n + 1] = Subtasks(Round({root})[n])
    BY <1>14, <2>3
  <2>5. t \in Round({root})[n + 1]
    BY <1>10, <1>16, <2>4 DEF Subtasks
  <2>6. BelowOrRoot(t, root)
    BY <2>3, <2>5 DEF BelowOrRoot
  <2> QED
    BY <1>6, <1>13, <2>6
<1> QED
  BY <1>13, <1>15, <1>16 DEF BelowOrRoot

-----------------------------------------------------------------------------
(* Sequences that hold each element of a set once, and their order.        *)

LEMMA SetToSeqsIs ==
    ASSUME NEW S, IsFiniteSet(S), NEW f \in SetToSeqs(S)
    PROVE  /\ Cardinality(S) \in Nat
           /\ f \in Seq(S) /\ Len(f) = Cardinality(S) /\ DOMAIN f = 1..Cardinality(S)
           /\ \A i, j \in 1..Cardinality(S) : i # j => f[i] # f[j]
           /\ \A t \in S : \E i \in 1..Cardinality(S) : f[i] = t
<1> DEFINE n == Cardinality(S)
<1>1. n \in Nat
  BY FS_CardinalityType
<1>2. f \in [1..n -> S] /\ \A i, j \in 1..n : i # j => f[i] # f[j]
  BY DEF SetToSeqs
<1>3. Cardinality(1..n) = n /\ IsFiniteSet(1..n)
  <2> HIDE DEF n
  <2>1. Cardinality(1..n) = (IF 1 > n THEN 0 ELSE n - 1 + 1) /\ IsFiniteSet(1..n)
    BY <1>1, FS_Interval
  <2> QED
    BY <1>1, <2>1
<1>4. f \in Injection(1..n, S)
  BY <1>2 DEF Injection, IsInjective
<1>5. f \in Surjection(1..n, S)
  BY <1>3, <1>4, FS_Injection
<1> HIDE DEF n
<1>6. \A t \in S : \E i \in 1..n : f[i] = t
  BY <1>5 DEF Surjection
<1>7. f \in Seq(S) /\ Len(f) = n /\ DOMAIN f = 1..n
  BY <1>1, <1>2
<1> QED
  BY <1>1, <1>2, <1>6, <1>7 DEF n

\* f lists S in ascending order of v.
Ascending(f, S, v) ==
    /\ f \in SetToSeqs(S)
    /\ \A i, j \in 1..Cardinality(S) : i < j => v[f[i]] <= v[f[j]]

LEMMA AscendingFirst ==
    ASSUME NEW S, IsFiniteSet(S), NEW v \in [S -> Nat], NEW m \in S, \A x \in S : v[m] <= v[x],
           NEW f, Ascending(f, S \ {m}, v)
    PROVE  \E g : Ascending(g, S, v)
<1> DEFINE n == Cardinality(S)
           R == S \ {m}
<1>1. n \in Nat /\ n # 0 /\ Cardinality(R) = n - 1
  BY FS_CardinalityType, FS_RemoveElement, FS_EmptySet
<1> HIDE DEF n
<1>2. /\ f \in [1..(n - 1) -> R]
      /\ \A i, j \in 1..(n - 1) : i # j => f[i] # f[j]
      /\ \A i, j \in 1..(n - 1) : i < j => v[f[i]] <= v[f[j]]
  BY <1>1 DEF Ascending, SetToSeqs
<1> DEFINE g == [i \in 1..n |-> IF i = 1 THEN m ELSE f[i - 1]]
<1>3. g[1] = m /\ \A i \in 1..n : i # 1 => i - 1 \in 1..(n - 1) /\ g[i] = f[i - 1] /\ f[i - 1] \in R
  BY <1>1, <1>2
<1>4. g \in [1..n -> S]
  BY <1>1, <1>3
<1> HIDE DEF g
<1>5. ASSUME NEW i \in 1..n, NEW j \in 1..n, i < j PROVE g[i] # g[j] /\ v[g[i]] <= v[g[j]]
  <2>1. j # 1 /\ j - 1 \in 1..(n - 1) /\ g[j] = f[j - 1] /\ f[j - 1] \in R
    BY <1>1, <1>3, <1>5
  <2>2. CASE i = 1
    BY <1>3, <2>1, <2>2
  <2>3. CASE i # 1
    <3>1. i - 1 \in 1..(n - 1) /\ g[i] = f[i - 1] /\ i - 1 < j - 1 /\ i - 1 # j - 1
      BY <1>1, <1>3, <1>5, <2>3
    <3> QED
      BY <1>2, <2>1, <3>1
  <2> QED
    BY <2>2, <2>3
<1>6. ASSUME NEW i \in 1..n, NEW j \in 1..n, i # j PROVE g[i] # g[j]
  <2>1. i < j \/ j < i
    BY <1>1, <1>6
  <2> QED
    BY <1>5, <2>1
<1>7. g \in SetToSeqs(S)
  BY <1>4, <1>6 DEF SetToSeqs, n
<1>8. Ascending(g, S, v)
  BY <1>5, <1>7 DEF Ascending, n
<1> QED
  BY <1>8

LEMMA AscendingExists ==
    ASSUME NEW S, IsFiniteSet(S), NEW v \in [S -> Nat]
    PROVE  \E f : Ascending(f, S, v)
<1> DEFINE C == {d \in Nat : \E R \in SUBSET S : Cardinality(R) = d /\ ~\E f : Ascending(f, R, v)}
<1> SUFFICES ASSUME ~\E f : Ascending(f, S, v) PROVE FALSE
  OBVIOUS
<1>1. Cardinality(S) \in C
  BY FS_CardinalityType
<1>2. PICK d \in C : \A x \in C : d <= x
  <2>1. C \in SUBSET Nat /\ C # {}
    BY <1>1
  <2> QED
    BY <2>1, LeastOf
<1>3. PICK R \in SUBSET S : Cardinality(R) = d /\ ~\E f : Ascending(f, R, v)
  OBVIOUS
<1>4. d \in Nat
  OBVIOUS
<1>5. IsFiniteSet(R)
  BY FS_Subset
<1>6. R # {}
  <2> SUFFICES ASSUME R = {} PROVE FALSE
    OBVIOUS
  <2>1. Cardinality({}) = 0
    BY FS_EmptySet
  <2>2. [i \in 1..0 |-> i] \in SetToSeqs({})
    BY <2>1 DEF SetToSeqs
  <2>3. Ascending([i \in 1..0 |-> i], {}, v)
    BY <2>1, <2>2 DEF Ascending
  <2> QED
    BY <1>3, <2>3
<1>7. PICK m \in R : \A x \in R : v[m] <= v[x]
  <2> DEFINE V == {v[x] : x \in R}
  <2>1. V \in SUBSET Nat /\ V # {}
    BY <1>6
  <2>2. PICK w \in V : \A x \in V : w <= x
    BY <2>1, LeastOf
  <2>3. PICK m \in R : v[m] = w
    OBVIOUS
  <2> QED
    BY <2>2, <2>3
<1>8. Cardinality(R) # 0 /\ Cardinality(R \ {m}) = Cardinality(R) - 1
  BY <1>5, <1>6, FS_EmptySet, FS_RemoveElement
<1>9. d - 1 \in Nat /\ d - 1 \notin C
  <2> HIDE DEF C
  <2> QED
    BY <1>2, <1>3, <1>4, <1>8
<1>10. R \ {m} \in SUBSET S /\ Cardinality(R \ {m}) = d - 1
  BY <1>3, <1>8
<1>11. PICK f : Ascending(f, R \ {m}, v)
  BY <1>9, <1>10
<1> HIDE DEF C
<1> DEFINE w == [x \in R |-> v[x]]
<1>12. w \in [R -> Nat] /\ \A x \in R : w[x] = v[x]
  OBVIOUS
<1> HIDE DEF w
<1>13. \A Q \in SUBSET R : \A h : Ascending(h, Q, w) <=> Ascending(h, Q, v)
  BY <1>12 DEF Ascending, SetToSeqs
<1>14. Ascending(f, R \ {m}, w) /\ \A x \in R : w[m] <= w[x]
  BY <1>7, <1>11, <1>12, <1>13
<1>15. \E g : Ascending(g, R, w)
  BY <1>5, <1>12, <1>14, AscendingFirst
<1> QED
  BY <1>3, <1>13, <1>15

-----------------------------------------------------------------------------
(* The expanded listing.                                                   *)

ById == [by |-> "id", order |-> "asc", view |-> NoView]

LEMMA PlainParameters == ParsedSort(<<>>, <<>>, NoView) = <<>>
<1> DEFINE all == [i \in DOMAIN <<>> |-> [by |-> <<>>[i], order |-> Direction(<<>>, i),
                                         view |-> IF <<>>[i] = "position" THEN NoView ELSE NoView]]
<1>1. ParsedSort(<<>>, <<>>, NoView) = all
  BY DEF ParsedSort, NoView
<1>2. DOMAIN all = 1..0
  OBVIOUS
<1>3. all = <<>>
  BY <1>2
<1> QED
  BY <1>1, <1>3

LEMMA ExpandedSort ==
    ASSUME NEW n
    PROVE  SortOf(OnPage(Expanded, n)) = <<ById>>
<1>1. /\ OnPage(Expanded, n).sort = <<>> /\ OnPage(Expanded, n).orders = <<>>
      /\ OnPage(Expanded, n).view = NoView
  BY DEF OnPage, Expanded
<1>2. WithIdTiebreaker(<<>>) = <<ById>>
  BY DEF WithIdTiebreaker, ById
<1> QED
  BY <1>1, <1>2, PlainParameters DEF SortOf

LEMMA OrderedById ==
    ASSUME NEW S \in SUBSET Tasks
    PROVE  Ordered(S, <<ById>>) # {}
<1> DEFINE v == [t \in S |-> t]
           n == Cardinality(S)
<1>1. IsFiniteSet(S)
  BY TasksCounted, FS_Subset
<1>2. v \in [S -> Nat]
  BY RelationsAssumption
<1>3. PICK f : Ascending(f, S, v)
  BY <1>1, <1>2, AscendingExists
<1>4. f \in SetToSeqs(S)
  BY <1>3 DEF Ascending
<1>5. DOMAIN f = 1..n /\ f \in [1..n -> S]
  BY <1>4 DEF SetToSeqs
<1>6. ASSUME NEW i \in DOMAIN f, NEW j \in DOMAIN f, i < j
      PROVE  InOrder(<<ById>>, f[i], f[j])
  <2>1. f[i] \in S /\ f[j] \in S /\ v[f[i]] <= v[f[j]]
    BY <1>3, <1>5, <1>6 DEF Ascending
  <2>2. f[i] <= f[j] /\ f[i] \in Nat /\ f[j] \in Nat
    BY <2>1, RelationsAssumption
  <2>3. ~Before(ById, f[j], f[i])
    BY <2>2 DEF Before, Value, ById
  <2>4. \A k \in DOMAIN <<ById>> : <<ById>>[k] = ById
    OBVIOUS
  <2> QED
    BY <2>3, <2>4 DEF InOrder
<1>7. f \in Ordered(S, <<ById>>)
  BY <1>4, <1>6 DEF Ordered
<1> QED
  BY <1>7

LEMMA PageOfOne ==
    ASSUME NEW S, NEW s \in Seq(S), NEW n \in 1..Len(s)
    PROVE  Range(PageOf(s, OnPage(Expanded, n))) = {s[n]}
<1> DEFINE q == OnPage(Expanded, n)
<1>1. q.page = n /\ q.perPage = 1
  BY DEF OnPage, Expanded
<1> HIDE DEF q
<1>2. PerPage(q) = 1
  BY <1>1, CollectionsAssumption DEF PerPage
<1>3. Len(s) \in Nat /\ n \in Nat /\ n >= 1 /\ n <= Len(s)
  BY LenProperties
<1>4. ~Unlimited(q) /\ Offset(q) = n - 1
  BY <1>1, <1>2, <1>3 DEF Unlimited, Offset
<1>5. PageOf(s, q) = SubSeq(s, n, n)
  <2>1. Offset(q) + 1 = n /\ Offset(q) + PerPage(q) = n
    BY <1>2, <1>3, <1>4
  <2>2. (IF n < Len(s) THEN n ELSE Len(s)) = n
    BY <1>3
  <2> QED
    BY <1>4, <2>1, <2>2 DEF PageOf
<1>6. SubSeq(s, n, n) \in Seq(S) /\ Len(SubSeq(s, n, n)) = 1 /\ SubSeq(s, n, n)[1] = s[n]
  <2>1. n \in Int /\ \A i \in n..n : s[i] \in S
    BY <1>3, ElementOfSeq
  <2>2. n - n + 1 = 1 /\ n + 1 - 1 = n /\ n <= n
    BY <1>3
  <2> QED
    BY <2>1, <2>2, SubSeqProperties
<1>7. DOMAIN SubSeq(s, n, n) = {1}
  <2>1. DOMAIN SubSeq(s, n, n) = 1..Len(SubSeq(s, n, n))
    BY <1>6, LenProperties
  <2>2. 1..1 = {1}
    OBVIOUS
  <2> QED
    BY <1>6, <2>1, <2>2
<1> QED
  BY <1>5, <1>6, <1>7 DEF Range, q

LEMMA ExpansionReaches ==
    ASSUME Rows(rows), Acyclic, Mirrored, alive \subseteq Tasks, NEW scope \in SUBSET alive
    PROVE  \A t \in scope :
             \E n \in 1..Cardinality(Listed(scope, Expanded)) :
               \E read \in ReadFlat(scope, OnPage(Expanded, n)) : t \in Range(read.page) \cup read.below
<1> DEFINE roots == Listed(scope, Expanded)
<1> SUFFICES ASSUME NEW t \in scope
             PROVE  \E n \in 1..Cardinality(roots) : \E read \in ReadFlat(scope, OnPage(Expanded, n)) :
                      t \in Range(read.page) \cup read.below
  OBVIOUS
<1>1. scope \in SUBSET Tasks
  OBVIOUS
<1>2. PICK root \in scope : IsRoot(root, scope) /\ BelowOrRoot(t, root)
  BY <1>1, RootAbove
<1>3. roots = {x \in scope : IsRoot(x, scope)}
  BY DEF Listed, Expanded
<1>4. root \in roots /\ roots \in SUBSET Tasks
  BY <1>1, <1>2, <1>3
<1> HIDE DEF roots
<1>5. PICK s : s \in Ordered(roots, <<ById>>)
  BY <1>4, OrderedById
<1>6. s \in SetToSeqs(roots)
  BY <1>5 DEF Ordered
<1>7. IsFiniteSet(roots)
  BY <1>4, TasksCounted, FS_Subset
<1>8. s \in Seq(roots) /\ Len(s) = Cardinality(roots) /\ \E i \in 1..Cardinality(roots) : s[i] = root
  BY <1>4, <1>6, <1>7, SetToSeqsIs
<1>9. PICK n \in 1..Cardinality(roots) : s[n] = root
  BY <1>8
<1> DEFINE q == OnPage(Expanded, n)
           read == [page  |-> PageOf(s, q),
                    below |-> IF q.expand THEN DescendantsOf(Range(PageOf(s, q))) ELSE {},
                    total |-> Cardinality(Listed(scope, q))]
<1>10. Range(PageOf(s, q)) = {root}
  BY <1>8, <1>9, PageOfOne
<1>11. q.expand = TRUE
  BY DEF OnPage, Expanded
<1>12. Listed(scope, q) = roots
  BY <1>3, <1>11 DEF Listed
<1>13. SortOf(q) = <<ById>>
  BY ExpandedSort
<1> HIDE DEF q
<1>14. read \in ReadFlat(scope, q)
  BY <1>5, <1>12, <1>13 DEF ReadFlat
<1>15. t \in Range(PageOf(s, q)) \cup DescendantsOf(Range(PageOf(s, q)))
  <2>1. CASE t = root
    BY <1>10, <2>1
  <2>2. CASE t # root
    <3>1. PICK m \in 0..Cardinality(Tasks) : t \in Round({root})[m]
      BY <1>2, <2>2 DEF BelowOrRoot
    <3>2. DOMAIN Round({root}) = 0..Cardinality(Tasks)
      BY RoundIs
    <3>3. t \in UNION Range(Round({root}))
      BY <3>1, <3>2 DEF Range
    <3> QED
      BY <1>10, <2>2, <3>3 DEF DescendantsOf
  <2> QED
    BY <2>1, <2>2
<1>16. t \in Range(read.page) \cup read.below
  BY <1>11, <1>15
<1> HIDE DEF read
<1> QED
  BY <1>9, <1>14, <1>16 DEF q

LEMMA ExpansionCoversAll ==
    ASSUME PairInv, alive \subseteq Tasks
    PROVE  ExpansionCovers
<1> SUFFICES ASSUME Acyclic, NEW scope \in Scopes
             PROVE  LET roots == Listed(scope, Expanded)
                        reads == UNION {ReadFlat(scope, OnPage(Expanded, n)) : n \in 1..Cardinality(roots)}
                    IN  /\ WalkEnds(roots)
                        /\ scope \subseteq UNION {Range(read.page) \cup read.below : read \in reads}
  BY DEF ExpansionCovers
<1>1. Rows(rows)
  BY DEF PairInv, Rows
<1>2. Mirrored
  BY DEF PairInv, Paired, Mirrored, Stored
<1>3. scope \in SUBSET alive
  BY DEF Scopes
<1>4. WalkEnds(Listed(scope, Expanded))
  BY <1>1, TheWalkEnds
<1>5. \A t \in scope :
        \E n \in 1..Cardinality(Listed(scope, Expanded)) :
          \E read \in ReadFlat(scope, OnPage(Expanded, n)) : t \in Range(read.page) \cup read.below
  BY <1>1, <1>2, <1>3, ExpansionReaches
<1> QED
  BY <1>4, <1>5

LEMMA StepKeepsAliveTasks ==
    alive \subseteq Tasks /\ [RelationsNext]_relationVars => (alive \subseteq Tasks)'
BY DEF RelationsNext, relationVars, ReadCreate, ReadDelete, WriteCreate, WriteDelete, MarkDeleted

\* What an expanded listing shows (task_service._expand_subtasks): as long as no
\* task is above itself, each task in scope is on a page or below a task that is,
\* and the walk down from every page ends.
THEOREM ExpandedCovers == RelationsSpec => []ExpansionCovers
<1> DEFINE AliveTasks == alive \subseteq Tasks
<1>1. RelationsInit => AliveTasks
  BY DEF RelationsInit
<1>2. AliveTasks /\ [RelationsNext]_relationVars => AliveTasks'
  BY StepKeepsAliveTasks
<1>3. PairInv /\ [RelationsNext]_relationVars => PairInv'
  BY StepKeepsPairs
<1>4. PairInv /\ AliveTasks => ExpansionCovers
  BY ExpansionCoversAll
<1> HIDE DEF AliveTasks
<1> QED
  BY <1>1, <1>2, <1>3, <1>4, PairInvAtFirst, PTL DEF RelationsSpec

-----------------------------------------------------------------------------
(* A sort that ends with the id leaves the database nothing to choose.     *)

EndsWithId(params) == \E k \in Nat \ {0} : DOMAIN params = 1..k /\ params[k].by = "id"

LEMMA TiebreakerEndsWithId ==
    ASSUME NEW X, NEW params \in Seq(X)
    PROVE  EndsWithId(WithIdTiebreaker(params))
<1> DEFINE n == Len(params)
<1>1. n \in Nat /\ DOMAIN params = 1..n
  BY LenProperties
<1>2. CASE params # <<>> /\ Last(params).by = "id"
  <2>1. n # 0
    BY <1>2, EmptySeq
  <2>2. WithIdTiebreaker(params) = params /\ params[n].by = "id"
    BY <1>2 DEF WithIdTiebreaker, Last
  <2> QED
    BY <1>1, <2>1, <2>2 DEF EndsWithId
<1>3. CASE ~(params # <<>> /\ Last(params).by = "id")
  <2>1. WithIdTiebreaker(params) = Append(params, ById)
    BY <1>3 DEF WithIdTiebreaker, ById
  <2>2. params \in Seq(X \cup {ById})
    BY SeqMonotonic
  <2>3. DOMAIN Append(params, ById) = 1..(n + 1) /\ Append(params, ById)[n + 1] = ById
    BY <2>2
  <2>4. n + 1 \in Nat \ {0} /\ ById.by = "id"
    BY <1>1 DEF ById
  <2>5. WithIdTiebreaker(params)[n + 1].by = "id" /\ DOMAIN WithIdTiebreaker(params) = 1..(n + 1)
    BY <2>1, <2>3, <2>4
  <2> QED
    BY <2>4, <2>5 DEF EndsWithId
<1> QED
  BY <1>2, <1>3

\* Dropping the positions leaves a sequence of the same things.
LEMMA DroppedIsSeq ==
    ASSUME NEW X, NEW s \in Seq(X)
    PROVE  WithoutPositions(s) \in Seq(X)
<1> DEFINE N == Len(s)
           Next1(f, n) == IF n = 0 THEN <<>>
                          ELSE IF s[n].by = "position" THEN f[n - 1] ELSE Append(f[n - 1], s[n])
           Drops(f, n) == f = [i \in 0..n |-> Next1(f, i)]
           C == {n \in Nat : n <= N /\ ~\E f : Drops(f, n)}
           kept == CHOOSE f : Drops(f, N)
<1>1. N \in Nat /\ \A n \in 1..N : s[n] \in X
  BY LenProperties, ElementOfSeq
<1> HIDE DEF N
<1>2. C = {}
  <2> SUFFICES ASSUME C # {} PROVE FALSE
    OBVIOUS
  <2>1. PICK n \in C : \A x \in C : n <= x
    BY LeastOf
  <2>2. n \in Nat /\ n <= N /\ ~\E f : Drops(f, n)
    OBVIOUS
  <2>3. n # 0
    <3> SUFFICES ASSUME n = 0 PROVE FALSE
      OBVIOUS
    <3> DEFINE f == [i \in 0..0 |-> <<>>]
    <3>1. \A i \in 0..0 : Next1(f, i) = <<>>
      OBVIOUS
    <3>2. f = [i \in 0..0 |-> Next1(f, i)]
      <4> HIDE DEF Next1
      <4> QED
        BY <3>1
    <3> QED
      BY <2>2, <3>2
  <2>4. n - 1 \in Nat /\ n - 1 <= N /\ n - 1 \notin C
    <3> HIDE DEF C
    <3>1. n - 1 \in Nat /\ n - 1 <= N
      BY <1>1, <2>2, <2>3
    <3> QED
      BY <2>1, <2>2, <3>1
  <2>5. PICK g : Drops(g, n - 1)
    <3> HIDE DEF Drops
    <3> QED
      BY <2>4
  <2> HIDE DEF C
  <2> DEFINE f == [i \in 0..n |-> IF i = n THEN Next1(g, n) ELSE g[i]]
  <2>6. \A i \in 0..(n - 1) : g[i] = Next1(g, i)
    <3> HIDE DEF Next1
    <3> QED
      BY <2>5
  <2>7. \A i \in 0..n : i # 0 => f[i - 1] = g[i - 1]
    BY <2>2
  <2>8. \A i \in 0..n : Next1(f, i) = Next1(g, i)
    <3> HIDE DEF f
    <3> QED
      BY <2>7
  <2>9. \A i \in 0..n : f[i] = Next1(f, i)
    <3>1. \A i \in 0..n : f[i] = Next1(g, i)
      <4> HIDE DEF Next1
      <4> QED
        BY <2>2, <2>6
    <3> HIDE DEF f, Next1
    <3> QED
      BY <2>8, <3>1
  <2>10. f = [i \in 0..n |-> f[i]]
    OBVIOUS
  <2> HIDE DEF f, Next1
  <2>11. Drops(f, n)
    BY <2>9, <2>10
  <2> QED
    BY <2>2, <2>11
<1>3. Drops(kept, N)
  <2>1. \E f : Drops(f, N)
    <3> HIDE DEF Drops
    <3>1. N \notin C
      BY <1>2
    <3> QED
      BY <1>1, <3>1
  <2> HIDE DEF Drops
  <2> QED
    BY <2>1
<1>4. WithoutPositions(s) = kept[N]
  BY DEF WithoutPositions, N
<1> HIDE DEF kept, C
<1>5. \A i \in 0..N : kept[i] = Next1(kept, i)
  <2> HIDE DEF Next1
  <2> QED
    BY <1>3
<1> DEFINE D == {i \in Nat : i <= N /\ kept[i] \notin Seq(X)}
<1>6. D = {}
  <2> SUFFICES ASSUME D # {} PROVE FALSE
    OBVIOUS
  <2>1. PICK i \in D : \A x \in D : i <= x
    BY LeastOf
  <2>2. i \in 0..N /\ kept[i] \notin Seq(X)
    BY <1>1
  <2>3. kept[i] = Next1(kept, i)
    BY <1>5, <2>2
  <2>4. i # 0
    BY <2>2, <2>3
  <2>5. i - 1 \in Nat /\ i - 1 <= N /\ i - 1 \notin D
    BY <1>1, <2>1, <2>2, <2>4
  <2>6. kept[i - 1] \in Seq(X) /\ s[i] \in X
    BY <1>1, <2>2, <2>4, <2>5
  <2>7. kept[i] = kept[i - 1] \/ kept[i] = Append(kept[i - 1], s[i])
    BY <2>3, <2>4
  <2>8. Append(kept[i - 1], s[i]) \in Seq(X)
    BY <2>6
  <2> QED
    BY <2>2, <2>6, <2>7, <2>8
<1> QED
  BY <1>1, <1>4, <1>6

LEMMA SortEndsWithId ==
    ASSUME NEW query \in Queries
    PROVE  EndsWithId(SortOf(query))
<1> DEFINE fields == query.sort
           params == ParsedSort(fields, query.orders, query.view)
           parsed(i) == [by |-> fields[i], order |-> Direction(query.orders, i),
                         view |-> IF fields[i] = "position" THEN query.view ELSE NoView]
           all == [i \in DOMAIN fields |-> parsed(i)]
           X == {parsed(i) : i \in DOMAIN fields}
<1>1. fields \in Seq(STRING) /\ query.view \in Int
  BY CollectionsAssumption
<1>2. DOMAIN fields = 1..Len(fields) /\ Len(fields) \in Nat
  BY <1>1, LenProperties
<1>3. params = IF query.view < 0 THEN WithoutPositions(all) ELSE all
  BY DEF ParsedSort
<1>4. all \in Seq(X)
  <2>1. all \in [1..Len(fields) -> X]
    <3> HIDE DEF parsed
    <3> QED
      BY <1>2
  <2> HIDE DEF all, X
  <2> QED
    BY <1>2, <2>1
<1>5. params \in Seq(X)
  <2> HIDE DEF all, X, params
  <2> QED
    BY <1>3, <1>4, DroppedIsSeq
<1> HIDE DEF params, fields
<1> HIDE DEF X, all
<1> DEFINE viewed == WithViewPosition(params, query.view)
           row == [by |-> "position", order |-> "asc", view |-> query.view]
<1>7. viewed \in Seq(X \cup {row})
  <2>1. params \in Seq(X \cup {row})
    BY <1>5, SeqMonotonic
  <2>2. viewed = params \/ viewed = Append(params, row)
    BY DEF WithViewPosition
  <2> HIDE DEF viewed, row
  <2>3. Append(params, row) \in Seq(X \cup {row})
    BY <2>1
  <2> QED
    BY <2>1, <2>2, <2>3
<1>8. SortOf(query) = WithIdTiebreaker(IF query.view = NoView THEN params ELSE viewed)
  BY DEF SortOf, params, fields
<1> HIDE DEF viewed
<1>9. EndsWithId(WithIdTiebreaker(params)) /\ EndsWithId(WithIdTiebreaker(viewed))
  BY <1>5, <1>7, TiebreakerEndsWithId
<1> QED
  BY <1>8, <1>9

LEMMA OneComesFirst ==
    ASSUME NEW params, EndsWithId(params), NEW t \in Tasks, NEW u \in Tasks,
           InOrder(params, t, u), InOrder(params, u, t)
    PROVE  t = u
<1> SUFFICES ASSUME t # u PROVE FALSE
  OBVIOUS
<1>1. PICK k \in Nat \ {0} : DOMAIN params = 1..k /\ params[k].by = "id"
  BY DEF EndsWithId
<1> DEFINE Differ(i) == Before(params[i], t, u) \/ Before(params[i], u, t)
           C == {i \in 1..k : Differ(i)}
<1>2. t \in Nat /\ u \in Nat
  BY RelationsAssumption
<1>3. Value(params[k].by, t) = t /\ Value(params[k].by, u) = u
  <2>1. Value("id", t) = t /\ Value("id", u) = u
    BY DEF Value, Relevance
  <2> QED
    BY <1>1, <2>1
<1>4. Differ(k)
  BY <1>2, <1>3 DEF Before
<1>5. k \in C
  BY <1>1, <1>4
<1>6. PICK i \in C : \A x \in C : i <= x
  <2>1. C \in SUBSET Nat /\ C # {}
    BY <1>5
  <2> QED
    BY <2>1, LeastOf
<1>7. i \in 1..k /\ Differ(i)
  OBVIOUS
<1>8. \E j \in 1..(i - 1) : Differ(j)
  BY <1>1, <1>7 DEF InOrder
<1>9. PICK j \in 1..(i - 1) : Differ(j)
  BY <1>8
<1>10. j \in 1..k /\ ~(i <= j)
  BY <1>1, <1>7
<1> QED
  BY <1>6, <1>9, <1>10

LEMMA OneOrder ==
    ASSUME NEW params, EndsWithId(params), NEW S \in SUBSET Tasks,
           NEW s \in Ordered(S, params), NEW r \in Ordered(S, params)
    PROVE  s = r
<1> DEFINE n == Cardinality(S)
           C == {i \in 1..n : s[i] # r[i]}
<1>1. IsFiniteSet(S)
  BY TasksCounted, FS_Subset
<1>2. s \in SetToSeqs(S) /\ r \in SetToSeqs(S)
  BY DEF Ordered
<1>3. /\ n \in Nat
      /\ s \in Seq(S) /\ Len(s) = n /\ DOMAIN s = 1..n
      /\ \A i, j \in 1..n : i # j => s[i] # s[j]
      /\ \A t \in S : \E i \in 1..n : s[i] = t
  BY <1>1, <1>2, SetToSeqsIs
<1>4. /\ r \in Seq(S) /\ Len(r) = n /\ DOMAIN r = 1..n
      /\ \A i, j \in 1..n : i # j => r[i] # r[j]
      /\ \A t \in S : \E i \in 1..n : r[i] = t
  BY <1>1, <1>2, SetToSeqsIs
<1>5. /\ \A i, j \in 1..n : i < j => InOrder(params, s[i], s[j])
      /\ \A i, j \in 1..n : i < j => InOrder(params, r[i], r[j])
  BY <1>3, <1>4 DEF Ordered
<1>6. \A i \in 1..n : s[i] \in S /\ r[i] \in S
  BY <1>3, <1>4, ElementOfSeq
<1> HIDE DEF n
<1>7. C = {}
  <2> SUFFICES ASSUME C # {} PROVE FALSE
    OBVIOUS
  <2>1. PICK i \in C : \A x \in C : i <= x
    <3>1. C \in SUBSET Nat
      OBVIOUS
    <3> QED
      BY <3>1, LeastOf
  <2>2. i \in 1..n /\ s[i] # r[i]
    OBVIOUS
  <2>3. \A j \in 1..n : j < i => s[j] = r[j]
    BY <1>3, <2>1, <2>2
  <2>4. PICK j \in 1..n : r[j] = s[i]
    BY <1>4, <1>6, <2>2
  <2>5. PICK h \in 1..n : s[h] = r[i]
    BY <1>3, <1>6, <2>2
  <2> HIDE DEF C
  <2>6. ~(j < i) /\ j # i
    BY <1>3, <2>2, <2>3, <2>4
  <2>7. ~(h < i) /\ h # i
    BY <1>4, <2>2, <2>3, <2>5
  <2>8. i < j /\ i < h
    BY <1>3, <2>2, <2>6, <2>7
  <2>9. InOrder(params, r[i], r[j]) /\ InOrder(params, s[i], s[h])
    BY <1>5, <2>2, <2>8
  <2>10. s[i] \in Tasks /\ r[i] \in Tasks
    BY <1>6, <2>2
  <2> QED
    BY <2>2, <2>4, <2>5, <2>9, <2>10, OneComesFirst
<1>8. \A i \in 1..n : s[i] = r[i]
  BY <1>7
<1> QED
  BY <1>3, <1>4, <1>8, SeqEqual

-----------------------------------------------------------------------------
(* Joining sequences one after the other.                                  *)

LEMMA MaxIs ==
    ASSUME NEW k \in Nat, NEW t \in SUBSET (1..k), t # {}
    PROVE  Max(t) \in t /\ \A x \in t : x <= Max(t)
<1> DEFINE C == {k - x : x \in t}
<1>1. C \in SUBSET Nat /\ C # {}
  <2>1. \A x \in t : k - x \in Nat
    OBVIOUS
  <2>2. \E x : x \in t
    OBVIOUS
  <2> QED
    BY <2>1, <2>2
<1>2. PICK c \in C : \A x \in C : c <= x
  BY <1>1, LeastOf
<1>3. PICK m \in t : k - m = c
  OBVIOUS
<1>4. \A x \in t : m >= x
  BY <1>2, <1>3
<1>5. \A y \in t : Max(t) >= y
  BY <1>4 DEF Max
<1>6. Max(t) \in t
  BY <1>4 DEF Max
<1> QED
  BY <1>5, <1>6

Joined(g) == FoldLeft(LAMBDA x, y : x \o y, <<>>, g)

UpTo(D, n) == {t \in SUBSET D : Cardinality(t) <= n}
\* h joins the sequences g, for each set of indices in B.
AreJoins(h, g, B) == h = [t \in B |-> IF t = {} THEN <<>> ELSE h[t \ {Max(t)}] \o g[Max(t)]]

LEMMA JoinsUpTo ==
    ASSUME NEW k \in Nat, NEW g, NEW n \in Nat
    PROVE  \E h : AreJoins(h, g, UpTo(1..k, n))
<1> DEFINE D == 1..k
           C == {d \in Nat : ~\E h : AreJoins(h, g, UpTo(D, d))}
<1> SUFFICES ASSUME C # {} PROVE FALSE
  OBVIOUS
<1>1. PICK d \in C : \A x \in C : d <= x
  BY LeastOf
<1>2. d \in Nat /\ ~\E h : AreJoins(h, g, UpTo(D, d))
  OBVIOUS
<1>3. \A t \in SUBSET D : IsFiniteSet(t) /\ Cardinality(t) \in Nat /\ (Cardinality(t) = 0 <=> t = {})
  <2>1. IsFiniteSet(D)
    BY FS_Interval
  <2>2. \A t \in SUBSET D : IsFiniteSet(t)
    BY <2>1, FS_Subset
  <2> QED
    BY <2>2, FS_CardinalityType, FS_EmptySet
<1>4. \A t \in SUBSET D : t # {} => /\ t \ {Max(t)} \in SUBSET D
                                     /\ Cardinality(t \ {Max(t)}) = Cardinality(t) - 1
  BY <1>3, MaxIs, FS_RemoveElement
<1> HIDE DEF D
<1>5. d # 0
  <2> SUFFICES ASSUME d = 0 PROVE FALSE
    OBVIOUS
  <2>1. \A t \in UpTo(D, 0) : t = {}
    BY <1>3 DEF UpTo
  <2> DEFINE h == [t \in UpTo(D, 0) |-> <<>>]
  <2>2. h = [t \in UpTo(D, 0) |-> IF t = {} THEN <<>> ELSE h[t \ {Max(t)}] \o g[Max(t)]]
    BY <2>1
  <2>3. AreJoins(h, g, UpTo(D, 0))
    BY <2>2 DEF AreJoins
  <2> QED
    BY <1>2, <2>3
<1>6. d - 1 \in Nat /\ d - 1 \notin C
  BY <1>1, <1>2, <1>5
<1>7. PICK f : AreJoins(f, g, UpTo(D, d - 1))
  BY <1>6
<1> HIDE DEF C
<1> DEFINE h == [t \in UpTo(D, d) |-> IF t = {} THEN <<>> ELSE f[t \ {Max(t)}] \o g[Max(t)]]
<1>8. UpTo(D, d - 1) \subseteq UpTo(D, d)
  BY <1>2, <1>3 DEF UpTo
<1>9. \A t \in UpTo(D, d - 1) : h[t] = f[t]
  BY <1>7, <1>8 DEF AreJoins
<1>10. \A t \in UpTo(D, d) : t # {} => t \ {Max(t)} \in UpTo(D, d - 1)
  BY <1>2, <1>3, <1>4 DEF UpTo
<1>11. h = [t \in UpTo(D, d) |-> IF t = {} THEN <<>> ELSE h[t \ {Max(t)}] \o g[Max(t)]]
  <2>1. \A t \in UpTo(D, d) : (IF t = {} THEN <<>> ELSE f[t \ {Max(t)}] \o g[Max(t)])
                               = IF t = {} THEN <<>> ELSE h[t \ {Max(t)}] \o g[Max(t)]
    <3> HIDE DEF h
    <3> QED
      BY <1>9, <1>10
  <2> QED
    BY <2>1
<1>12. AreJoins(h, g, UpTo(D, d))
  BY <1>11 DEF AreJoins
<1> QED
  BY <1>2, <1>12

LEMMA JoinIs ==
    ASSUME NEW k \in Nat, NEW g, DOMAIN g = 1..k
    PROVE  \E h : AreJoins(h, g, SUBSET (1..k))
                  /\ Joined(g) = h[1..k]
<1> DEFINE B == SUBSET (1..k)
           h == CHOOSE f : f = [t \in B |-> IF t = {} THEN <<>> ELSE f[t \ {Max(t)}] \o g[Max(t)]]
<1>1. \E f : AreJoins(f, g, B)
  <2>1. UpTo(1..k, k) = B
    <3>1. \A t \in SUBSET (1..k) : Cardinality(t) <= k
      <4>1. IsFiniteSet(1..k) /\ Cardinality(1..k) = k
        <5>1. IsFiniteSet(1..k) /\ Cardinality(1..k) = IF 1 > k THEN 0 ELSE k - 1 + 1
          BY FS_Interval
        <5> QED
          BY <5>1
      <4> QED
        BY <4>1, FS_Subset
    <3> QED
      BY <3>1 DEF UpTo
  <2>2. \E f : AreJoins(f, g, UpTo(1..k, k))
    BY JoinsUpTo
  <2> QED
    BY <2>1, <2>2
<1>2. AreJoins(h, g, B)
  BY <1>1 DEF AreJoins
<1>3. Joined(g) = h[1..k]
  BY DEF Joined, FoldLeft, MapThenFoldSet
<1> QED
  BY <1>2, <1>3

-----------------------------------------------------------------------------
(* The pages of one order, joined.                                         *)

\* Where page n of a sequence of length total ends.
PageEnd(n, p, total) == IF n * p < total THEN n * p ELSE total

LEMMA PagesAdd ==
    ASSUME NEW p \in Nat \ {0}
    PROVE  /\ 0 * p = 0
           /\ \A n \in Nat : /\ n * p \in Nat /\ (n + 1) * p = n * p + p
                             /\ n # 0 => (n - 1) * p + p = n * p /\ (n - 1) * p \in Nat
           /\ \A m, n \in Nat : m <= n => m * p <= n * p
<1>1. \A n \in Nat : n * p \in Nat /\ (n + 1) * p = n * p + p
  OBVIOUS
<1>2. ASSUME NEW n \in Nat, n # 0
      PROVE  (n - 1) * p + p = n * p /\ (n - 1) * p \in Nat
  <2>1. n - 1 \in Nat /\ (n - 1) + 1 = n
    BY <1>2
  <2> QED
    BY <1>1, <2>1
<1>3. ASSUME NEW m \in Nat, NEW n \in Nat, m <= n
      PROVE  m * p <= n * p
  <2>1. n - m \in Nat
    BY <1>3
  <2>2. (n - m) * p \in Nat
    BY <1>1, <2>1
  <2>3. (n - m) * p = n * p - m * p
    OBVIOUS
  <2> QED
    BY <1>1, <2>2, <2>3
<1>4. 0 * p = 0
  OBVIOUS
<1> QED
  BY <1>1, <1>2, <1>3, <1>4

LEMMA PagesJoined ==
    ASSUME NEW S, NEW s \in Seq(S), NEW p \in Nat \ {0}, NEW k \in Nat, NEW g, DOMAIN g = 1..k,
           \A n \in 1..k : g[n] = SubSeq(s, (n - 1) * p + 1, PageEnd(n, p, Len(s))),
           \A n \in 1..k : (n - 1) * p < Len(s)
    PROVE  Joined(g) = SubSeq(s, 1, PageEnd(k, p, Len(s)))
<1>1. PICK h : AreJoins(h, g, SUBSET (1..k)) /\ Joined(g) = h[1..k]
  BY JoinIs
<1>2. Len(s) \in Nat
  BY LenProperties
<1> DEFINE Holds(j) == h[1..j] = SubSeq(s, 1, PageEnd(j, p, Len(s)))
           C == {j \in 0..k : ~Holds(j)}
<1>3. C = {}
  <2> SUFFICES ASSUME C # {} PROVE FALSE
    OBVIOUS
  <2>1. PICK j \in C : \A x \in C : j <= x
    <3>1. C \in SUBSET Nat
      OBVIOUS
    <3> QED
      BY <3>1, LeastOf
  <2>2. j \in 0..k /\ ~Holds(j)
    OBVIOUS
  <2>3. h[1..j] = IF 1..j = {} THEN <<>> ELSE h[(1..j) \ {Max(1..j)}] \o g[Max(1..j)]
    <3>1. 1..j \in SUBSET (1..k)
      BY <2>2
    <3> QED
      BY <1>1, <3>1 DEF AreJoins
  <2>4. j # 0
    <3> SUFFICES ASSUME j = 0 PROVE FALSE
      OBVIOUS
    <3>1. 1..0 = {}
      OBVIOUS
    <3>2. h[1..0] = <<>>
      BY <2>3, <3>1
    <3>3. PageEnd(0, p, Len(s)) = 0
      BY <1>2, PagesAdd DEF PageEnd
    <3>4. SubSeq(s, 1, 0) = <<>>
      BY SubSeqEmpty
    <3> QED
      BY <2>2, <3>2, <3>3, <3>4
  <2>5. j \in 1..k /\ j - 1 \in 0..k /\ j - 1 \notin C
    BY <2>1, <2>2, <2>4
  <2>6. Holds(j - 1)
    BY <2>5
  <2> HIDE DEF C
  <2>7. Max(1..j) = j /\ (1..j) \ {j} = 1..(j - 1) /\ 1..j # {}
    <3>1. j \in Nat /\ 1..j \in SUBSET (1..j) /\ j \in 1..j
      BY <2>5
    <3>2. Max(1..j) \in 1..j /\ \A x \in 1..j : x <= Max(1..j)
      BY <3>1, MaxIs
    <3> QED
      BY <3>1, <3>2
  <2>8. h[1..j] = h[1..(j - 1)] \o g[j]
    BY <2>3, <2>7
  <2> DEFINE a == (j - 1) * p
             b == PageEnd(j, p, Len(s))
  <2>9. a \in Nat /\ a < Len(s) /\ a + p = j * p /\ j * p \in Nat
    BY <2>5, PagesAdd
  <2>10. PageEnd(j - 1, p, Len(s)) = a
    BY <2>9 DEF PageEnd
  <2>11. b \in a..Len(s)
    BY <1>2, <2>9 DEF PageEnd
  <2>12. h[1..j] = SubSeq(s, 1, a) \o SubSeq(s, a + 1, b)
    BY <2>5, <2>6, <2>8, <2>10
  <2> HIDE DEF a, b
  <2>13. SubSeq(s, 1, a) \o SubSeq(s, a + 1, b) = SubSeq(s, 1, b)
    <3>1. 1 \in 1..(Len(s) + 1) /\ a \in (1 - 1)..Len(s) /\ b \in a..Len(s)
      BY <1>2, <2>9, <2>11
    <3> QED
      BY <3>1, ConcatAdjacentSubSeq
  <2> QED
    BY <2>2, <2>12, <2>13 DEF b
<1>4. Holds(k)
  BY <1>3
<1> QED
  BY <1>1, <1>4

LEMMA PageIs ==
    ASSUME NEW query \in Queries, NEW S, NEW s \in Seq(S), NEW n \in Nat \ {0}
    PROVE  /\ PerPage(query) \in Nat \ {0}
           /\ PageOf(s, OnPage(query, n)) =
                SubSeq(s, (n - 1) * PerPage(query) + 1, PageEnd(n, PerPage(query), Len(s)))
<1> DEFINE q == OnPage(query, n)
           p == PerPage(query)
<1>1. q.page = n /\ q.perPage = query.perPage /\ query.perPage \in Nat
  BY CollectionsAssumption DEF OnPage
<1>2. PerPage(q) = p /\ p \in Nat \ {0}
  BY <1>1, CollectionsAssumption DEF PerPage
<1> HIDE DEF p
<1>3. (n - 1) * p + p = n * p /\ (n - 1) * p \in Nat
  BY <1>2, PagesAdd
<1>4. ~Unlimited(q) /\ Offset(q) = (n - 1) * p
  BY <1>1, <1>2 DEF Unlimited, Offset
<1> HIDE DEF q
<1>5. PageOf(s, q) = SubSeq(s, (n - 1) * p + 1, PageEnd(n, p, Len(s)))
  BY <1>2, <1>3, <1>4 DEF PageOf, PageEnd
<1> QED
  BY <1>2, <1>5 DEF q, p

\* A number is so many wholes and a rest.
LEMMA WholesAndRest ==
    ASSUME NEW p \in Nat \ {0}, NEW a \in Nat
    PROVE  /\ a \div p \in Nat /\ a % p \in 0..(p - 1)
           /\ a = (a \div p) * p + (a % p)
OBVIOUS

LEMMA PagesSuffice ==
    ASSUME NEW total \in Nat, NEW p \in Nat \ {0}
    PROVE  LET pages == TotalPages(total, p, total)
           IN  /\ pages \in Nat /\ total <= pages * p
               /\ \A n \in 1..pages : (n - 1) * p < total
<1> DEFINE pages == TotalPages(total, p, total)
           rest == (total + p - 1) % p
<1>1. CASE total = 0
  BY <1>1, PagesAdd DEF TotalPages
<1>2. CASE total # 0
  <2>1. pages = (total + p - 1) \div p
    BY <1>2 DEF TotalPages
  <2>2. total + p - 1 \in Nat
    OBVIOUS
  <2>3. pages \in Nat /\ rest \in 0..(p - 1) /\ total + p - 1 = pages * p + rest
    BY <2>1, <2>2, WholesAndRest
  <2> HIDE DEF pages, rest
  <2>4. pages * p \in Nat
    BY <2>3, PagesAdd
  <2>5. total <= pages * p
    BY <2>3, <2>4
  <2>6. ASSUME NEW n \in 1..pages
        PROVE  (n - 1) * p < total
    <3>1. n \in Nat /\ n # 0 /\ n <= pages
      BY <2>3
    <3>2. (n - 1) * p + p = n * p /\ (n - 1) * p \in Nat /\ n * p <= pages * p /\ n * p \in Nat
      BY <2>3, <3>1, PagesAdd
    <3> QED
      BY <2>3, <2>4, <3>2
  <2> QED
    BY <2>3, <2>5, <2>6 DEF pages
<1> QED
  BY <1>1, <1>2

-----------------------------------------------------------------------------
(* The columns of a board.                                                 *)

At(f, b) == IF b \in DOMAIN f THEN f[b] ELSE 0

LEMMA SumOfTwo ==
    ASSUME NEW f, DOMAIN f \subseteq {1, 2}, \A b \in DOMAIN f : f[b] \in Nat
    PROVE  SumFunction(f) = At(f, 1) + At(f, 2)
<1> DEFINE D == DOMAIN f
           Picked(t) == CHOOSE x \in t : TRUE
           IsSum(h) == h = [t \in SUBSET D |-> IF t = {} THEN 0 ELSE f[Picked(t)] + h[t \ {Picked(t)}]]
           In(t, b) == IF b \in t THEN f[b] ELSE 0
           h0 == CHOOSE h : IsSum(h)
<1>1. \A t \in SUBSET D : t # {} => Picked(t) \in t /\ t \ {Picked(t)} \in SUBSET D
  OBVIOUS
<1>2. SumFunction(f) = h0[D]
  BY DEF SumFunction, SumFunctionOnSet, FoldFunctionOnSet, MapThenFoldSet
<1>3. \E h : IsSum(h)
  <2> DEFINE g == [t \in SUBSET D |-> In(t, 1) + In(t, 2)]
  <2>1. \A t \in SUBSET D : \A x \in t : x \in {1, 2} /\ f[x] \in Nat
    OBVIOUS
  <2> HIDE DEF Picked
  <2>2. ASSUME NEW t \in SUBSET D, t # {}
        PROVE  In(t, 1) + In(t, 2) = f[Picked(t)] + (In(t \ {Picked(t)}, 1) + In(t \ {Picked(t)}, 2))
    <3>1. Picked(t) \in t /\ Picked(t) \in {1, 2}
      BY <1>1, <2>1, <2>2
    <3>2. In(t, 1) \in Nat /\ In(t, 2) \in Nat
      BY <2>1
    <3>3. CASE Picked(t) = 1
      <4>1. In(t, 1) = f[1] /\ In(t \ {1}, 1) = 0 /\ In(t \ {1}, 2) = In(t, 2)
        BY <3>1, <3>3
      <4> QED
        BY <3>2, <3>3, <4>1
    <3>4. CASE Picked(t) = 2
      <4>1. In(t, 2) = f[2] /\ In(t \ {2}, 2) = 0 /\ In(t \ {2}, 1) = In(t, 1)
        BY <3>1, <3>4
      <4> QED
        BY <3>2, <3>4, <4>1
    <3> QED
      BY <3>1, <3>3, <3>4
  <2>3. In({}, 1) + In({}, 2) = 0
    OBVIOUS
  <2> HIDE DEF In
  <2>4. \A t \in SUBSET D : g[t] = IF t = {} THEN 0 ELSE f[Picked(t)] + g[t \ {Picked(t)}]
    BY <1>1, <2>2, <2>3
  <2>5. g = [t \in SUBSET D |-> g[t]]
    OBVIOUS
  <2> HIDE DEF g
  <2>6. IsSum(g)
    BY <2>4, <2>5
  <2> QED
    BY <2>6
<1>4. IsSum(h0)
  <2> HIDE DEF IsSum
  <2> QED
    BY <1>3
<1>5. PICK h : IsSum(h) /\ SumFunction(f) = h[D]
  <2> HIDE DEF h0, IsSum
  <2> QED
    BY <1>2, <1>4
<1> HIDE DEF Picked, h0
<1>6. h[{}] = 0
  BY <1>5
<1>7. \A t \in SUBSET D : t # {} => h[t] = f[Picked(t)] + h[t \ {Picked(t)}]
  BY <1>5
<1>8. ASSUME NEW x \in D PROVE h[{x}] = f[x]
  <2>1. {x} \in SUBSET D /\ Picked({x}) = x /\ {x} \ {x} = {}
    BY <1>1
  <2>2. h[{x}] = f[x] + h[{}]
    BY <1>7, <2>1
  <2> QED
    BY <1>6, <2>2
<1>9. D = {} \/ D = {1} \/ D = {2} \/ D = {1, 2}
  OBVIOUS
<1>10. CASE D = {}
  BY <1>5, <1>6, <1>10 DEF At
<1>11. CASE D = {1}
  BY <1>5, <1>8, <1>11 DEF At
<1>12. CASE D = {2}
  BY <1>5, <1>8, <1>12 DEF At
<1>13. CASE D = {1, 2}
  <2>1. Picked(D) \in {1, 2} /\ h[D] = f[Picked(D)] + h[D \ {Picked(D)}]
    BY <1>1, <1>7, <1>13
  <2>2. D \ {1} = {2} /\ D \ {2} = {1}
    BY <1>13
  <2>3. h[{1}] = f[1] /\ h[{2}] = f[2] /\ f[1] \in Nat /\ f[2] \in Nat
    BY <1>8, <1>13
  <2>4. Picked(D) = 1 => h[D] = f[1] + h[{2}]
    BY <2>1, <2>2
  <2>5. Picked(D) = 2 => h[D] = f[2] + h[{1}]
    BY <2>1, <2>2
  <2>6. h[D] = f[1] + f[2]
    BY <2>1, <2>3, <2>4, <2>5
  <2> QED
    BY <1>5, <1>13, <2>6 DEF At
<1> QED
  BY <1>9, <1>10, <1>11, <1>12, <1>13

ByPosition(view) == [by |-> "position", order |-> "asc", view |-> view]

LEMMA OrderedByPosition ==
    ASSUME NEW S \in SUBSET Tasks, NEW view
    PROVE  Ordered(S, <<ByPosition(view)>>) # {}
<1> DEFINE v == [t \in S |-> Position[t]]
           n == Cardinality(S)
           by == ByPosition(view)
<1>1. IsFiniteSet(S)
  BY TasksCounted, FS_Subset
<1>2. v \in [S -> Nat] /\ \A t \in S : v[t] = Position[t]
  BY CollectionsAssumption
<1> HIDE DEF v
<1>3. PICK f : Ascending(f, S, v)
  BY <1>1, <1>2, AscendingExists
<1>4. f \in SetToSeqs(S)
  BY <1>3 DEF Ascending
<1>5. DOMAIN f = 1..n /\ f \in [1..n -> S]
  BY <1>4 DEF SetToSeqs
<1>6. ASSUME NEW i \in DOMAIN f, NEW j \in DOMAIN f, i < j
      PROVE  InOrder(<<by>>, f[i], f[j])
  <2>1. f[i] \in S /\ f[j] \in S /\ v[f[i]] <= v[f[j]]
    BY <1>3, <1>5, <1>6 DEF Ascending
  <2>2. Position[f[i]] <= Position[f[j]] /\ Position[f[i]] \in Nat /\ Position[f[j]] \in Nat
    BY <1>2, <2>1
  <2>3. Value("position", f[i]) = Position[f[i]] /\ Value("position", f[j]) = Position[f[j]]
    BY DEF Value, Relevance
  <2>4. by.by = "position" /\ by.order = "asc"
    BY DEF ByPosition
  <2>5. ~Before(by, f[j], f[i])
    BY <2>2, <2>3, <2>4 DEF Before
  <2> HIDE DEF by
  <2>6. \A k \in DOMAIN <<by>> : <<by>>[k] = by
    OBVIOUS
  <2> QED
    BY <2>5, <2>6 DEF InOrder
<1>7. f \in Ordered(S, <<by>>)
  BY <1>4, <1>6 DEF Ordered
<1> QED
  BY <1>7

LEMMA BoardCoversAll ==
    ASSUME NEW scope \in SUBSET Tasks, NEW query
    PROVE  BoardCovers(scope, query)
<1> SUFFICES ASSUME NEW column \in [Tasks -> {1, 2}]
             PROVE  LET board == ReadBuckets(scope, column, OnPage(query, 0))
                    IN  /\ UNION {Range(board[b].tasks) : b \in DOMAIN board} = scope
                        /\ SumFunction([b \in DOMAIN board |-> board[b].count]) = Cardinality(scope)
  BY DEF BoardCovers
<1> DEFINE q == OnPage(query, 0)
           In(b) == {t \in scope : column[t] = b}
           Chosen(b) == CHOOSE o \in Ordered(In(b), <<ByPosition(q.view)>>) : TRUE
           board == ReadBuckets(scope, column, q)
<1>1. Unlimited(q)
  BY DEF Unlimited, OnPage
<1> HIDE DEF q
<1>2. board = [b \in Range(column) |-> [tasks |-> Chosen(b), count |-> Cardinality(In(b))]]
  BY <1>1 DEF ReadBuckets, ByPosition
<1>3. \A b : IsFiniteSet(In(b)) /\ In(b) \in SUBSET Tasks
  BY TasksCounted, FS_Subset
<1>4. \A b : Chosen(b) \in Ordered(In(b), <<ByPosition(q.view)>>)
  <2> HIDE DEF In
  <2> QED
    BY <1>3, OrderedByPosition
<1> HIDE DEF Chosen
<1>5. \A b : Range(Chosen(b)) = In(b)
  <2> SUFFICES ASSUME NEW b PROVE Range(Chosen(b)) = In(b)
    OBVIOUS
  <2>1. Chosen(b) \in SetToSeqs(In(b))
    BY <1>4 DEF Ordered
  <2>2. /\ Chosen(b) \in Seq(In(b)) /\ DOMAIN Chosen(b) = 1..Cardinality(In(b))
        /\ Len(Chosen(b)) = Cardinality(In(b))
        /\ \A t \in In(b) : \E i \in 1..Cardinality(In(b)) : Chosen(b)[i] = t
    <3> HIDE DEF In
    <3> QED
      BY <1>3, <2>1, SetToSeqsIs
  <2> HIDE DEF In
  <2>3. \A i \in DOMAIN Chosen(b) : Chosen(b)[i] \in In(b)
    BY <2>2, ElementOfSeq
  <2> QED
    BY <2>2, <2>3 DEF Range
<1>6. DOMAIN board = Range(column) /\ Range(column) \subseteq {1, 2}
      /\ \A t \in Tasks : column[t] \in Range(column)
  BY <1>2 DEF Range
<1>7. \A b \in Range(column) : board[b].tasks = Chosen(b) /\ board[b].count = Cardinality(In(b))
  BY <1>2
<1> HIDE DEF board
<1>8. UNION {Range(board[b].tasks) : b \in DOMAIN board} = scope
  <2>1. \A b \in DOMAIN board : Range(board[b].tasks) = In(b)
    <3> HIDE DEF In
    <3> QED
      BY <1>5, <1>6, <1>7
  <2>2. \A t \in scope : column[t] \in DOMAIN board /\ t \in In(column[t])
    BY <1>6
  <2>3. \A b : In(b) \subseteq scope
    OBVIOUS
  <2> HIDE DEF In
  <2> QED
    BY <2>1, <2>2, <2>3
<1> DEFINE f == [b \in DOMAIN board |-> board[b].count]
<1>9. DOMAIN f = Range(column) /\ \A b \in DOMAIN f : f[b] = Cardinality(In(b)) /\ f[b] \in Nat
  <2> HIDE DEF In
  <2> QED
    BY <1>3, <1>6, <1>7, FS_CardinalityType
<1>10. In(1) \cup In(2) = scope /\ In(1) \cap In(2) = {}
  OBVIOUS
<1>11. \A b : b \notin Range(column) => In(b) = {}
  BY <1>6
<1> HIDE DEF In, f
<1>12. SumFunction(f) = At(f, 1) + At(f, 2)
  BY <1>6, <1>9, SumOfTwo
<1>13. \A b : At(f, b) = Cardinality(In(b))
  BY <1>9, <1>11, FS_EmptySet DEF At
<1>14. Cardinality(In(1) \cup In(2)) = Cardinality(In(1)) + Cardinality(In(2)) - Cardinality(In(1) \cap In(2))
  BY <1>3, FS_Union
<1>15. Cardinality(scope) = Cardinality(In(1)) + Cardinality(In(2))
  <2>1. Cardinality(In(1)) \in Nat /\ Cardinality(In(2)) \in Nat
    BY <1>3, FS_CardinalityType
  <2>2. Cardinality({}) = 0
    BY FS_EmptySet
  <2>3. Cardinality(scope) = Cardinality(In(1)) + Cardinality(In(2)) - 0
    BY <1>10, <1>14, <2>2
  <2> QED
    BY <2>1, <2>3
<1>16. SumFunction(f) = Cardinality(scope)
  BY <1>12, <1>13, <1>15
<1> QED
  BY <1>8, <1>16 DEF f, board, q

-----------------------------------------------------------------------------
(* The pages of a listing.                                                 *)

LEMMA PagesOfListing ==
    ASSUME NEW listed \in SUBSET Tasks, NEW query \in Queries,
           NEW pages, pages = TotalPages(Cardinality(listed), PerPage(query), Cardinality(listed)),
           NEW read \in [1..(pages + 1) -> Ordered(listed, SortOf(query))]
    PROVE  LET all == Joined([n \in 1..pages |-> PageOf(read[n], OnPage(query, n))])
           IN  /\ Range(all) = listed /\ Len(all) = Cardinality(listed)
               /\ PageOf(read[pages + 1], OnPage(query, pages + 1)) = <<>>
<1> DEFINE g == [n \in 1..pages |-> PageOf(read[n], OnPage(query, n))]
           all == Joined(g)
           total == Cardinality(listed)
           p == PerPage(query)
<1>1. IsFiniteSet(listed) /\ total \in Nat
  BY TasksCounted, FS_Subset, FS_CardinalityType
<1>2. p \in Nat \ {0}
  <2>1. <<>> \in Seq({})
    BY EmptySeq
  <2>2. 1 \in Nat \ {0}
    OBVIOUS
  <2> QED
    BY <2>1, <2>2, PageIs
<1> HIDE DEF p, total
<1>3. pages \in Nat /\ total <= pages * p /\ \A n \in 1..pages : (n - 1) * p < total
  BY <1>1, <1>2, PagesSuffice DEF p, total
<1> DEFINE s == read[pages + 1]
<1>4. pages + 1 \in 1..(pages + 1) /\ \A n \in 1..pages : n \in 1..(pages + 1) /\ n \in Nat \ {0}
  BY <1>3
<1>5. s \in Ordered(listed, SortOf(query)) /\ s \in SetToSeqs(listed)
  BY <1>4 DEF Ordered
<1>6. /\ s \in Seq(listed) /\ Len(s) = total /\ DOMAIN s = 1..total
      /\ \A t \in listed : \E i \in 1..total : s[i] = t
  BY <1>1, <1>5, SetToSeqsIs DEF total
<1>7. \A n \in 1..pages : read[n] = s
  <2>1. EndsWithId(SortOf(query))
    BY SortEndsWithId
  <2>2. \A n \in 1..pages : read[n] \in Ordered(listed, SortOf(query))
    BY <1>4
  <2> HIDE DEF s
  <2> QED
    BY <1>5, <2>1, <2>2, OneOrder
<1> HIDE DEF s
<1>8. \A n \in Nat \ {0} : PageOf(s, OnPage(query, n)) = SubSeq(s, (n - 1) * p + 1, PageEnd(n, p, total))
  BY <1>6, PageIs DEF p
<1>9. DOMAIN g = 1..pages /\ \A n \in 1..pages : g[n] = SubSeq(s, (n - 1) * p + 1, PageEnd(n, p, total))
  BY <1>4, <1>7, <1>8
<1> HIDE DEF g
<1>10. all = SubSeq(s, 1, PageEnd(pages, p, total))
  BY <1>2, <1>3, <1>6, <1>9, PagesJoined
<1>11. pages * p \in Nat /\ (pages + 1) * p = pages * p + p
  BY <1>2, <1>3, PagesAdd
<1>12. PageEnd(pages, p, total) = total /\ PageEnd(pages + 1, p, total) = total
  BY <1>1, <1>2, <1>3, <1>11 DEF PageEnd
<1>13. all = s
  BY <1>6, <1>10, <1>12, SubSeqFull
<1>14. Range(s) = listed
  <2>1. \A i \in 1..total : s[i] \in listed
    BY <1>6, ElementOfSeq
  <2> QED
    BY <1>6, <2>1 DEF Range
<1>15. PageOf(s, OnPage(query, pages + 1)) = <<>>
  <2>1. pages + 1 \in Nat \ {0} /\ (pages + 1) - 1 = pages
    BY <1>3
  <2>2. PageOf(s, OnPage(query, pages + 1)) = SubSeq(s, pages * p + 1, total)
    BY <1>8, <1>12, <2>1
  <2>3. pages * p + 1 \in Int /\ total \in Int /\ total < pages * p + 1
    BY <1>1, <1>3, <1>11
  <2> QED
    BY <2>2, <2>3, SubSeqEmpty
<1> QED
  BY <1>6, <1>13, <1>14, <1>15 DEF s, total, g

LEMMA PagesPartitionAll ==
    ASSUME alive \subseteq Tasks
    PROVE  PagesPartition
<1> SUFFICES ASSUME NEW scope \in Scopes, NEW query \in Queries
             PROVE  LET listed == Listed(scope, query)
                        pages == TotalPages(Cardinality(listed), PerPage(query), Cardinality(listed))
                    IN  \A read \in [1..(pages + 1) -> Ordered(listed, SortOf(query))] :
                          LET page(n) == PageOf(read[n], OnPage(query, n))
                              all == FoldLeft(LAMBDA x, y : x \o y, <<>>, [n \in 1..pages |-> page(n)])
                          IN  /\ Range(all) = listed /\ Len(all) = Cardinality(listed)
                              /\ page(pages + 1) = <<>>
                              /\ query.view # NoView => BoardCovers(scope, query)
  BY DEF PagesPartition
<1> DEFINE listed == Listed(scope, query)
           pages == TotalPages(Cardinality(listed), PerPage(query), Cardinality(listed))
<1>1. scope \in SUBSET Tasks
  BY DEF Scopes
<1>2. listed \in SUBSET Tasks
  BY <1>1 DEF Listed
<1>3. BoardCovers(scope, query)
  BY <1>1, BoardCoversAll
<1> HIDE DEF listed
<1>4. ASSUME NEW read \in [1..(pages + 1) -> Ordered(listed, SortOf(query))]
      PROVE  LET page(n) == PageOf(read[n], OnPage(query, n))
                 all == FoldLeft(LAMBDA x, y : x \o y, <<>>, [n \in 1..pages |-> page(n)])
             IN  /\ Range(all) = listed /\ Len(all) = Cardinality(listed)
                 /\ page(pages + 1) = <<>>
                 /\ query.view # NoView => BoardCovers(scope, query)
  <2> HIDE DEF pages
  <2> DEFINE g == [n \in 1..pages |-> PageOf(read[n], OnPage(query, n))]
             all == Joined(g)
  <2>1. pages = TotalPages(Cardinality(listed), PerPage(query), Cardinality(listed))
    BY DEF pages
  <2>2. /\ Range(all) = listed /\ Len(all) = Cardinality(listed)
        /\ PageOf(read[pages + 1], OnPage(query, pages + 1)) = <<>>
    BY <1>2, <2>1, PagesOfListing
  <2>3. all = FoldLeft(LAMBDA x, y : x \o y, <<>>, g)
    BY DEF Joined
  <2> QED
    BY <1>3, <2>2, <2>3
<1> QED
  BY <1>4 DEF listed

\* The pages of a listing (task_service.list_tasks, task_sort, pagination): whatever
\* the database does with equal rows, in every statement anew, the pages 1 to
\* total_pages hold each task once and the next one none; a board shows them all.
THEOREM PagesHoldEachOnce == RelationsSpec => []PagesPartition
<1> DEFINE AliveTasks == alive \subseteq Tasks
<1>1. RelationsInit => AliveTasks
  BY DEF RelationsInit
<1>2. AliveTasks /\ [RelationsNext]_relationVars => AliveTasks'
  BY StepKeepsAliveTasks
<1>3. AliveTasks => PagesPartition
  BY PagesPartitionAll
<1> HIDE DEF AliveTasks
<1> QED
  BY <1>1, <1>2, <1>3, PTL DEF RelationsSpec
=============================================================================
