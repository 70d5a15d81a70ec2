---------------------------- MODULE TaskCreation ----------------------------
(***************************************************************************)
(* Concurrent requests that bring a task into one project, step by step:   *)
(* task_service.create_task, and apply_update when it moves a task in from *)
(* another project (the Movers).  Each takes the next index of the         *)
(* project, writes the row under the unique index on (project, index),     *)
(* checks the assignees and the reminders, and commits with the placement. *)
(*                                                                         *)
(* The transactions are the engine's.  Under SQLite reads see what is      *)
(* committed, one connection writes at a time, and the savepoint an insert *)
(* runs in is the outermost transaction, so that releasing it commits.     *)
(* Under MySQL reads see the snapshot the request started from, a row that *)
(* is not committed blocks whoever wants its index, and a savepoint is     *)
(* only a part of its transaction.                                         *)
(***************************************************************************)
EXTENDS Naturals, FiniteSets, FiniteSetsExt

CONSTANTS
    Requests,    \* the requests
    Movers,      \* those that move a task in rather than create one
    NoRequest,
    Attempts,    \* INDEX_ALLOCATION_ATTEMPTS
    Preferred,   \* the indices a body may carry; 0 is none (bound)
    MaxIndex     \* above every index the requests can reach (bound)

ASSUME RequestsAssumption == Movers \subseteq Requests /\ NoRequest \notin Requests
ASSUME AttemptsAssumption == Attempts \in Nat \ {0}
ASSUME IndexAssumption ==
    /\ IsFiniteSet(Requests) /\ MaxIndex \in Nat /\ Preferred \subseteq Nat
    /\ \A p \in Preferred \cup {0} : p + Cardinality(Requests) <= MaxIndex

VARIABLES
    sqlite,     \* which of the two engines, which does not change
    stage,      \* where each request is
    attempt,    \* how many inserts of it collided
    wanted,     \* the index its next insert carries
    snapshot,   \* the highest index it saw when it started (MySQL)
    holder,     \* by index: the request whose task has it, committed or not
    durable,    \* the requests whose task's row is committed
    placed,     \* those whose task's placement is committed
    deleted,    \* those whose task is soft-deleted since
    writer      \* the request that holds SQLite's write lock

vars == <<sqlite, stage, attempt, wanted, snapshot, holder, durable, placed, deleted, writer>>

Index == 1..MaxIndex
Running == {"numbering", "inserting", "checking"}
Answered == {"created", "refused", "failed"}

Init ==
    /\ sqlite \in BOOLEAN
    /\ stage = [r \in Requests |-> "new"]
    /\ attempt = [r \in Requests |-> 0]
    /\ wanted = [r \in Requests |-> 0] /\ snapshot = [r \in Requests |-> 0]
    /\ holder = [i \in Index |-> NoRequest]
    /\ durable = {} /\ placed = {} /\ deleted = {}
    /\ writer = NoRequest

-----------------------------------------------------------------------------

\* MUTANT of HighestIndex: a soft-deleted task no longer reserves its index.
HighestLiveIndex == Max({0} \cup {i \in Index : holder[i] \in durable \ deleted})
\* Over every committed row, soft-deleted tasks included.
HighestIndex == Max({0} \cup {i \in Index : holder[i] \in durable})

IndexOf(r) == Max({0} \cup {i \in Index : holder[i] = r})

\* The rows that are left once the transactions of R are rolled back.
Kept(R) == [i \in Index |-> IF holder[i] \in R \ durable THEN NoRequest ELSE holder[i]]
\* MUTANT of Unlocked: a failed request's connection keeps its lock.
StillLocked(R) == writer
\* A connection that ends its transaction, either way, gives the lock back.
Unlocked(R) == IF writer \in R THEN NoRequest ELSE writer

\* The requests of R end without a commit.
Abandon(R, outcome) ==
    /\ stage' = [r \in Requests |-> IF r \in R THEN outcome ELSE stage[r]]
    /\ holder' = Kept(R)
    /\ writer' = Unlocked(R)

\* r has to wait for another request before it writes.
Blocked(r) ==
    \/ sqlite /\ writer \notin {r, NoRequest}
    \/ /\ ~sqlite /\ stage[r] = "inserting"
       /\ holder[wanted[r]] \notin durable \cup {NoRequest}

\* MUTANT of ReleaseCommits: every released savepoint is a commit.
EveryReleaseCommits(r) == r \notin Movers
\* Releasing the savepoint of an insert commits the row under SQLite, unless
\* the savepoint of an earlier collision still stands around it.
ReleaseCommits(r) == sqlite /\ r \notin Movers /\ writer # r

\* A move has no retry; a creation has Attempts of them.
GivesUp(r) == r \in Movers \/ attempt[r] + 1 = Attempts

-----------------------------------------------------------------------------

\* The request's first query opens its snapshot.
Start(r) ==
    /\ stage[r] = "new"
    /\ stage' = [stage EXCEPT ![r] = "numbering"]
    /\ snapshot' = [snapshot EXCEPT ![r] = IF sqlite THEN 0 ELSE HighestIndex]
    /\ UNCHANGED <<sqlite, attempt, wanted, holder, durable, placed, deleted, writer>>

\* A body's own index is tried first, and only once.
Number(r) ==
    /\ stage[r] = "numbering"
    /\ stage' = [stage EXCEPT ![r] = "inserting"]
    /\ \E p \in IF r \in Movers \/ attempt[r] > 0 THEN {0} ELSE Preferred :
         wanted' = [wanted EXCEPT ![r] =
                     IF p # 0 THEN p ELSE 1 + (IF sqlite THEN HighestIndex ELSE snapshot[r])]
    /\ UNCHANGED <<sqlite, attempt, snapshot, holder, durable, placed, deleted, writer>>

Insert(r) ==
    /\ stage[r] = "inserting" /\ ~Blocked(r)
    /\ holder[wanted[r]] = NoRequest
    /\ stage' = [stage EXCEPT ![r] = "checking"]
    /\ holder' = [holder EXCEPT ![wanted[r]] = r]
    /\ IF ReleaseCommits(r)
       THEN durable' = durable \cup {r} /\ UNCHANGED writer
       ELSE writer' = (IF sqlite THEN r ELSE writer) /\ UNCHANGED durable
    /\ UNCHANGED <<sqlite, attempt, wanted, snapshot, placed, deleted>>

\* The unique index refuses the row.  Rolling the savepoint back keeps the
\* transaction around it, and the write lock with it.
Collide(r) ==
    /\ stage[r] = "inserting" /\ ~Blocked(r)
    /\ holder[wanted[r]] # NoRequest
    /\ attempt' = [attempt EXCEPT ![r] = @ + 1]
    /\ IF GivesUp(r)
       THEN Abandon({r}, "failed")
       ELSE /\ stage' = [stage EXCEPT ![r] = "numbering"]
            /\ writer' = (IF sqlite THEN r ELSE writer)
            /\ UNCHANGED holder
    /\ UNCHANGED <<sqlite, wanted, snapshot, durable, placed, deleted>>

\* An assignee without access, a reminder without an anchor.
Refuse(r) ==
    /\ stage[r] = "checking"
    /\ Abandon({r}, "refused")
    /\ UNCHANGED <<sqlite, attempt, wanted, snapshot, durable, placed, deleted>>

\* The placement, written and committed with everything before it.
Commit(r) ==
    /\ stage[r] = "checking" /\ ~Blocked(r)
    /\ stage' = [stage EXCEPT ![r] = "created"]
    /\ durable' = durable \cup {r} /\ placed' = placed \cup {r}
    /\ writer' = Unlocked({r})
    /\ UNCHANGED <<sqlite, attempt, wanted, snapshot, holder, deleted>>

\* busy_timeout (SQLite) or innodb_lock_wait_timeout (MySQL): not an
\* IntegrityError, so the request fails.
LockTimeout(r) ==
    /\ stage[r] \in {"inserting", "checking"} /\ Blocked(r)
    /\ Abandon({r}, "failed")
    /\ UNCHANGED <<sqlite, attempt, wanted, snapshot, durable, placed, deleted>>

\* The process goes down with every request it is running.
Crash ==
    LET R == {r \in Requests : stage[r] \in Running}
    IN  /\ R # {}
        /\ Abandon(R, "failed")
        /\ UNCHANGED <<sqlite, attempt, wanted, snapshot, durable, placed, deleted>>

\* delete_task and apply_update of a task that has been answered for.
Delete(r) ==
    /\ stage[r] = "created" /\ r \in durable \ deleted /\ writer = NoRequest
    /\ deleted' = deleted \cup {r}
    /\ UNCHANGED <<sqlite, stage, attempt, wanted, snapshot, holder, durable, placed, writer>>

MoveOut(r) ==
    /\ stage[r] = "created" /\ r \in durable \ deleted /\ writer = NoRequest
    /\ holder' = [i \in Index |-> IF holder[i] = r THEN NoRequest ELSE holder[i]]
    /\ durable' = durable \ {r} /\ placed' = placed \ {r}
    /\ UNCHANGED <<sqlite, stage, attempt, wanted, snapshot, deleted, writer>>

Work(r) == Start(r) \/ Number(r) \/ Insert(r) \/ Collide(r) \/ Refuse(r) \/ Commit(r)

\* Every request has its answer: the clients stop here.
Done == (\A r \in Requests : stage[r] \in Answered) /\ UNCHANGED vars

Next == \/ \E r \in Requests : Work(r) \/ LockTimeout(r) \/ Delete(r) \/ MoveOut(r)
        \/ Crash
        \/ Done

Spec == Init /\ [][Next]_vars

\* Every request runs on a thread of its own that the pool keeps scheduling.
\* Nothing makes a crash happen, and no wait has to run into its timeout.
FairSpec == Spec /\ \A r \in Requests : WF_vars(Work(r))

-----------------------------------------------------------------------------

\* "Each retry re-reads the high-water mark, so concurrent creators converge":
\* under SQLite no creation ever fails for want of an index.  (Under MySQL each
\* retry re-reads the snapshot that the request started from.)
CreatorsConverge ==
    \A r \in Requests \ Movers : sqlite /\ stage[r] = "failed" => attempt[r] < Attempts

\* No request waits or retries for ever, even if no lock ever times out: those
\* that hold a lock always come to release it.
EveryRequestAnswered == \A r \in Requests : <>(stage[r] \in Answered)

\* The tasks of the project, and the answers, are those of TaskLedger.  Under SQLite
\* a task is there for others to see before its request is answered, and stays when the
\* request is then refused or fails: only those that are answered for are compared.
Told(r) == r \in durable /\ (sqlite => stage[r] = "created")
Ledger == INSTANCE TaskLedger WITH
    Indexes <- Index,
    answer <- [r \in Requests |-> CASE stage[r] = "created" -> "created"
                                    [] stage[r] \in {"refused", "failed"} -> "refused"
                                    [] OTHER -> "none"],
    index <- [r \in Requests |-> IF Told(r) THEN IndexOf(r) ELSE 0]
ImplementsLedger == Ledger!Spec

\* "A rejected assignee takes the whole task with it" (task_service.py): a creation that
\* was refused leaves no row.
RefusedLeavesNothing == \A r \in Requests : stage[r] = "refused" => r \notin durable

\* What the docstring of the retry says of every engine: no creation fails for want of
\* an index.
ConvergeAnywhere == \A r \in Requests \ Movers : stage[r] = "failed" => attempt[r] < Attempts
=============================================================================
