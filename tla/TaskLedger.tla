----------------------------- MODULE TaskLedger -----------------------------
(***************************************************************************)
(* What creating a task promises its clients: a request is answered once,  *)
(* and a task shows up whole - its row, the index it will keep, its place  *)
(* on every board - at the moment its request succeeds, or not at all.     *)
(* TaskCreation implements it: under MySQL for every request, under SQLite *)
(* for the tasks whose request has been answered.                          *)
(***************************************************************************)
EXTENDS Naturals

CONSTANTS
    Requests,   \* the requests to create a task in a project, or to move one in
    Indexes     \* the indices a task can have, 0 not among them

VARIABLES
    answer,   \* what each request was answered, "none" so far
    index     \* the index of each request's task in the project; 0: not there

vars == <<answer, index>>

Free(i) == \A r \in Requests : index[r] # i

Init == /\ answer = [r \in Requests |-> "none"]
        /\ index = [r \in Requests |-> 0]

Succeed(r) ==
    /\ answer[r] = "none"
    /\ answer' = [answer EXCEPT ![r] = "created"]
    /\ \E i \in Indexes : Free(i) /\ index' = [index EXCEPT ![r] = i]

\* A server that goes down refuses everything it was working on.
Refuse(R) ==
    /\ R # {} /\ \A r \in R : answer[r] = "none"
    /\ answer' = [r \in Requests |-> IF r \in R THEN "refused" ELSE answer[r]]
    /\ UNCHANGED index

\* A task moves to another project: its index is free again.
Leave(r) ==
    /\ index[r] # 0
    /\ index' = [index EXCEPT ![r] = 0]
    /\ UNCHANGED answer

Next == \/ \E r \in Requests : Succeed(r) \/ Leave(r)
        \/ \E R \in SUBSET Requests : Refuse(R)

Spec == Init /\ [][Next]_vars
=============================================================================
