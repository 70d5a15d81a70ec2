----------------------------- MODULE OverlapMC ------------------------------
(***************************************************************************)
(* Requests that overlap, checked in one run: on the project tree, on the  *)
(* assignees, labels and files of tasks, and the drags of a board page.    *)
(* None of one kind reads or writes the state of another, so that mixing   *)
(* them would show nothing more; a behaviour is one of theirs while the    *)
(* others rest.                                                            *)
(***************************************************************************)
EXTENDS ProjectTree, TaskAssociations, Labels, Attachments, BoardDrag, TLC

TreeRest == Init /\ UNCHANGED vars
AssigneesRest == AssigneesInit /\ UNCHANGED assigneeVars
LabelsRest == LabelsInit /\ UNCHANGED labelVars
FilesRest == AttachmentsInit /\ sqlite /\ UNCHANGED attachmentVars
\* Columns and places are told apart by nothing but the bucket that repeaters start over in.
FirstBoard == [t \in Cards |-> [column |-> DefaultColumn, place |-> CHOOSE p \in Places : TRUE]]
DragsRest == onServer = FirstBoard /\ DragInit /\ UNCHANGED dragVars

OverlapInit ==
    Init /\ AssigneesInit /\ LabelsInit /\ AttachmentsInit /\ DragInit /\ onServer = FirstBoard

OverlapNext ==
    \/ DragsRest /\ AssigneesRest /\ LabelsRest /\ FilesRest /\ Next
    \/ DragsRest /\ TreeRest /\ LabelsRest /\ FilesRest /\ AssigneesNext
    \/ DragsRest /\ TreeRest /\ AssigneesRest /\ FilesRest /\ LabelsNext
    \/ DragsRest /\ TreeRest /\ AssigneesRest /\ LabelsRest /\ AttachmentsNext
    \/ TreeRest /\ AssigneesRest /\ LabelsRest /\ FilesRest /\ DragNext

OverlapSpec == OverlapInit
    /\ [][OverlapNext]_<<vars, assigneeVars, labelVars, attachmentVars, dragVars>>

\* Each may write one task and read the other, where shared.
EachOnesOwn == [u \in People |-> [t \in LabelledTasks |-> IF t = u THEN "write" ELSE "read"]]

Alike == Permutations(Askers) \cup Permutations(Assigners) \cup Permutations(Requests)
=============================================================================
