---------------------------- MODULE Attachments -----------------------------
(***************************************************************************)
(* Files attached to tasks: rows in the database and bytes in a directory, *)
(* under the id of the row, with no transaction over the two.  An upload   *)
(* flushes a row to learn its id, writes the bytes, and commits all of its *)
(* rows at the end; a deletion commits first and removes the bytes after;  *)
(* a download reads the row and then the bytes.  A request may fail at any *)
(* point, of a crash, a full disk or a lock timeout.                       *)
(*                                                                         *)
(* Under SQLite the first flush takes the write lock, and a rollback gives *)
(* the ids back; under MySQL requests write side by side, and ids are lost.*)
(***************************************************************************)
EXTENDS Naturals, Sequences, SequencesExt, FiniteSetsExt

CONSTANTS
    Uploaders,      \* the requests that run at the same time
    NoUploader,
    MaxFiles,       \* how many files one upload brings (bound)
    MaxContents     \* how many files are brought in all (bound)

ASSUME AttachmentsAssumption == NoUploader \notin Uploaders /\ MaxContents \in Nat

VARIABLES
    sqlite,     \* the engine, which does not change
    files,      \* the committed rows of files, with task_attachments': the content of each
    lastFile,   \* the highest file id handed out
    bytes,      \* the directory: the content under each id
    brought,    \* how many contents were brought; each has a number of its own
    work,       \* by request: what it is at
    writer      \* SQLite's write lock

attachmentVars == <<sqlite, files, lastFile, bytes, brought, work, writer>>

NoWork == [at |-> "idle"]
TooLarge == 0

AttachmentsInit ==
    /\ sqlite \in BOOLEAN
    /\ files = <<>> /\ lastFile = 0 /\ bytes = <<>> /\ brought = 0
    /\ work = [r \in Uploaders |-> NoWork] /\ writer = NoUploader

-----------------------------------------------------------------------------
Put(f, x, v) == [y \in DOMAIN f \cup {x} |-> IF y = x THEN v ELSE f[y]]
Drop(f, S) == [y \in DOMAIN f \ S |-> f[y]]

MayWrite(r) == sqlite => writer \in {NoUploader, r}
Writes(r) == writer' = IF sqlite THEN r ELSE writer
Releases(r) == writer' = IF writer = r THEN NoUploader ELSE writer
At(r, w) == work' = [work EXCEPT ![r] = w]

-----------------------------------------------------------------------------
(* Uploading.                                                              *)

\* Contents of a request, TooLarge for those above the limit.
Batch(large) == [i \in DOMAIN large |-> IF large[i] THEN TooLarge
                                        ELSE brought + Cardinality({j \in 1..i : ~large[j]})]

StartUpload(r) ==
    /\ work[r] = NoWork
    /\ \E n \in 1..MaxFiles : \E large \in [1..n -> BOOLEAN] :
         /\ brought' = brought + Cardinality({i \in 1..n : ~large[i]}) /\ brought' <= MaxContents
         /\ At(r, [at |-> "upload", todo |-> Batch(large), rows |-> <<>>])
    /\ UNCHANGED <<sqlite, files, lastFile, bytes, writer>>

\* MUTANT of NextFile: the id after the highest that is in use.
NextFreeFile == 1 + Max({0} \cup DOMAIN files \cup UNION {IF work[r].at \in {"upload", "save"}
                                                         THEN DOMAIN work[r].rows ELSE {} : r \in Uploaders})
\* AUTOINCREMENT.
NextFile == lastFile + 1

\* The row of the next file is flushed; files that are too large are reported and passed over.
FlushFile(r) ==
    /\ work[r].at = "upload" /\ work[r].todo # <<>>
    /\ IF Head(work[r].todo) = TooLarge
       THEN /\ At(r, [work[r] EXCEPT !.todo = Tail(@)])
            /\ UNCHANGED <<lastFile, writer>>
       ELSE /\ MayWrite(r) /\ Writes(r)
            /\ At(r, [work[r] EXCEPT !.at = "save", !.rows = Put(@, NextFile, Head(work[r].todo))])
            /\ lastFile' = NextFile
    /\ UNCHANGED <<sqlite, files, bytes, brought>>

SaveBytes(r) ==
    /\ work[r].at = "save"
    /\ LET id == Max(DOMAIN work[r].rows) IN bytes' = Put(bytes, id, work[r].rows[id])
    /\ At(r, [work[r] EXCEPT !.at = "upload", !.todo = Tail(@)])
    /\ UNCHANGED <<sqlite, files, lastFile, brought, writer>>

CommitUpload(r) ==
    /\ work[r].at = "upload" /\ work[r].todo = <<>>
    /\ files' = [f \in DOMAIN files \cup DOMAIN work[r].rows |->
                   IF f \in DOMAIN work[r].rows THEN work[r].rows[f] ELSE files[f]]
    /\ At(r, NoWork) /\ Releases(r)
    /\ UNCHANGED <<sqlite, lastFile, bytes, brought>>

\* A rollback: bytes that were written stay where they are.
FailUpload(r) ==
    /\ work[r].at \in {"upload", "save"}
    /\ lastFile' = IF sqlite THEN lastFile - Cardinality(DOMAIN work[r].rows) ELSE lastFile
    /\ At(r, NoWork) /\ Releases(r)
    /\ UNCHANGED <<sqlite, files, bytes, brought>>

-----------------------------------------------------------------------------
(* Deleting and downloading.                                               *)

StartDelete(r) ==
    /\ work[r] = NoWork
    /\ \E f \in DOMAIN files : At(r, [at |-> "delete", file |-> f])
    /\ UNCHANGED <<sqlite, files, lastFile, bytes, brought, writer>>

\* MUTANT of CommitDelete: the bytes go first.
UnlinkFirst(r) ==
    /\ work[r].at = "delete" /\ MayWrite(r)
    /\ bytes' = Drop(bytes, {work[r].file}) /\ At(r, [work[r] EXCEPT !.at = "unlink"])
    /\ UNCHANGED <<sqlite, files, lastFile, brought, writer>>
\* A row that another deletion took is no error.
CommitDelete(r) ==
    /\ work[r].at = "delete" /\ MayWrite(r)
    /\ files' = Drop(files, {work[r].file}) /\ At(r, [work[r] EXCEPT !.at = "unlink"])
    /\ UNCHANGED <<sqlite, lastFile, bytes, brought, writer>>

Unlink(r) ==
    /\ work[r].at = "unlink"
    /\ bytes' = Drop(bytes, {work[r].file}) /\ At(r, NoWork)
    /\ UNCHANGED <<sqlite, files, lastFile, brought, writer>>

StartDownload(r) ==
    /\ work[r] = NoWork
    /\ \E f \in DOMAIN files : At(r, [at |-> "load", file |-> f, content |-> files[f]])
    /\ UNCHANGED <<sqlite, files, lastFile, bytes, brought, writer>>

\* The bytes, or none: 404.
LoadBytes(r) ==
    /\ work[r].at = "load" /\ At(r, NoWork)
    /\ UNCHANGED <<sqlite, files, lastFile, bytes, brought, writer>>

Crash(r) ==
    /\ work[r].at \in {"delete", "unlink"} /\ At(r, NoWork)
    /\ UNCHANGED <<sqlite, files, lastFile, bytes, brought, writer>>

-----------------------------------------------------------------------------
AttachmentsNext == \E r \in Uploaders :
    \/ StartUpload(r) \/ FlushFile(r) \/ SaveBytes(r) \/ CommitUpload(r) \/ FailUpload(r)
    \/ StartDelete(r) \/ CommitDelete(r) \/ Unlink(r) \/ Crash(r)
    \/ StartDownload(r) \/ LoadBytes(r)

AttachmentsSpec == AttachmentsInit /\ [][AttachmentsNext]_attachmentVars

-----------------------------------------------------------------------------
(* Properties.                                                             *)

\* A row that can be read has the bytes that were uploaded for it.
RowsHaveBytes == \A f \in DOMAIN files : f \in DOMAIN bytes /\ bytes[f] = files[f]

\* A download has the bytes of the row that it read, or none once that was deleted.
DownloadsOwnBytes ==
    \A r \in Uploaders : work[r].at = "load" =>
      IF work[r].file \in DOMAIN bytes THEN bytes[work[r].file] = work[r].content
      ELSE work[r].file \notin DOMAIN files

\* Whatever fails between the two stores, a row has its own bytes: they are written
\* before it is committed, removed after it is gone, and nobody else is given its id.
\* A download that looked a row up before it was deleted never answers with the bytes
\* of another: an id may come back after a rollback, but not after a deletion.
FilesWhole == RowsHaveBytes /\ DownloadsOwnBytes
=============================================================================
