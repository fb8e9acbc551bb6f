-------------------------------- MODULE Files -------------------------------
(***************************************************************************)
(* AttachmentsService on one issue: the rows of the database and the       *)
(* objects of the storage bucket, which no transaction spans.  An upload   *)
(* puts every file first and inserts the rows in one transaction then; a   *)
(* delete drops the row first and the file then.  Every stored file has a  *)
(* name of its own, so a row is called by its file.                        *)
(***************************************************************************)
EXTENDS FiniteSets, Naturals

CONSTANTS
    File,         \* objects, and the attachments that point to them
    FileRequest   \* uploads and deletes under way at the same time

VARIABLES
    stored,       \* the objects in the bucket
    attached,     \* attached[f]: the row that points to f
    issueThere,   \* the issue exists
    upload,       \* upload[r]: where request r is
    leaked,       \* files whose removal was tried in vain, or never comes
    unanswered    \* rows that were committed by a transaction that then failed

filesVars == <<stored, attached, issueThere, upload, leaked, unanswered>>

-----------------------------------------------------------------------------
UploadRecord ==
    [pc: {"idle", "put", "commit", "cleanup"}, todo: SUBSET File, done: SUBSET File]

NoUpload == [pc |-> "idle", todo |-> {}, done |-> {}]

FilesTypeOK ==
    /\ stored \in SUBSET File
    /\ attached \in [File -> {"UNUSED", "LIVE", "GONE"}]
    /\ issueThere \in BOOLEAN
    /\ upload \in [FileRequest -> UploadRecord]
    /\ leaked \in SUBSET File
    /\ unanswered \in SUBSET File

FilesInit ==
    /\ stored = {}
    /\ attached = [f \in File |-> "UNUSED"]
    /\ issueThere = TRUE
    /\ upload = [r \in FileRequest |-> NoUpload]
    /\ leaked = {}
    /\ unanswered = {}

Attached(f) == attached[f] = "LIVE"
InHand == UNION {upload[r].todo \cup upload[r].done : r \in FileRequest}
FreshFile(f) == attached[f] = "UNUSED" /\ f \notin stored \cup leaked \cup InHand

-----------------------------------------------------------------------------
(* uploadMany *)

UploadStart(r) ==
    \E batch \in SUBSET {f \in File : FreshFile(f)} :
        /\ upload[r].pc = "idle"
        /\ batch # {}
        /\ issueThere
        /\ upload' = [upload EXCEPT ![r] = [pc |-> "put", todo |-> batch, done |-> {}]]
        /\ UNCHANGED <<stored, attached, issueThere, leaked, unanswered>>

Put(r) ==
    \E f \in upload[r].todo :
        /\ upload[r].pc = "put"
        /\ stored' = stored \cup {f}
        /\ upload' = [upload EXCEPT
                         ![r].todo = @ \ {f},
                         ![r].done = @ \cup {f},
                         ![r].pc = IF upload[r].todo = {f} THEN "commit" ELSE "put"]
        /\ UNCHANGED <<attached, issueThere, leaked, unanswered>>

(* The put that fails may have stored the file: it is not among those the *)
(* handler removes.                                                       *)
PutFails(r) ==
    \E f \in upload[r].todo, landed \in BOOLEAN :
        /\ upload[r].pc = "put"
        /\ stored' = IF landed THEN stored \cup {f} ELSE stored
        /\ leaked' = IF landed THEN leaked \cup {f} ELSE leaked
        /\ upload' = [upload EXCEPT ![r].todo = {},
                                    ![r].pc = IF upload[r].done = {} THEN "idle" ELSE "cleanup"]
        /\ UNCHANGED <<attached, issueThere, unanswered>>

Commit(r) ==
    /\ upload[r].pc = "commit"
    /\ issueThere
    /\ attached' = [f \in File |-> IF f \in upload[r].done THEN "LIVE" ELSE attached[f]]
    /\ upload' = [upload EXCEPT ![r] = NoUpload]
    /\ UNCHANGED <<stored, issueThere, leaked, unanswered>>

(* The transaction fails, as it does when the issue is gone. *)
CommitFails(r) ==
    /\ upload[r].pc = "commit"
    /\ upload' = [upload EXCEPT ![r].pc = "cleanup"]
    /\ UNCHANGED <<stored, attached, issueThere, leaked, unanswered>>

(* It commits, and the answer is lost: the handler takes it for a failure. *)
CommitUnanswered(r) ==
    /\ upload[r].pc = "commit"
    /\ issueThere
    /\ attached' = [f \in File |-> IF f \in upload[r].done THEN "LIVE" ELSE attached[f]]
    /\ unanswered' = unanswered \cup upload[r].done
    /\ upload' = [upload EXCEPT ![r].pc = "cleanup"]
    /\ UNCHANGED <<stored, issueThere, leaked>>

-----------------------------------------------------------------------------
(* delete: of two that read the row, one finds it gone and throws *)

DeleteFileFirst(r, f) ==
    /\ upload[r].pc = "idle"
    /\ Attached(f)
    /\ stored' = stored \ {f}
    /\ upload' = [upload EXCEPT ![r] = [NoUpload EXCEPT !.pc = "cleanup", !.done = {f}]]
    /\ UNCHANGED <<attached, issueThere, leaked, unanswered>>
DeleteAttachment(r, f) ==
    /\ upload[r].pc = "idle"
    /\ Attached(f)
    /\ attached' = [attached EXCEPT ![f] = "GONE"]
    /\ upload' = [upload EXCEPT ![r] = [NoUpload EXCEPT !.pc = "cleanup", !.done = {f}]]
    /\ UNCHANGED <<stored, issueThere, leaked, unanswered>>

(* deleteFile, which only logs that it failed *)
RemoveFile(r) ==
    \E f \in upload[r].done, failed \in BOOLEAN :
        /\ upload[r].pc = "cleanup"
        /\ stored' = IF failed THEN stored ELSE stored \ {f}
        /\ leaked' = IF failed THEN leaked \cup {f} ELSE leaked
        /\ upload' = [upload EXCEPT ![r] = IF upload[r].done = {f} THEN NoUpload
                         ELSE [NoUpload EXCEPT !.pc = "cleanup", !.done = upload[r].done \ {f}]]
        /\ UNCHANGED <<attached, issueThere, unanswered>>

(* The issue is deleted, by its own route or with its project: its rows go *)
(* with it, and nothing looks at their files.                              *)
DeleteIssue ==
    /\ issueThere
    /\ issueThere' = FALSE
    /\ attached' = [f \in File |-> IF Attached(f) THEN "GONE" ELSE attached[f]]
    /\ leaked' = leaked \cup {f \in File : Attached(f)}
    /\ UNCHANGED <<stored, upload, unanswered>>

FileRequestDies(r) ==
    /\ upload[r].pc # "idle"
    /\ leaked' = leaked \cup upload[r].done \cup upload[r].todo
    /\ upload' = [upload EXCEPT ![r] = NoUpload]
    /\ UNCHANGED <<stored, attached, issueThere, unanswered>>

-----------------------------------------------------------------------------
FilesNext ==
    \/ \E r \in FileRequest :
          \/ UploadStart(r)
          \/ Put(r)
          \/ PutFails(r)
          \/ Commit(r)
          \/ CommitFails(r)
          \/ CommitUnanswered(r)
          \/ \E f \in File : DeleteAttachment(r, f)
          \/ RemoveFile(r)
          \/ FileRequestDies(r)
    \/ DeleteIssue

FilesSpec == FilesInit /\ [][FilesNext]_filesVars

-----------------------------------------------------------------------------
(* An attachment that is listed can be opened: no file is removed while    *)
(* its row is there, unless the transaction that inserted the row was      *)
(* reported as failed after it had committed.                              *)
RowsHaveFiles == \A f \in File : Attached(f) => f \in stored \cup unanswered

(* No file stays in the bucket without a row, unless its removal failed or *)
(* was cut short, or it went with its issue: whatever else ends an upload  *)
(* or a delete removes what it stored.                                     *)
OrphansExplained ==
    \A f \in stored : Attached(f) \/ f \in leaked \/ f \in InHand
=============================================================================
