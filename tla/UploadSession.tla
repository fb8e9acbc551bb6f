--------------------------- MODULE UploadSession ---------------------------
(***************************************************************************)
(* One resumable upload: AttachmentsLargeService, its UploadSession row,   *)
(* the chunk objects in the bucket, and the cron that sweeps old sessions. *)
(*                                                                         *)
(* Every awaited call of a handler is a step; req[r] holds what request r  *)
(* read and still uses.  Sessions share nothing, so one is enough.  A      *)
(* `void delete...()` call runs in the background and is best effort.      *)
(* complete() on a row it cannot claim only reads, and has no step here.   *)
(* Contents and sizes are left out, and bytesReceived with them.           *)
(***************************************************************************)
EXTENDS Integers

CONSTANTS
    Request,        \* requests in flight at the same time
    TotalChunks,
    MaxClaims,      \* bound: complete() calls that get to assemble
    MaxFaults       \* bound: crashes, refused database calls, lost answers

Chunk == 0 .. TotalChunks - 1

ASSUME UploadAssumption ==
    /\ TotalChunks \in Nat \ {0}
    /\ MaxClaims \in Nat
    /\ MaxFaults \in Nat

VARIABLES
    status,       \* UploadSession.status
    expired,      \* expiresAt has passed
    received,     \* received[c]: how often c stands in receivedChunks
    stored,       \* chunk objects in the bucket
    files,        \* assembled files in the bucket
    attachments,  \* Attachment rows made from this session
    cleanup,      \* a background deleteChunkObjects is under way
    undo,         \* background deleteFile calls under way
    claims,       \* complete() calls that got to assemble so far
    faults,       \* faults so far
    unanswered,   \* commits that took effect and were reported as failed
    req,          \* req[r]: where request r is and what it remembers
    sweep         \* where sweepExpiredSessions is with this session

row == <<status, received>>
bucket == <<stored, files, cleanup, undo>>
counters == <<claims, faults, unanswered>>
vars == <<row, bucket, expired, attachments, counters, req, sweep>>

-----------------------------------------------------------------------------
PC == {"idle", "lazyExpire", "store", "record", "claimed", "download", "forget",
       "retry", "upload", "persist", "announce", "fail", "abort"}

RequestRecord ==
    [pc: PC, chunk: Chunk, seen: BOOLEAN, snapshot: [Chunk -> Nat]]

NoChunks == [c \in Chunk |-> 0]
Idle == [pc |-> "idle", chunk |-> 0, seen |-> FALSE, snapshot |-> NoChunks]

At(r, pc) == req[r].pc = pc
GoTo(r, pc) == req' = [req EXCEPT ![r].pc = pc]
Leave(r) == req' = [req EXCEPT ![r] = Idle]

TypeOK ==
    /\ status \in {"PENDING", "COMPLETING", "COMPLETED", "ABORTED", "FAILED"}
    /\ expired \in BOOLEAN
    /\ received \in [Chunk -> Nat]
    /\ stored \in SUBSET Chunk
    /\ files \in Nat /\ attachments \in Nat /\ undo \in Nat /\ claims \in Nat /\ faults \in Nat
    /\ unanswered \in Nat
    /\ cleanup \in BOOLEAN
    /\ req \in [Request -> RequestRecord]
    /\ sweep \in {"idle", "clean", "write"}

(* One more fault, while the bound allows it *)
Fault == faults < MaxFaults /\ faults' = faults + 1

(* init() has just created the session. *)
Init ==
    /\ status = "PENDING" /\ expired = FALSE
    /\ received = NoChunks
    /\ stored = {} /\ files = 0 /\ attachments = 0
    /\ cleanup = FALSE /\ undo = 0 /\ claims = 0 /\ faults = 0 /\ unanswered = 0
    /\ req = [r \in Request |-> Idle]
    /\ sweep = "idle"

-----------------------------------------------------------------------------
(* receiveChunk and getStatus *)

(* getActiveSession on a session past its expiry, whatever its status *)
ReadExpired(r) ==
    /\ At(r, "idle")
    /\ expired
    /\ GoTo(r, "lazyExpire")
    /\ UNCHANGED <<row, bucket, expired, attachments, counters, sweep>>

LazyExpire(r) ==
    /\ At(r, "lazyExpire")
    /\ status' = "ABORTED"
    /\ Leave(r)
    /\ UNCHANGED <<received, bucket, expired, attachments, counters, sweep>>

ReceiveChunk(r, c) ==
    /\ At(r, "idle")
    /\ ~expired
    /\ status \in {"PENDING", "COMPLETING"}
    /\ req' = [req EXCEPT ![r] = [Idle EXCEPT !.pc = "store", !.chunk = c,
                                              !.seen = (received[c] > 0)]]
    /\ UNCHANGED <<row, bucket, expired, attachments, counters, sweep>>

(* uploadChunkObject verifies the object, or throws after three attempts   *)
(* of which one may have landed.                                           *)
StoreChunk(r) ==
    /\ At(r, "store")
    /\ \/ /\ stored' = stored \cup {req[r].chunk}
          /\ GoTo(r, "record")
       \/ /\ stored' \in {stored, stored \cup {req[r].chunk}}
          /\ Leave(r)
    /\ UNCHANGED <<row, files, cleanup, undo, expired, attachments, counters, sweep>>

(* the update a request makes that saw the chunk missing from the row *)
AlwaysUncounted(r) == TRUE
Uncounted(r) == ~req[r].seen

RecordChunk(r) ==
    /\ At(r, "record")
    /\ received' = [received EXCEPT ![req[r].chunk] = IF Uncounted(r) THEN @ + 1 ELSE @]
    /\ Leave(r)
    /\ UNCHANGED <<status, bucket, expired, attachments, counters, sweep>>

-----------------------------------------------------------------------------
(* complete and assembleAndPersist *)

ClaimableTwice == status \in {"PENDING", "COMPLETING"} /\ ~expired
Claimable == status = "PENDING" /\ ~expired

Claim(r) ==
    /\ At(r, "idle")
    /\ Claimable
    /\ claims < MaxClaims
    /\ status' = "COMPLETING"
    /\ claims' = claims + 1
    /\ GoTo(r, "claimed")
    /\ UNCHANGED <<received, bucket, expired, attachments, faults, unanswered, sweep>>

ReadSession(r) ==
    /\ At(r, "claimed")
    /\ req' = [req EXCEPT ![r] = [Idle EXCEPT !.pc = "download", !.snapshot = received]]
    /\ UNCHANGED <<row, bucket, expired, attachments, counters, sweep>>

(* A chunk that is there may still be reported missing. *)
Download(r) ==
    /\ At(r, "download")
    /\ \/ /\ req[r].chunk \in stored
          /\ IF req[r].chunk + 1 = TotalChunks THEN GoTo(r, "upload")
             ELSE req' = [req EXCEPT ![r].chunk = @ + 1]
       \/ GoTo(r, "forget")
    /\ UNCHANGED <<row, bucket, expired, attachments, counters, sweep>>

(* The row gets back the chunks the snapshot had, without the missing one. *)
Forget(r) ==
    /\ At(r, "forget")
    /\ received' = [req[r].snapshot EXCEPT ![req[r].chunk] = 0]
    /\ GoTo(r, "retry")
    /\ UNCHANGED <<status, bucket, expired, attachments, counters, sweep>>

(* ConflictException: the session is usable again, whatever it became. *)
RetryStuck(r) == At(r, "retry") /\ Leave(r) /\ UNCHANGED <<row, bucket, expired, attachments, counters, sweep>>
Retry(r) ==
    /\ At(r, "retry")
    /\ status' = "PENDING"
    /\ Leave(r)
    /\ UNCHANGED <<received, bucket, expired, attachments, counters, sweep>>

(* Wrong total size, failed upload of the file, or the file is stored. *)
UploadFile(r) ==
    /\ At(r, "upload")
    /\ \/ files' = files + 1 /\ GoTo(r, "persist")
       \/ files' = files /\ GoTo(r, "fail")
    /\ UNCHANGED <<row, stored, cleanup, undo, expired, attachments, counters, sweep>>

(* The transaction that creates the Attachment row commits, or it fails,   *)
(* and then the file is deleted in the background: also when it did commit *)
(* and only its answer was lost.                                           *)
Recorded == attachments' = attachments + 1 /\ status' = "COMPLETED"
Refused == UNCHANGED <<attachments, status, faults, unanswered>>
AnswerLost == Recorded /\ Fault /\ unanswered' = unanswered + 1

PersistUndone(r) ==
    /\ At(r, "persist")
    /\ undo' = undo + 1
    /\ \/ Recorded /\ cleanup' = TRUE /\ GoTo(r, "announce") /\ UNCHANGED <<faults, unanswered>>
       \/ (Refused \/ AnswerLost) /\ GoTo(r, "fail") /\ UNCHANGED cleanup
    /\ UNCHANGED <<received, stored, files, expired, claims, sweep>>
Persist(r) ==
    /\ At(r, "persist")
    /\ \/ /\ Recorded
          /\ cleanup' = TRUE
          /\ GoTo(r, "announce")
          /\ UNCHANGED <<undo, faults, unanswered>>
       \/ /\ Refused \/ AnswerLost
          /\ undo' = undo + 1
          /\ GoTo(r, "fail")
          /\ UNCHANGED cleanup
    /\ UNCHANGED <<received, stored, files, expired, claims, sweep>>

(* The project lookup after the commit is still inside complete()'s try. *)
Announce(r) ==
    /\ At(r, "announce")
    /\ \/ Leave(r) /\ UNCHANGED faults
       \/ Fault /\ GoTo(r, "fail")
    /\ UNCHANGED <<row, bucket, expired, attachments, claims, unanswered, sweep>>

Fail(r) ==
    /\ At(r, "fail")
    /\ status' = "FAILED"
    /\ Leave(r)
    /\ UNCHANGED <<received, bucket, expired, attachments, counters, sweep>>

-----------------------------------------------------------------------------
(* abort and abortBeacon *)

AbortRead(r) ==
    /\ At(r, "idle")
    /\ status \notin {"COMPLETED", "ABORTED"}
    /\ GoTo(r, "abort")
    /\ UNCHANGED <<row, bucket, expired, attachments, counters, sweep>>

AbortWrite(r) ==
    /\ At(r, "abort")
    /\ status' = "ABORTED" /\ cleanup' = TRUE
    /\ Leave(r)
    /\ UNCHANGED <<received, stored, files, undo, expired, attachments, counters, sweep>>

(* sweepExpiredSessions *)

Swept == {"PENDING", "FAILED"}

SweepRead ==
    /\ sweep = "idle"
    /\ expired /\ status \in Swept
    /\ sweep' = "clean"
    /\ UNCHANGED <<row, bucket, expired, attachments, counters, req>>

SweepClean ==
    /\ sweep = "clean"
    /\ stored' \in {{}, stored}
    /\ sweep' = "write"
    /\ UNCHANGED <<row, files, cleanup, undo, expired, attachments, counters, req>>

SweepWrite ==
    /\ sweep = "write"
    /\ status' = "ABORTED"
    /\ sweep' = "idle"
    /\ UNCHANGED <<received, bucket, expired, attachments, counters, req>>

-----------------------------------------------------------------------------
(* Background deletions, the clock, and what may go wrong *)

CleanUp ==
    /\ cleanup
    /\ stored' \in {{}, stored}
    /\ cleanup' = FALSE
    /\ UNCHANGED <<row, files, undo, expired, attachments, counters, req, sweep>>

UndoBlindly == TRUE
UndoPending == undo > 0

UndoFile ==
    /\ UndoPending
    /\ files' \in {files - 1, files}
    /\ undo' = undo - 1
    /\ UNCHANGED <<row, stored, cleanup, expired, attachments, counters, req, sweep>>

Expire ==
    /\ ~expired
    /\ expired' = TRUE
    /\ UNCHANGED <<row, bucket, attachments, counters, req, sweep>>

(* A database call outside the try block fails: the handler just ends. *)
CallFails(r) ==
    /\ Fault
    /\ req[r].pc \in {"lazyExpire", "record", "claimed", "retry", "fail", "abort"}
    /\ Leave(r)
    /\ UNCHANGED <<row, bucket, expired, attachments, claims, unanswered, sweep>>

ForgetFails(r) ==
    /\ Fault
    /\ At(r, "forget")
    /\ GoTo(r, "fail")
    /\ UNCHANGED <<row, bucket, expired, attachments, claims, unanswered, sweep>>

Restart ==
    /\ Fault
    /\ req' = [r \in Request |-> Idle]
    /\ cleanup' = FALSE /\ undo' = 0 /\ sweep' = "idle"
    /\ UNCHANGED <<row, stored, files, expired, attachments, claims, unanswered>>

-----------------------------------------------------------------------------
Arrive(r) ==
    \/ ReadExpired(r) \/ Claim(r) \/ AbortRead(r)
    \/ \E c \in Chunk : ReceiveChunk(r, c)

Proceed(r) ==
    \/ LazyExpire(r) \/ StoreChunk(r) \/ RecordChunk(r)
    \/ ReadSession(r) \/ Download(r) \/ Forget(r) \/ Retry(r)
    \/ UploadFile(r) \/ Persist(r) \/ Announce(r) \/ Fail(r) \/ AbortWrite(r)

Background == SweepRead \/ SweepClean \/ SweepWrite \/ CleanUp \/ UndoFile \/ Expire

Misfortune == Restart \/ \E r \in Request : CallFails(r) \/ ForgetFails(r)

Next == Background \/ Misfortune \/ \E r \in Request : Arrive(r) \/ Proceed(r)

Spec == Init /\ [][Next]_vars

-----------------------------------------------------------------------------
(* Properties *)

Assembling == {"claimed", "download", "forget", "retry", "upload", "persist"}
Completing == Assembling \cup {"announce", "fail"}
Holder(r) == req[r].pc \in Completing

(* The conditional update in complete() is the mutex its comment says it   *)
(* is: one request at a time assembles, and while one does the row cannot  *)
(* be claimed, whatever abort, expiry and sweep write to it.               *)
OneCompleter ==
    \A r \in Request : Holder(r) =>
        status # "PENDING" /\ \A q \in Request : Holder(q) => q = r

(* A session never makes two Attachment rows, over retries, aborts,        *)
(* crashes and repeated complete() calls.                                  *)
OneAttachment == attachments <= 1

(* Once the Attachment exists nobody assembles again.                      *)
NothingLeftToAssemble ==
    attachments > 0 => status # "PENDING" /\ \A r \in Request : req[r].pc \notin Assembling

(* A session is assembled by one request at a time, and into one row.      *)
OneAssembly == OneCompleter /\ OneAttachment /\ NothingLeftToAssemble

(* The session is that of Assembly, while nobody, one request, or one      *)
(* request's catch block holds it: only its holder hands it back, and not  *)
(* once the attachment exists; chunks, aborts, expiry, the sweep and the   *)
(* background deletions can only withdraw it.                              *)
Assembler == INSTANCE Assembly
                 WITH Caller <- Request, worker <- {r \in Request : Holder(r)},
                      claimable <- (status = "PENDING"), made <- attachments
AssemblyPromised == Assembler!Spec

(* The file an Attachment row points at is deleted by no undo but that of  *)
(* its own commit, when this took effect and was reported as failed; and   *)
(* the file about to be recorded is in the bucket.  Retries, crashes and   *)
(* the undo of an earlier assembly take no file that is listed.            *)
Persisting == \E r \in Request : At(r, "persist")
FilesKept == attachments + undo + (IF Persisting THEN 1 ELSE 0) <= files + unanswered

(* A chunk counts once in receivedChunks, so progress never passes the     *)
(* total ("Atomically add the chunk ... if not already present").          *)
ReceivedOnce == \A c \in Chunk : received[c] <= 1

(* What getStatus tells a resuming client to skip is really in the bucket  *)
(* ("persisted on object storage - the source of truth").                  *)
ReceivedIsStored ==
    status = "PENDING" /\ ~expired => \A c \in Chunk : received[c] > 0 => c \in stored

(* Progress is honest: both hold.                                          *)
ProgressHonest == ReceivedOnce /\ ReceivedIsStored

(* What request r has read, or stored, still is so when it writes by it.   *)
Usable == status \in {"PENDING", "COMPLETING"} /\ ~expired
StillSo(r) ==
    /\ At(r, "lazyExpire") => expired
    /\ req[r].pc \in {"store", "record"} => (req[r].seen <=> received[req[r].chunk] > 0)
    /\ At(r, "record") /\ Usable => req[r].chunk \in stored
    /\ req[r].pc \in Assembling => status = "COMPLETING" \/ expired
    /\ req[r].pc \in {"download", "forget"} => req[r].snapshot = received

(* A step of another request takes that away: the same chunk is counted    *)
(* twice at once, or a chunk, an abort or a claim comes between the steps  *)
(* of an assembly.                                                         *)
Overtaken == \E r \in Request : req'[r] = req[r] /\ StillSo(r) /\ ~StillSo(r)'

(* COMPLETED is final: "Lets a duplicate /complete call return the         *)
(* original instead of redoing".                                           *)
CompletedIsFinal == [][status = "COMPLETED" => status' = "COMPLETED"]_vars

(* A session is not COMPLETING for ever.                                   *)
CompletionEnds == status = "COMPLETING" ~> status # "COMPLETING"

(* The cron takes every expired session out of PENDING and FAILED.         *)
ExpiredSwept == expired /\ status \in {"PENDING", "FAILED"} ~> status \notin {"PENDING", "FAILED"}

(* No session is left for ever to a request or a cron that has gone. *)
UploadsSettle == CompletionEnds /\ ExpiredSwept
=============================================================================
