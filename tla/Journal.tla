------------------------------- MODULE Journal ------------------------------
(***************************************************************************)
(* What the server writes down about itself: LogsService with its buffer   *)
(* in memory, fed by the exception filter, the slow-request interceptor    *)
(* and the controllers through EventLoggerService, and the audit and mail  *)
(* logs, whose rows are inserted one by one.  Nobody waits for a write,    *)
(* and one that fails is dropped.                                          *)
(***************************************************************************)
EXTENDS Naturals, Sequences, Functions

CONSTANTS
    LogEntry,         \* entries, each written about once
    FlushThreshold,   \* entries that make the buffer flush at once, 50
    MaxBuffer         \* entries after which the oldest would be dropped, 500

ASSUME JournalAssumption ==
    /\ FlushThreshold \in Nat \ {0}
    /\ MaxBuffer \in Nat
    /\ FlushThreshold <= MaxBuffer

VARIABLES
    buffer,     \* LogsService.buffer
    flying,     \* the batches whose insert is under way
    rows,       \* rows[e]: how many rows hold e
    taken,      \* entries that were accepted
    lost,       \* entries of a failed insert, pushed out, or in a process that ended
    aged,       \* entries whose rows are past the retention
    deleted,    \* entries the nightly job deleted
    logging,    \* the switches of LoggingConfigService that are on
    process     \* "up", or "closing" after onModuleDestroy

journalVars == <<buffer, flying, rows, taken, lost, aged, deleted, logging, process>>

-----------------------------------------------------------------------------
Switches == {"requestLog", "adminAudit", "mailLog"}

JournalTypeOK ==
    /\ buffer \in Seq(LogEntry)
    /\ flying \in SUBSET SUBSET LogEntry
    /\ rows \in [LogEntry -> Nat]
    /\ taken \in SUBSET LogEntry
    /\ lost \in SUBSET LogEntry
    /\ aged \in SUBSET LogEntry
    /\ deleted \in SUBSET LogEntry
    /\ logging \in SUBSET Switches
    /\ process \in {"up", "closing"}

JournalInit ==
    /\ buffer = <<>>
    /\ flying = {}
    /\ rows = [e \in LogEntry |-> 0]
    /\ taken = {}
    /\ lost = {}
    /\ aged = {}
    /\ deleted = {}
    /\ logging = Switches
    /\ process = "up"

Fresh(e) == e \notin taken

(* flush: the buffer is emptied before the insert starts.  With an empty   *)
(* buffer it returns at once.                                              *)
Flush(entries) ==
    /\ buffer' = <<>>
    /\ flying' = IF entries = <<>> THEN flying ELSE flying \cup {Range(entries)}

-----------------------------------------------------------------------------
(* pickEventFor: the statuses that are worth a row *)
Reported == {"5xx", "403", "429"}
Statuses == Reported \cup {"other"}

RoomIn(entries) == IF Len(entries) >= MaxBuffer THEN Tail(entries) ELSE entries
PushedOut(entries) == IF Len(entries) >= MaxBuffer THEN {Head(entries)} ELSE {}

(* enqueue, with the flush that a full buffer starts *)
Enqueue(e) ==
    /\ Fresh(e)
    /\ "requestLog" \in logging
    /\ LET entries == Append(RoomIn(buffer), e) IN
          IF Len(entries) >= FlushThreshold
          THEN Flush(entries)
          ELSE buffer' = entries /\ UNCHANGED flying
    /\ taken' = taken \cup {e}
    /\ lost' = lost \cup PushedOut(buffer)
    /\ UNCHANGED <<rows, aged, deleted, logging, process>>

(* AllExceptionsFilter.catch *)
Caught(e, status) == status \in Reported /\ Enqueue(e)

(* RequestLoggerInterceptor: only what was slow *)
SlowRequest(e, slow) == slow /\ Enqueue(e)

(* AdminAuditService.log and MailLogService.create *)
WriteAlone(e, switch) ==
    /\ Fresh(e)
    /\ switch \in logging \ {"requestLog"}
    /\ flying' = flying \cup {{e}}
    /\ taken' = taken \cup {e}
    /\ UNCHANGED <<buffer, rows, lost, aged, deleted, logging, process>>

-----------------------------------------------------------------------------
(* The timer, every two seconds while the process is not closing *)
TimedFlush ==
    /\ process = "up"
    /\ buffer # <<>>
    /\ Flush(buffer)
    /\ UNCHANGED <<rows, taken, lost, aged, deleted, logging, process>>

(* What the insert writes; emptying the buffer only now would lose what    *)
(* came in while it was under way.                                         *)
InsertRowsLate(batch) ==
    /\ rows' = [e \in LogEntry |-> IF e \in batch THEN rows[e] + 1 ELSE rows[e]]
    /\ buffer' = <<>>

InsertRows(batch) ==
    /\ rows' = [e \in LogEntry |-> IF e \in batch THEN rows[e] + 1 ELSE rows[e]]
    /\ UNCHANGED buffer

BatchWritten(batch) ==
    /\ batch \in flying
    /\ flying' = flying \ {batch}
    /\ InsertRows(batch)
    /\ UNCHANGED <<taken, lost, aged, deleted, logging, process>>

BatchFails(batch) ==
    /\ batch \in flying
    /\ flying' = flying \ {batch}
    /\ lost' = lost \cup batch
    /\ UNCHANGED <<buffer, rows, taken, aged, deleted, logging, process>>

(* deleteOlderThan, at night; when it fails, the next night *)
Ages(e) ==
    /\ rows[e] > 0
    /\ aged' = aged \cup {e}
    /\ UNCHANGED <<buffer, flying, rows, taken, lost, deleted, logging, process>>

CleanUpLogs ==
    /\ aged # {}
    /\ rows' = [e \in LogEntry |-> IF e \in aged THEN 0 ELSE rows[e]]
    /\ deleted' = deleted \cup aged
    /\ aged' = {}
    /\ UNCHANGED <<buffer, flying, taken, lost, logging, process>>

SwitchLogging(on) ==
    /\ logging' = on
    /\ UNCHANGED <<buffer, flying, rows, taken, lost, aged, deleted, process>>

-----------------------------------------------------------------------------
(* onModuleDestroy: the timer stops and what is in the buffer is written;  *)
(* requests that are still answered may fill it again.                     *)
CloseProcess ==
    /\ process = "up"
    /\ Flush(buffer)
    /\ process' = "closing"
    /\ UNCHANGED <<rows, taken, lost, aged, deleted, logging>>

(* The process is gone, after closing or without, and starts again. *)
ProcessEnds ==
    /\ lost' = lost \cup Range(buffer) \cup UNION flying
    /\ buffer' = <<>>
    /\ flying' = {}
    /\ process' = "up"
    /\ UNCHANGED <<rows, taken, aged, deleted, logging>>

JournalNext ==
    \/ \E e \in LogEntry :
          \/ Enqueue(e)
          \/ \E status \in Statuses : Caught(e, status)
          \/ \E slow \in BOOLEAN : SlowRequest(e, slow)
          \/ \E switch \in Switches : WriteAlone(e, switch)
          \/ Ages(e)
    \/ TimedFlush
    \/ \E batch \in flying : BatchWritten(batch) \/ BatchFails(batch)
    \/ CleanUpLogs
    \/ \E on \in SUBSET Switches : SwitchLogging(on)
    \/ CloseProcess
    \/ ProcessEnds

JournalSpec == JournalInit /\ [][JournalNext]_journalVars

-----------------------------------------------------------------------------
Held == Range(buffer) \cup UNION flying
Kept == {e \in LogEntry : rows[e] > 0}

(* An entry that was accepted is waiting, or written once, or was lost     *)
(* with a failed insert or with its process, and never two of them, while  *)
(* entries come in during the inserts of others.  The cap never bites: the *)
(* buffer is flushed before it is full, so nothing is pushed out.          *)
EntriesAccounted ==
    /\ taken = Held \cup Kept \cup lost \cup deleted
    /\ Held \cap (Kept \cup lost) = {} /\ Kept \cap lost = {}
    /\ \A e \in LogEntry : rows[e] <= 1
    /\ Len(buffer) < FlushThreshold
=============================================================================
