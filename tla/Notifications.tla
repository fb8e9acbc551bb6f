---------------------------- MODULE Notifications ---------------------------
(***************************************************************************)
(* NotificationsService and DigestService for one user: the notifications, *)
(* their marks, the user's preferences, and the digest job, which reads    *)
(* the candidates, reads the preferences, sends a mail and marks what it   *)
(* read, each in a call of its own.  The trigger sites call create and     *)
(* createMany without waiting; a write that fails is logged and lost.      *)
(***************************************************************************)
EXTENDS FiniteSets, Naturals

CONSTANTS
    Note,         \* notification row ids
    NoteType,     \* ISSUE_ASSIGNED, COMMENT_CREATED, ...
    DigestSize,   \* most candidates of a run, 50; bound: fewer in a run
    MaxUnmarked     \* bound: runs that sent a mail and could not mark

ASSUME NotificationsAssumption ==
    NoteType # {} /\ DigestSize \in Nat \ {0} /\ MaxUnmarked \in Nat

VARIABLES
    note,      \* note[n]: a Notification row
    optedIn,   \* the types with a preference row whose email is true
    verified,  \* the user exists and has a verified address
    digest,    \* where the digest job is
    mailed,    \* mailed[n]: the digests sent that contained n
    unmarked     \* runs that ended between the mail and the marks

notificationsVars == <<note, optedIn, verified, digest, mailed, unmarked>>

-----------------------------------------------------------------------------
(* recent: createdAt is within the last 24 hours.  unwanted: when a digest *)
(* that read it read the preferences, its type was not among them.         *)
NoteRecord ==
    [row: {"UNUSED", "LIVE", "GONE"}, type: NoteType, read: BOOLEAN,
     digested: BOOLEAN, recent: BOOLEAN, unwanted: BOOLEAN]

DigestRecord ==
    [pc: {"idle", "user", "prefs", "mail", "mark"},
     candidates: SUBSET Note, eligible: SUBSET Note]

NoDigest == [pc |-> "idle", candidates |-> {}, eligible |-> {}]

NotificationsTypeOK ==
    /\ note \in [Note -> NoteRecord]
    /\ optedIn \in SUBSET NoteType
    /\ verified \in BOOLEAN
    /\ digest \in DigestRecord
    /\ mailed \in [Note -> Nat]
    /\ unmarked \in 0..MaxUnmarked

Blank(row, type) == [row |-> row, type |-> type, read |-> FALSE, digested |-> FALSE,
                     recent |-> TRUE, unwanted |-> FALSE]

NoteType1 == CHOOSE t \in NoteType : TRUE

NotificationsInit ==
    /\ note = [n \in Note |-> Blank("UNUSED", NoteType1)]
    /\ optedIn = {}
    /\ verified = FALSE
    /\ digest = NoDigest
    /\ mailed = [n \in Note |-> 0]
    /\ unmarked = 0

LiveNote(n) == note[n].row = "LIVE"
Pending(n) == LiveNote(n) /\ ~note[n].read /\ ~note[n].digested /\ note[n].recent

-----------------------------------------------------------------------------
(* create, and createMany for this user: one row for a user however often  *)
(* the caller names them                                                   *)
Notify(n, type) ==
    /\ note[n].row = "UNUSED"
    /\ note' = [note EXCEPT ![n] = Blank("LIVE", type)]
    /\ UNCHANGED <<optedIn, verified, digest, mailed, unmarked>>

MarkRead(n) ==
    /\ LiveNote(n)
    /\ ~note[n].read
    /\ note' = [note EXCEPT ![n].read = TRUE]
    /\ UNCHANGED <<optedIn, verified, digest, mailed, unmarked>>

MarkAllRead ==
    /\ note' = [n \in Note |-> IF LiveNote(n) THEN [note[n] EXCEPT !.read = TRUE] ELSE note[n]]
    /\ UNCHANGED <<optedIn, verified, digest, mailed, unmarked>>

DeleteNote(n) ==
    /\ LiveNote(n)
    /\ note' = [note EXCEPT ![n] = Blank("GONE", note[n].type)]
    /\ UNCHANGED <<optedIn, verified, digest, mailed, unmarked>>

UpdatePreferences(types) ==
    /\ optedIn' = types
    /\ UNCHANGED <<note, verified, digest, mailed, unmarked>>

VerifyAddress ==
    /\ verified' = TRUE
    /\ UNCHANGED <<note, optedIn, digest, mailed, unmarked>>

DayPasses(n) ==
    /\ LiveNote(n)
    /\ note' = [note EXCEPT ![n].recent = FALSE]
    /\ UNCHANGED <<optedIn, verified, digest, mailed, unmarked>>

-----------------------------------------------------------------------------
(* runDailyDigest, sendDigestFor *)

DigestStart ==
    /\ digest.pc = "idle"
    /\ \E n \in Note : Pending(n)
    /\ digest' = [digest EXCEPT !.pc = "user"]
    /\ UNCHANGED <<note, optedIn, verified, mailed, unmarked>>

(* The candidates are the newest; which those are is left open. *)
DigestRead ==
    /\ digest.pc = "user"
    /\ \/ /\ verified
          /\ \E C \in SUBSET {n \in Note : Pending(n)} :
                /\ C # {}
                /\ \/ C = {n \in Note : Pending(n)} /\ Cardinality(C) <= DigestSize
                   \/ Cardinality(C) = DigestSize
                /\ digest' = [digest EXCEPT !.pc = "prefs", !.candidates = C]
       \/ /\ ~verified \/ \A n \in Note : ~Pending(n)
          /\ digest' = NoDigest
    /\ UNCHANGED <<note, optedIn, verified, mailed, unmarked>>

Eligible == {n \in digest.candidates : note[n].type \in optedIn}

DigestPreferences ==
    /\ digest.pc = "prefs"
    /\ digest' = [digest EXCEPT !.pc = IF Eligible = {} THEN "mark" ELSE "mail",
                                !.eligible = Eligible]
    /\ note' = [n \in Note |-> IF n \in digest.candidates \ Eligible
                               THEN [note[n] EXCEPT !.unwanted = TRUE]
                               ELSE note[n]]
    /\ UNCHANGED <<optedIn, verified, mailed, unmarked>>

DigestMail ==
    /\ digest.pc = "mail"
    /\ mailed' = [n \in Note |-> IF n \in digest.eligible THEN mailed[n] + 1 ELSE mailed[n]]
    /\ digest' = [digest EXCEPT !.pc = "mark"]
    /\ UNCHANGED <<note, optedIn, verified, unmarked>>

(* updateMany on the candidates' ids: rows deleted since are not there *)
MarkedUnread == {n \in Note : LiveNote(n) /\ ~note[n].read}
Marked == {n \in digest.candidates : LiveNote(n)}

DigestMark ==
    /\ digest.pc = "mark"
    /\ note' = [n \in Note |-> IF n \in Marked THEN [note[n] EXCEPT !.digested = TRUE] ELSE note[n]]
    /\ digest' = NoDigest
    /\ UNCHANGED <<optedIn, verified, mailed, unmarked>>

(* A step fails or the process stops: the error of one user is logged and  *)
(* nothing is marked, whether or not the mail has gone.                    *)
DigestFails ==
    /\ digest.pc \in {"prefs", "mail", "mark"}
    /\ \/ digest.pc = "mark" /\ digest.eligible # {}
          /\ unmarked < MaxUnmarked
          /\ unmarked' = unmarked + 1
       \/ ~(digest.pc = "mark" /\ digest.eligible # {})
          /\ UNCHANGED unmarked
    /\ digest' = NoDigest
    /\ UNCHANGED <<note, optedIn, verified, mailed>>

-----------------------------------------------------------------------------
NotificationsNext ==
    \/ \E n \in Note :
          \/ \E type \in NoteType : Notify(n, type)
          \/ MarkRead(n)
          \/ DeleteNote(n)
          \/ DayPasses(n)
    \/ MarkAllRead
    \/ \E types \in SUBSET NoteType : UpdatePreferences(types)
    \/ VerifyAddress
    \/ DigestStart
    \/ DigestRead
    \/ DigestPreferences
    \/ DigestMail
    \/ DigestMark
    \/ DigestFails

NotificationsSpec == NotificationsInit /\ [][NotificationsNext]_notificationsVars

-----------------------------------------------------------------------------
(* digestSentAt takes a notification out of every later digest: it is set  *)
(* only on one that a digest contained, or whose type the user had not     *)
(* opted into when a digest looked at it; one that came in while the       *)
(* digest was being made, or that did not fit into it, is not marked.      *)
DigestedIsSettled ==
    \A n \in Note : note[n].digested => mailed[n] > 0 \/ note[n].unwanted

(* A notification is mailed again only after a run that ended between its  *)
(* mail and its marks.                                                     *)
MailedOnce == \A n \in Note : mailed[n] <= 1 + unmarked

(* The digest keeps both: nothing is settled unseen, nothing mailed again. *)
DigestKept == DigestedIsSettled /\ MailedOnce
=============================================================================
