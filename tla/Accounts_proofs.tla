--------------------------- MODULE Accounts_proofs ---------------------------
(***************************************************************************)
(* Theorems about Accounts for any set of users, tokens and requests.      *)
(***************************************************************************)
EXTENDS AccountsWatched, FiniteSetTheorems, TLAPS

USE AccountsAssumption

(* TypeOK from its parts: users, sessions, requests.                       *)
UsersTyped == user \in [User -> UserRecord]

SessionsTyped ==
    /\ session \in [Token -> SessionRecord]
    /\ \A t \in Token :
          /\ session[t].state # "UNUSED" => session[t].login \in Token
          /\ session[t].state = "LIVE" => session[t].user \in User

WellFilled(rec) ==
    /\ rec.pc \in PC \ {"idle", "create", "createOAuth", "revoke"} => rec.user \in User
    /\ rec.pc \in {"createOAuth", "link", "unlink"} => rec.provider \in Provider
    /\ rec.pc = "rotate" => rec.rows # {}

RequestsTyped ==
    /\ req \in [Request -> RequestRecord]
    /\ \A r \in Request : WellFilled(req[r])

LEMMA TypePartsNext == TypeOK' <=> UsersTyped' /\ SessionsTyped' /\ RequestsTyped'
BY DEF TypeOK, UsersTyped, SessionsTyped, RequestsTyped, WellFilled, At

LEMMA NoUserTyped ==
    ASSUME NEW state \in {"UNUSED", "LIVE", "GONE"}
    PROVE  NoUser(state) \in UserRecord
BY DEF NoUser, UserRecord

LEMMA UsersFrame == ASSUME TypeOK, UNCHANGED user PROVE UsersTyped'
BY DEF TypeOK, UsersTyped

LEMMA SessionsFrame == ASSUME TypeOK, UNCHANGED session PROVE SessionsTyped'
BY DEF TypeOK, SessionsTyped

LEMMA RequestsFrame == ASSUME TypeOK, UNCHANGED req PROVE RequestsTyped'
BY DEF TypeOK, RequestsTyped, WellFilled, At

LEMMA RowTyped ==
    ASSUME TypeOK, NEW u \in User, NEW rec \in UserRecord, user' = [user EXCEPT ![u] = rec]
    PROVE  UsersTyped'
BY DEF TypeOK, UsersTyped

LEMMA FlagsTyped ==
    ASSUME TypeOK, NEW u \in User, NEW b \in BOOLEAN
    PROVE  /\ [user[u] EXCEPT !.deletion = b] \in UserRecord
           /\ [user[u] EXCEPT !.active = b] \in UserRecord
           /\ [user[u] EXCEPT !.code = b] \in UserRecord
           /\ [user[u] EXCEPT !.authored = b] \in UserRecord
<1>1. user[u] \in UserRecord
  BY DEF TypeOK
<1> QED
  BY <1>1 DEF UserRecord

LEMMA UpdateTyped ==
    ASSUME TypeOK, NEW u \in User, NEW rec \in UserRecord, UpdateUser(u, rec)
    PROVE  UsersTyped'
BY DEF TypeOK, UsersTyped, UpdateUser

LEMMA EndTyped ==
    ASSUME TypeOK, NEW t \in Token, TokenRow(t)
    PROVE  /\ EndOf(t) \in SessionRecord
           /\ EndOf(t).state = "GONE"
           /\ EndOf(t).login = session[t].login
           /\ EndOf(t).login \in Token
BY DEF TypeOK, EndOf, SessionRecord, TokenRow

LEMMA DropSessionsTyped ==
    ASSUME TypeOK, NEW S, DropSessions(S)
    PROVE  SessionsTyped'
BY EndTyped DEF TypeOK, SessionsTyped, DropSessions

LEMMA DropUserTyped ==
    ASSUME TypeOK, NEW u \in User, DropUser(u)
    PROVE  UsersTyped' /\ SessionsTyped'
BY NoUserTyped, DropSessionsTyped DEF DropUser, TypeOK, UsersTyped

LEMMA RequestTyped ==
    ASSUME TypeOK, NEW r \in Request, NEW rec \in RequestRecord, WellFilled(rec),
           req' = [req EXCEPT ![r] = rec]
    PROVE  RequestsTyped'
BY DEF TypeOK, RequestsTyped, WellFilled, At

LEMMA LeaveTyped ==
    ASSUME TypeOK, NEW r \in Request, Leave(r)
    PROVE  RequestsTyped'
<1>1. Idle \in RequestRecord /\ WellFilled(Idle)
  BY DEF Idle, RequestRecord, WellFilled, PC
<1> QED
  BY <1>1, RequestTyped DEF Leave

(* The entries a handler makes with the id of a user.                      *)
LEMMA EnterTyped ==
    ASSUME TypeOK, NEW r \in Request, NEW u \in User,
           NEW pc \in PC \ {"createOAuth", "link", "unlink", "rotate"}, Enter(r, pc, u)
    PROVE  RequestsTyped'
<1>1. [Idle EXCEPT !.pc = pc, !.user = u] \in RequestRecord
  BY DEF Idle, RequestRecord
<1>2. WellFilled([Idle EXCEPT !.pc = pc, !.user = u])
  BY DEF Idle, WellFilled
<1> QED
  BY <1>1, <1>2, RequestTyped DEF Enter

LEMMA EnterCreateTyped ==
    ASSUME TypeOK, NEW r \in Request, Enter(r, "create", NULL)
    PROVE  RequestsTyped'
<1>1. /\ [Idle EXCEPT !.pc = "create", !.user = NULL] \in RequestRecord
      /\ WellFilled([Idle EXCEPT !.pc = "create", !.user = NULL])
  BY DEF Idle, RequestRecord, WellFilled, PC
<1> QED
  BY <1>1, RequestTyped DEF Enter

(* One that goes on to the next step keeps its user.                       *)
LEMMA GoToTyped ==
    ASSUME TypeOK, NEW r \in Request, req[r].user \in User,
           NEW pc \in {"code", "session"}, GoTo(r, pc)
    PROVE  RequestsTyped'
<1>1. [req[r] EXCEPT !.pc = pc] \in RequestRecord
  BY DEF TypeOK, RequestRecord, PC
<1>2. WellFilled([req[r] EXCEPT !.pc = pc])
  BY DEF TypeOK, RequestRecord, WellFilled
<1> QED
  BY <1>1, <1>2, RequestTyped DEF GoTo, TypeOK

(* The user of a request whose handler has one.                            *)
LEMMA HasUser ==
    ASSUME TypeOK, NEW r \in Request,
           req[r].pc \notin {"idle", "create", "createOAuth", "revoke"}
    PROVE  req[r].user \in User /\ user[req[r].user] \in UserRecord
BY DEF TypeOK, RequestRecord

-----------------------------------------------------------------------------

LEMMA LifecycleStepType ==
    ASSUME TypeOK, NEW r \in Request, LifecycleStep(r)
    PROVE  TypeOK'
<1>1. CASE RegisterRead(r)
  BY <1>1, UsersFrame, SessionsFrame, EnterTyped, EnterCreateTyped, TypePartsNext DEF RegisterRead, PC
<1>2. CASE RegisterDrop(r)
  <2>1. req[r].user \in User
    BY <1>2, HasUser DEF RegisterDrop, At
  <2> QED
    BY <1>2, <2>1, UsersFrame, SessionsFrame, DropUserTyped, EnterCreateTyped, LeaveTyped, TypePartsNext
    DEF RegisterDrop
<1>3. ASSUME NEW u \in User, RegisterCreate(r, u) PROVE TypeOK'
  <2> DEFINE new == [NoUser("LIVE") EXCEPT !.password = TRUE]
  <2>0. new \in UserRecord
    BY NoUserTyped DEF UserRecord
  <2>1. UsersTyped'
    BY <1>3, <2>0, RowTyped, UsersFrame DEF RegisterCreate
  <2>2. RequestsTyped'
    BY <1>3, EnterTyped, LeaveTyped DEF RegisterCreate, PC
  <2> QED
    BY <1>3, <2>1, <2>2, SessionsFrame, TypePartsNext DEF RegisterCreate
<1>4. ASSUME NEW u \in User, VerifyRead(r, u) PROVE TypeOK'
  BY <1>4, UsersFrame, SessionsFrame, EnterTyped, TypePartsNext DEF VerifyRead, PC
<1>5. ASSUME NEW u \in User, CancelDeletion(r, u) PROVE TypeOK'
  <2>0. user' = [user EXCEPT ![u] = [user[u] EXCEPT !.deletion = FALSE]]
    BY <1>5 DEF CancelDeletion
  <2>1. UsersTyped'
    BY <2>0, FlagsTyped, RowTyped
  <2> QED
    BY <1>5, <2>1, SessionsFrame, RequestsFrame, TypePartsNext DEF CancelDeletion
<1>6. ASSUME NEW u \in User, HardDeleteRead(r, u) PROVE TypeOK'
  BY <1>6, UsersFrame, SessionsFrame, EnterTyped, TypePartsNext DEF HardDeleteRead, PC
<1>7. ASSUME NEW u \in User, NEW p \in Provider, UnlinkRead(r, u, p) PROVE TypeOK'
  <2> DEFINE rec == [Idle EXCEPT !.pc = "unlink", !.user = u, !.provider = p]
  <2>1. rec \in RequestRecord /\ WellFilled(rec)
    BY DEF Idle, RequestRecord, WellFilled, PC
  <2> QED
    BY <1>7, <2>1, UsersFrame, SessionsFrame, RequestTyped, TypePartsNext DEF UnlinkRead
<1>8. CASE VerifyWrite(r)
  <2>1. /\ req[r].user \in User
        /\ [user[req[r].user] EXCEPT !.verified = TRUE, !.code = FALSE] \in UserRecord
    BY <1>8, HasUser DEF VerifyWrite, At, UserRecord
  <2> QED
    BY <1>8, <2>1, UpdateTyped, SessionsFrame, LeaveTyped, TypePartsNext DEF VerifyWrite
<1>9. CASE UnlinkWrite(r)
  <2>1. /\ req[r].user \in User
        /\ [user[req[r].user] EXCEPT !.links = @ \ {req[r].provider}] \in UserRecord
    BY <1>9, HasUser DEF UnlinkWrite, At, UserRecord
  <2> QED
    BY <1>9, <2>1, UpdateTyped, SessionsFrame, LeaveTyped, TypePartsNext DEF UnlinkWrite
<1>10. CASE HardDelete(r)
  <2>1. req[r].user \in User
    BY <1>10, HasUser DEF HardDelete, At
  <2> QED
    BY <1>10, <2>1, UsersFrame, SessionsFrame, DropUserTyped, LeaveTyped, TypePartsNext DEF HardDelete
<1> QED
  BY <1>1, <1>2, <1>3, <1>4, <1>5, <1>6, <1>7, <1>8, <1>9, <1>10 DEF LifecycleStep

LEMMA AccountStepType ==
    ASSUME TypeOK, NEW r \in Request, AccountStep(r)
    PROVE  TypeOK'
<1>1. ASSUME NEW u \in User, ForgotRead(r, u) PROVE TypeOK'
  BY <1>1, UsersFrame, SessionsFrame, EnterTyped, TypePartsNext DEF ForgotRead, PC
<1>2. ASSUME NEW u \in User, ResetRead(r, u) PROVE TypeOK'
  BY <1>2, UsersFrame, SessionsFrame, EnterTyped, TypePartsNext DEF ResetRead, PC
<1>3. ASSUME NEW u \in User, Activate(r, u) PROVE TypeOK'
  <2>0. user' = [user EXCEPT ![u] = [user[u] EXCEPT !.active = TRUE]]
    BY <1>3 DEF Activate
  <2>1. UsersTyped'
    BY <2>0, FlagsTyped, RowTyped
  <2> QED
    BY <1>3, <2>1, SessionsFrame, RequestsFrame, TypePartsNext DEF Activate
<1>4. ASSUME NEW u \in User, Deactivate(r, u) PROVE TypeOK'
  <2>0. user' = [user EXCEPT ![u] = [user[u] EXCEPT !.active = FALSE]]
    BY <1>4 DEF Deactivate
  <2>1. UsersTyped'
    BY <2>0, FlagsTyped, RowTyped
  <2> QED
    BY <1>4, <2>1, SessionsFrame, EnterTyped, TypePartsNext DEF Deactivate, PC
<1>5. ASSUME NEW u \in User, RemoveUser(r, u) PROVE TypeOK'
  BY <1>5, DropUserTyped, RequestsFrame, TypePartsNext DEF RemoveUser
<1>6. ASSUME NEW u \in User, RequestDeletion(r, u) PROVE TypeOK'
  <2>0. user' = [user EXCEPT ![u] = [user[u] EXCEPT !.deletion = TRUE]]
    BY <1>6 DEF RequestDeletion
  <2>1. UsersTyped'
    BY <2>0, FlagsTyped, RowTyped
  <2> QED
    BY <1>6, <2>1, SessionsFrame, RequestsFrame, TypePartsNext DEF RequestDeletion
<1>7. ASSUME NEW u \in User, OAuthCreate(r, u) PROVE TypeOK'
  <2> DEFINE rec == [req[r] EXCEPT !.pc = "link", !.user = u]
  <2> DEFINE new == [NoUser("LIVE") EXCEPT !.verified = TRUE]
  <2>0. new \in UserRecord
    BY NoUserTyped DEF UserRecord
  <2>1. UsersTyped'
    BY <1>7, <2>0, RowTyped, UsersFrame DEF OAuthCreate
  <2>2. rec \in RequestRecord /\ WellFilled(rec)
    BY <1>7 DEF OAuthCreate, At, TypeOK, RequestRecord, WellFilled, PC
  <2>3. (req' = [req EXCEPT ![r] = rec]) \/ Leave(r)
    BY <1>7 DEF OAuthCreate, TypeOK
  <2>4. RequestsTyped'
    BY <2>2, <2>3, LeaveTyped, RequestTyped
  <2> QED
    BY <1>7, <2>1, <2>4, SessionsFrame, TypePartsNext DEF OAuthCreate
<1>8. ASSUME NEW p \in Provider, OAuthRead(r, p) PROVE TypeOK'
  <2>1. /\ [Idle EXCEPT !.pc = "createOAuth", !.provider = p] \in RequestRecord
        /\ WellFilled([Idle EXCEPT !.pc = "createOAuth", !.provider = p])
    BY DEF Idle, RequestRecord, WellFilled, PC
  <2>2. ASSUME NEW u \in User
        PROVE  /\ [Idle EXCEPT !.pc = "link", !.user = u, !.provider = p] \in RequestRecord
               /\ WellFilled([Idle EXCEPT !.pc = "link", !.user = u, !.provider = p])
    BY DEF Idle, RequestRecord, WellFilled, PC
  <2> QED
    BY <1>8, <2>1, <2>2, UsersFrame, SessionsFrame, RequestTyped, TypePartsNext DEF OAuthRead
<1>9. CASE CreateCode(r)
  <2>1. /\ req[r].user \in User
        /\ [user[req[r].user] EXCEPT !.code = TRUE] \in UserRecord
    BY <1>9, HasUser DEF CreateCode, At, UserRecord
  <2> QED
    BY <1>9, <2>1, UpdateTyped, SessionsFrame, LeaveTyped, TypePartsNext DEF CreateCode
<1>10. CASE ForgotDelete(r)
  <2>1. /\ req[r].user \in User
        /\ [user[req[r].user] EXCEPT !.code = FALSE] \in UserRecord
    BY <1>10, HasUser DEF ForgotDelete, At, UserRecord
  <2> QED
    BY <1>10, <2>1, UpdateTyped, SessionsFrame, GoToTyped, TypePartsNext DEF ForgotDelete
<1>11. CASE ResetWrite(r)
  <2>1. /\ req[r].user \in User
        /\ [user[req[r].user] EXCEPT !.password = TRUE, !.code = FALSE] \in UserRecord
    BY <1>11, HasUser DEF ResetWrite, At, UserRecord
  <2> QED
    BY <1>11, <2>1, UpdateTyped, SessionsFrame, LeaveTyped, TypePartsNext DEF ResetWrite
<1>12. CASE OAuthLink(r)
  <2>1. /\ req[r].user \in User /\ req[r].provider \in Provider
        /\ [user[req[r].user] EXCEPT !.links = @ \cup {req[r].provider}] \in UserRecord
    BY <1>12, HasUser DEF OAuthLink, At, UserRecord, TypeOK
  <2> QED
    BY <1>12, <2>1, UpdateTyped, UsersFrame, SessionsFrame, GoToTyped, TypePartsNext DEF OAuthLink
<1>13. CASE DeactivateWipe(r)
  <2> DEFINE rec == [Idle EXCEPT !.pc = "revoke", !.rows = SessionsOf(req[r].user)]
  <2>1. rec \in RequestRecord /\ WellFilled(rec)
    BY DEF Idle, RequestRecord, WellFilled, PC, SessionsOf
  <2> QED
    BY <1>13, <2>1, UsersFrame, SessionsFrame, RequestTyped, TypePartsNext DEF DeactivateWipe
<1> QED
  BY <1>1, <1>2, <1>3, <1>4, <1>5, <1>6, <1>7, <1>8, <1>9, <1>10, <1>11, <1>12, <1>13
  DEF AccountStep

LEMMA SessionStepType ==
    ASSUME TypeOK, NEW r \in Request, SessionStep(r)
    PROVE  TypeOK'
<1>1. ASSUME NEW u \in User, Login(r, u) PROVE TypeOK'
  BY <1>1, UsersFrame, SessionsFrame, EnterTyped, TypePartsNext DEF Login, PC
<1>2. ASSUME NEW u \in User, ChangePasswordRead(r, u) PROVE TypeOK'
  <2> DEFINE rec == [Idle EXCEPT !.pc = "change", !.user = u, !.rows = SessionsOf(u)]
  <2>1. rec \in RequestRecord /\ WellFilled(rec)
    BY DEF Idle, RequestRecord, WellFilled, PC, SessionsOf
  <2> QED
    BY <1>2, <2>1, UsersFrame, SessionsFrame, RequestTyped, TypePartsNext DEF ChangePasswordRead
<1>3. ASSUME NEW u \in User, NEW keep, RevokeRead(r, u, keep) PROVE TypeOK'
  <2> DEFINE rec == [Idle EXCEPT !.pc = "revoke", !.rows = SessionsOf(u) \ {keep}]
  <2>1. rec \in RequestRecord /\ WellFilled(rec)
    BY DEF Idle, RequestRecord, WellFilled, PC, SessionsOf
  <2> QED
    BY <1>3, <2>1, UsersFrame, SessionsFrame, RequestTyped, TypePartsNext DEF RevokeRead
<1>4. ASSUME NEW t \in Token, CreateSession(r, t) PROVE TypeOK'
  <2>1. req[r].user \in User
    BY <1>4, HasUser DEF CreateSession, At
  <2>2. SessionsTyped'
    BY <1>4, <2>1 DEF CreateSession, TypeOK, SessionsTyped, SessionRecord
  <2> QED
    BY <1>4, <2>2, UsersFrame, LeaveTyped, TypePartsNext DEF CreateSession
<1>5. ASSUME NEW t \in Token, RefreshRead(r, t) PROVE TypeOK'
  <2> DEFINE rec == [Idle EXCEPT !.pc = "rotate", !.user = session[t].user, !.rows = {t}]
  <2>1. rec \in RequestRecord /\ WellFilled(rec)
    BY <1>5 DEF RefreshRead, TokenRow, TypeOK, Idle, RequestRecord, WellFilled, PC
  <2> QED
    BY <1>5, <2>1, UsersFrame, SessionsFrame, RequestTyped, TypePartsNext DEF RefreshRead
<1>6. ASSUME NEW n \in Token, RefreshCommit(r, n) PROVE TypeOK'
  <2>1. req[r].user \in User /\ req[r].rows \subseteq Token
    BY <1>6, HasUser DEF RefreshCommit, At, TypeOK, RequestRecord
  <2>2. PICK t \in req[r].rows :
            session' = IF Rotatable(t) /\ Exists(req[r].user)
                       THEN [session EXCEPT ![t] = EndOf(t), ![n] = Rotated(r, t)]
                       ELSE session
    BY <1>6 DEF RefreshCommit
  <2>3. ASSUME Rotatable(t), Exists(req[r].user) PROVE SessionsTyped'
    <3>1. Rotated(r, t) \in SessionRecord /\ Rotated(r, t).login \in Token
          /\ Rotated(r, t).user \in User
      BY <2>1, <2>3 DEF Rotated, Rotatable, TokenRow, TypeOK, SessionRecord
    <3>2. EndOf(t) \in SessionRecord /\ EndOf(t).state = "GONE" /\ EndOf(t).login \in Token
      BY <2>1, <2>3, EndTyped DEF Rotatable
    <3>3. session' = [session EXCEPT ![t] = EndOf(t), ![n] = Rotated(r, t)]
      BY <2>2, <2>3
    <3> QED
      BY <2>1, <3>1, <3>2, <3>3 DEF TypeOK, SessionsTyped
  <2>4. ASSUME ~(Rotatable(t) /\ Exists(req[r].user)) PROVE SessionsTyped'
    BY <2>2, <2>4, SessionsFrame
  <2>5. SessionsTyped'
    BY <2>3, <2>4
  <2> QED
    BY <1>6, <2>5, UsersFrame, LeaveTyped, TypePartsNext DEF RefreshCommit
<1>7. ASSUME NEW t \in Token, EndSession(r, t) PROVE TypeOK'
  BY <1>7, UsersFrame, DropSessionsTyped, RequestsFrame, TypePartsNext DEF EndSession
<1>8. CASE RevokeWrite(r)
  BY <1>8, UsersFrame, DropSessionsTyped, LeaveTyped, TypePartsNext DEF RevokeWrite
<1>9. CASE ChangePasswordWrite(r)
  <2>1. /\ req[r].user \in User
        /\ [user[req[r].user] EXCEPT !.password = TRUE] \in UserRecord
    BY <1>9, HasUser DEF ChangePasswordWrite, At, UserRecord
  <2> QED
    BY <1>9, <2>1, UpdateTyped, SessionsFrame, DropSessionsTyped, LeaveTyped, TypePartsNext
    DEF ChangePasswordWrite
<1> QED
  BY <1>1, <1>2, <1>3, <1>4, <1>5, <1>6, <1>7, <1>8, <1>9 DEF SessionStep

LEMMA EnvironmentType ==
    ASSUME TypeOK, Environment
    PROVE  TypeOK'
<1>1. ASSUME NEW u \in User, CodeExpires(u) \/ Author(u) PROVE UsersTyped'
  <2>2. \/ user' = [user EXCEPT ![u] = [user[u] EXCEPT !.code = FALSE]]
        \/ user' = [user EXCEPT ![u] = [user[u] EXCEPT !.authored = TRUE]]
    BY <1>1, Zenon DEF CodeExpires, Author
  <2> QED
    BY <2>2, FlagsTyped, RowTyped
<1> QED
  BY <1>1, SessionsFrame, RequestsFrame, TypePartsNext DEF Environment, CodeExpires, Author

LEMMA CallFailsType ==
    ASSUME TypeOK, NEW r \in Request, CallFails(r)
    PROVE  TypeOK'
BY UsersFrame, SessionsFrame, LeaveTyped, TypePartsNext DEF CallFails

LEMMA TypeInit == Init => TypeOK
BY NoUserTyped DEF Init, TypeOK, NoSession, SessionRecord, Idle, RequestRecord, PC, At

LEMMA TypeInductive == TypeOK /\ [Next]_vars => TypeOK'
<1> SUFFICES ASSUME TypeOK, [Next]_vars PROVE TypeOK'
  OBVIOUS
<1>1. CASE UNCHANGED vars
  BY <1>1, UsersFrame, SessionsFrame, RequestsFrame, TypePartsNext DEF vars
<1> QED
  BY <1>1, LifecycleStepType, AccountStepType, SessionStepType, EnvironmentType, CallFailsType
  DEF Next

(* Rows, tokens and requests keep the shape the handlers rely on: a token  *)
(* in use has a user and a login, a request past its first await the ids   *)
(* it read.                                                                *)
THEOREM TypeCorrect == Spec => []TypeOK
BY TypeInit, TypeInductive, PTL DEF Spec

-----------------------------------------------------------------------------
(* The inductive invariant.  OneTokenPerLogin needs that a login is never  *)
(* the id of an unused row; OnlyVerified, that a row of a session has a    *)
(* verified user, and that a request on its way to creating a session or a *)
(* link read its user verified: users are never verified less, and a row   *)
(* id is used once.                                                        *)
Started(t) == session[t].state # "UNUSED" => session[session[t].login].state # "UNUSED"

OwnedByVerified(t) == TokenRow(t) => SignedIn(session[t].user)

LinksVerified(u) == Exists(u) /\ user[u].links # {} => user[u].verified

Claims(r) == req[r].pc \in {"session", "link", "rotate"}

ClaimHolds(r) ==
    LET u == req[r].user
    IN  Claims(r) => user[u].row # "UNUSED" /\ (Exists(u) => user[u].verified)

AccountInv ==
    /\ \A t \in Token : Started(t) /\ OwnedByVerified(t)
    /\ OneTokenPerLogin
    /\ \A u \in User : LinksVerified(u)
    /\ \A r \in Request : ClaimHolds(r)

(* What every step but the two that insert a session does.                 *)
UserKept(u) ==
    /\ user'[u].row = user[u].row
    /\ user[u].verified => user'[u].verified
    /\ user'[u].links \subseteq user[u].links \/ user[u].verified

UserMade(u) == user[u].row = "UNUSED" /\ user'[u].row = "LIVE" /\ user'[u].links = {}

UserDropped(u) ==
    /\ user'[u].row = "GONE"
    /\ \A t \in Token : session'[t].state = "LIVE" => session'[t].user # u

UsersStep == \A u \in User : UserKept(u) \/ UserMade(u) \/ UserDropped(u)

SessionsShrink ==
    \A t \in Token : session'[t] = session[t] \/ (TokenRow(t) /\ session'[t] = EndOf(t))

NoNewClaims ==
    \A r \in Request :
        Claims(r)' => \/ Claims(r) /\ req'[r].user = req[r].user
                      \/ user'[req'[r].user].row = "LIVE" /\ user'[req'[r].user].verified

Quiet == UsersStep /\ SessionsShrink /\ NoNewClaims

LEMMA QuietUsersFrame == ASSUME UNCHANGED user PROVE UsersStep
BY DEF UsersStep, UserKept

LEMMA QuietSessionsFrame == ASSUME UNCHANGED session PROVE SessionsShrink
BY DEF SessionsShrink

LEMMA QuietDrop == ASSUME NEW S, DropSessions(S) PROVE SessionsShrink
BY DEF DropSessions, SessionsShrink

LEMMA QuietDropUser ==
    ASSUME TypeOK, NEW u \in User, DropUser(u)
    PROVE  UsersStep /\ SessionsShrink
<1>1. SessionsShrink
  BY QuietDrop DEF DropUser
<1>2. UserDropped(u)
  <2>1. user'[u].row = "GONE"
    BY DEF DropUser, TypeOK, NoUser
  <2>2. ASSUME NEW t \in Token, session'[t].state = "LIVE" PROVE session'[t].user # u
    BY <2>2, EndTyped DEF DropUser, DropSessions, SessionsOf, TokenRow
  <2> QED
    BY <2>1, <2>2 DEF UserDropped
<1>3. ASSUME NEW v \in User, v # u PROVE UserKept(v)
  BY <1>3 DEF DropUser, TypeOK, UserKept
<1> QED
  BY <1>1, <1>2, <1>3 DEF UsersStep

LEMMA QuietRequest ==
    ASSUME TypeOK, NEW r \in Request, NEW rec, req' = [req EXCEPT ![r] = rec],
           rec.pc \in {"session", "link", "rotate"} =>
               \/ Claims(r) /\ rec.user = req[r].user
               \/ user'[rec.user].row = "LIVE" /\ user'[rec.user].verified
    PROVE  NoNewClaims
BY DEF TypeOK, NoNewClaims, Claims

LEMMA QuietRequestsFrame == ASSUME UNCHANGED req PROVE NoNewClaims
BY DEF NoNewClaims, Claims

LEMMA QuietLeave == ASSUME TypeOK, NEW r \in Request, Leave(r) PROVE NoNewClaims
BY QuietRequest DEF Leave, Idle

LEMMA QuietEnter ==
    ASSUME TypeOK, NEW r \in Request, NEW u, NEW pc, Enter(r, pc, u),
           pc \notin {"session", "link", "rotate"}
    PROVE  NoNewClaims
BY QuietRequest DEF Enter, Idle

LEMMA LifecycleStepQuiet ==
    ASSUME TypeOK, NEW r \in Request, LifecycleStep(r)
    PROVE  Quiet
<1>1. CASE RegisterRead(r)
  BY <1>1, QuietUsersFrame, QuietSessionsFrame, QuietEnter DEF RegisterRead, Quiet
<1>2. CASE RegisterDrop(r)
  <2>1. req[r].user \in User
    BY <1>2, HasUser DEF RegisterDrop, At
  <2> QED
    BY <1>2, <2>1, QuietUsersFrame, QuietSessionsFrame, QuietDropUser, QuietEnter, QuietLeave
    DEF RegisterDrop, Quiet
<1>3. ASSUME NEW u \in User, RegisterCreate(r, u) PROVE Quiet
  <2>1. UsersStep
    BY <1>3 DEF RegisterCreate, TypeOK, UsersStep, UserKept, UserMade, NoUser
  <2> QED
    BY <1>3, <2>1, QuietSessionsFrame, QuietEnter, QuietLeave DEF RegisterCreate, Quiet
<1>4. ASSUME NEW u \in User, VerifyRead(r, u) PROVE Quiet
  BY <1>4, QuietUsersFrame, QuietSessionsFrame, QuietEnter DEF VerifyRead, Quiet
<1>5. ASSUME NEW u \in User, CancelDeletion(r, u) PROVE Quiet
  <2>1. UsersStep
    BY <1>5 DEF CancelDeletion, TypeOK, UserRecord, UsersStep, UserKept
  <2> QED
    BY <1>5, <2>1, QuietSessionsFrame, QuietRequestsFrame DEF CancelDeletion, Quiet
<1>6. ASSUME NEW u \in User, HardDeleteRead(r, u) PROVE Quiet
  BY <1>6, QuietUsersFrame, QuietSessionsFrame, QuietEnter DEF HardDeleteRead, Quiet
<1>7. ASSUME NEW u \in User, NEW p \in Provider, UnlinkRead(r, u, p) PROVE Quiet
  <2>1. NoNewClaims
    BY <1>7, QuietRequest DEF UnlinkRead, Idle
  <2> QED
    BY <1>7, <2>1, QuietUsersFrame, QuietSessionsFrame DEF UnlinkRead, Quiet
<1>8. CASE VerifyWrite(r)
  <2>1. UsersStep
    BY <1>8, HasUser DEF VerifyWrite, At, UpdateUser, TypeOK, UserRecord, UsersStep, UserKept
  <2> QED
    BY <1>8, <2>1, QuietSessionsFrame, QuietLeave DEF VerifyWrite, Quiet
<1>9. CASE UnlinkWrite(r)
  <2>1. UsersStep
    BY <1>9, HasUser DEF UnlinkWrite, At, UpdateUser, TypeOK, UserRecord, UsersStep, UserKept
  <2> QED
    BY <1>9, <2>1, QuietSessionsFrame, QuietLeave DEF UnlinkWrite, Quiet
<1>10. CASE HardDelete(r)
  <2>1. req[r].user \in User
    BY <1>10, HasUser DEF HardDelete, At
  <2> QED
    BY <1>10, <2>1, QuietUsersFrame, QuietSessionsFrame, QuietDropUser, QuietLeave
    DEF HardDelete, Quiet
<1> QED
  BY <1>1, <1>2, <1>3, <1>4, <1>5, <1>6, <1>7, <1>8, <1>9, <1>10 DEF LifecycleStep

LEMMA AccountStepQuiet ==
    ASSUME TypeOK, AccountInv, NEW r \in Request, AccountStep(r)
    PROVE  Quiet
<1>1. ASSUME NEW u \in User, ForgotRead(r, u) PROVE Quiet
  BY <1>1, QuietUsersFrame, QuietSessionsFrame, QuietEnter DEF ForgotRead, Quiet
<1>2. ASSUME NEW u \in User, ResetRead(r, u) PROVE Quiet
  BY <1>2, QuietUsersFrame, QuietSessionsFrame, QuietEnter DEF ResetRead, Quiet
<1>3. ASSUME NEW u \in User, Activate(r, u) PROVE Quiet
  <2>1. UsersStep
    BY <1>3 DEF Activate, TypeOK, UserRecord, UsersStep, UserKept
  <2> QED
    BY <1>3, <2>1, QuietSessionsFrame, QuietRequestsFrame DEF Activate, Quiet
<1>4. ASSUME NEW u \in User, Deactivate(r, u) PROVE Quiet
  <2>1. UsersStep
    BY <1>4 DEF Deactivate, TypeOK, UserRecord, UsersStep, UserKept
  <2> QED
    BY <1>4, <2>1, QuietSessionsFrame, QuietEnter DEF Deactivate, Quiet
<1>5. ASSUME NEW u \in User, RemoveUser(r, u) PROVE Quiet
  BY <1>5, QuietDropUser, QuietRequestsFrame DEF RemoveUser, Quiet
<1>6. ASSUME NEW u \in User, RequestDeletion(r, u) PROVE Quiet
  <2>1. UsersStep
    BY <1>6 DEF RequestDeletion, TypeOK, UserRecord, UsersStep, UserKept
  <2> QED
    BY <1>6, <2>1, QuietSessionsFrame, QuietRequestsFrame DEF RequestDeletion, Quiet
<1>7. ASSUME NEW u \in User, OAuthCreate(r, u) PROVE Quiet
  <2>1. UsersStep
    BY <1>7 DEF OAuthCreate, TypeOK, UsersStep, UserKept, UserMade, NoUser
  <2>2. NoNewClaims
    <3>1. CASE Leave(r)
      BY <3>1, QuietLeave
    <3>2. CASE ~Leave(r)
      <4>1. /\ user' = [user EXCEPT ![u] = [NoUser("LIVE") EXCEPT !.verified = TRUE]]
            /\ req' = [req EXCEPT ![r].pc = "link", ![r].user = u]
        BY <1>7, <3>2 DEF OAuthCreate
      <4>2. user'[u].row = "LIVE" /\ user'[u].verified
        BY <4>1 DEF TypeOK, NoUser
      <4>3. req' = [req EXCEPT ![r] = [req[r] EXCEPT !.pc = "link", !.user = u]]
        BY <4>1 DEF TypeOK
      <4>4. [req[r] EXCEPT !.pc = "link", !.user = u].user = u
        BY DEF TypeOK, RequestRecord
      <4> QED
        BY <4>2, <4>3, <4>4, QuietRequest
    <3> QED
      BY <3>1, <3>2
  <2> QED
    BY <1>7, <2>1, <2>2, QuietSessionsFrame DEF OAuthCreate, Quiet
<1>8. ASSUME NEW p \in Provider, OAuthRead(r, p) PROVE Quiet
  <2>1. NoNewClaims
    <3>1. CASE req' = [req EXCEPT ![r] = [Idle EXCEPT !.pc = "createOAuth", !.provider = p]]
      BY <3>1, QuietRequest DEF Idle
    <3>2. ASSUME NEW u \in User, Exists(u), Linkable(u),
                 req' = [req EXCEPT ![r] = [Idle EXCEPT !.pc = "link", !.user = u, !.provider = p]]
          PROVE  NoNewClaims
      <4>1. user'[u].row = "LIVE" /\ user'[u].verified
        BY <1>8, <3>2 DEF OAuthRead, Exists, Linkable
      <4> QED
        BY <3>2, <4>1, QuietRequest DEF Idle
    <3> QED
      BY <1>8, <3>1, <3>2 DEF OAuthRead
  <2> QED
    BY <1>8, <2>1, QuietUsersFrame, QuietSessionsFrame DEF OAuthRead, Quiet
<1>9. CASE CreateCode(r)
  <2>1. UsersStep
    BY <1>9, HasUser DEF CreateCode, At, UpdateUser, TypeOK, UserRecord, UsersStep, UserKept
  <2> QED
    BY <1>9, <2>1, QuietSessionsFrame, QuietLeave DEF CreateCode, Quiet
<1>10. CASE ForgotDelete(r)
  <2>1. UsersStep
    BY <1>10, HasUser DEF ForgotDelete, At, UpdateUser, TypeOK, UserRecord, UsersStep, UserKept
  <2>2. [req[r] EXCEPT !.pc = "code"].pc = "code"
    BY DEF TypeOK, RequestRecord
  <2>3. NoNewClaims
    BY <1>10, <2>2, QuietRequest DEF ForgotDelete, GoTo, TypeOK
  <2> QED
    BY <1>10, <2>1, <2>3, QuietSessionsFrame DEF ForgotDelete, Quiet
<1>11. CASE ResetWrite(r)
  <2>1. UsersStep
    BY <1>11, HasUser DEF ResetWrite, At, UpdateUser, TypeOK, UserRecord, UsersStep, UserKept
  <2> QED
    BY <1>11, <2>1, QuietSessionsFrame, QuietLeave DEF ResetWrite, Quiet
<1>12. CASE OAuthLink(r)
  <2>1. Claims(r) /\ (Exists(req[r].user) => user[req[r].user].verified)
    BY <1>12 DEF OAuthLink, At, Claims, AccountInv, ClaimHolds
  <2>2. UsersStep
    BY <1>12, <2>1, HasUser
    DEF OAuthLink, At, UpdateUser, TypeOK, UserRecord, UsersStep, UserKept
  <2>3. [req[r] EXCEPT !.pc = "session"].user = req[r].user
    BY DEF TypeOK, RequestRecord
  <2>4. NoNewClaims
    BY <1>12, <2>1, <2>3, QuietRequest DEF OAuthLink, GoTo, TypeOK
  <2> QED
    BY <1>12, <2>2, <2>4, QuietSessionsFrame DEF OAuthLink, Quiet
<1>13. CASE DeactivateWipe(r)
  <2>1. NoNewClaims
    BY <1>13, QuietRequest DEF DeactivateWipe, Idle
  <2> QED
    BY <1>13, <2>1, QuietUsersFrame, QuietSessionsFrame DEF DeactivateWipe, Quiet
<1> QED
  BY <1>1, <1>2, <1>3, <1>4, <1>5, <1>6, <1>7, <1>8, <1>9, <1>10, <1>11, <1>12, <1>13
  DEF AccountStep

LEMMA SessionStepQuiet ==
    ASSUME TypeOK, AccountInv, NEW r \in Request, SessionStep(r)
    PROVE  Quiet \/ \E t \in Token : CreateSession(r, t) \/ RefreshCommit(r, t)
<1>1. ASSUME NEW u \in User, Login(r, u) PROVE Quiet
  <2>1. user'[u].row = "LIVE" /\ user'[u].verified
    BY <1>1 DEF Login, Exists
  <2>2. NoNewClaims
    BY <1>1, <2>1, QuietRequest DEF Login, Enter, Idle
  <2> QED
    BY <1>1, <2>2, QuietUsersFrame, QuietSessionsFrame DEF Login, Quiet
<1>2. ASSUME NEW u \in User, ChangePasswordRead(r, u) PROVE Quiet
  <2>1. NoNewClaims
    BY <1>2, QuietRequest DEF ChangePasswordRead, Idle
  <2> QED
    BY <1>2, <2>1, QuietUsersFrame, QuietSessionsFrame DEF ChangePasswordRead, Quiet
<1>3. ASSUME NEW u \in User, NEW keep, RevokeRead(r, u, keep) PROVE Quiet
  <2>1. NoNewClaims
    BY <1>3, QuietRequest DEF RevokeRead, Idle
  <2> QED
    BY <1>3, <2>1, QuietUsersFrame, QuietSessionsFrame DEF RevokeRead, Quiet
<1>4. ASSUME NEW t \in Token, RefreshRead(r, t) PROVE Quiet
  <2>1. SignedIn(session[t].user)
    BY <1>4 DEF RefreshRead, AccountInv, OwnedByVerified
  <2>2. user'[session[t].user].row = "LIVE" /\ user'[session[t].user].verified
    BY <1>4, <2>1 DEF RefreshRead, SignedIn, Exists
  <2>3. NoNewClaims
    BY <1>4, <2>2, QuietRequest DEF RefreshRead, Idle
  <2> QED
    BY <1>4, <2>3, QuietUsersFrame, QuietSessionsFrame DEF RefreshRead, Quiet
<1>5. ASSUME NEW t \in Token, EndSession(r, t) PROVE Quiet
  BY <1>5, QuietUsersFrame, QuietDrop, QuietRequestsFrame DEF EndSession, Quiet
<1>6. CASE RevokeWrite(r)
  BY <1>6, QuietUsersFrame, QuietDrop, QuietLeave DEF RevokeWrite, Quiet
<1>7. CASE ChangePasswordWrite(r)
  <2>1. UsersStep
    BY <1>7, HasUser DEF ChangePasswordWrite, At, UpdateUser, TypeOK, UserRecord, UsersStep, UserKept
  <2> QED
    BY <1>7, <2>1, QuietSessionsFrame, QuietDrop, QuietLeave DEF ChangePasswordWrite, Quiet
<1> QED
  BY <1>1, <1>2, <1>3, <1>4, <1>5, <1>6, <1>7 DEF SessionStep

LEMMA EnvironmentQuiet == ASSUME TypeOK, Environment PROVE Quiet
<1>1. UsersStep
  BY DEF Environment, CodeExpires, Author, TypeOK, UserRecord, UsersStep, UserKept
<1> QED
  BY <1>1, QuietSessionsFrame, QuietRequestsFrame DEF Environment, CodeExpires, Author, Quiet

(* Every step is quiet, or inserts one session.                            *)
LEMMA Steps ==
    ASSUME TypeOK, AccountInv, [Next]_vars
    PROVE  \/ Quiet
           \/ \E r \in Request, t \in Token : CreateSession(r, t) \/ RefreshCommit(r, t)
<1>1. CASE UNCHANGED vars
  BY <1>1, QuietUsersFrame, QuietSessionsFrame, QuietRequestsFrame DEF vars, Quiet
<1>2. ASSUME NEW r \in Request, CallFails(r) PROVE Quiet
  BY <1>2, QuietUsersFrame, QuietSessionsFrame, QuietLeave DEF CallFails, Quiet
<1> QED
  BY <1>1, <1>2, LifecycleStepQuiet, AccountStepQuiet, SessionStepQuiet, EnvironmentQuiet DEF Next

LEMMA QuietKeepsInv ==
    ASSUME TypeOK, TypeOK', AccountInv, Quiet
    PROVE  AccountInv'
<1>1. ASSUME NEW t \in Token PROVE session'[t].state # "UNUSED" <=> session[t].state # "UNUSED"
  BY EndTyped DEF Quiet, SessionsShrink, TokenRow
<1>2. ASSUME NEW t \in Token, session[t].state # "UNUSED" PROVE session'[t].login = session[t].login
  BY <1>2, EndTyped DEF Quiet, SessionsShrink, TokenRow
<1>3. ASSUME NEW t \in Token, session'[t].state = "LIVE" PROVE session'[t] = session[t]
  BY <1>3, EndTyped DEF Quiet, SessionsShrink
<1>4. ASSUME NEW t \in Token PROVE Started(t)'
  BY <1>1, <1>2 DEF AccountInv, Started, TypeOK
<1>5. ASSUME NEW t \in Token PROVE OwnedByVerified(t)'
  <2> SUFFICES ASSUME session'[t].state = "LIVE"
               PROVE  user'[session[t].user].row = "LIVE" /\ user'[session[t].user].verified
    BY <1>3 DEF OwnedByVerified, TokenRow, SignedIn, Exists
  <2>1. session[t].user \in User /\ user[session[t].user].row = "LIVE" /\ user[session[t].user].verified
    BY <1>3 DEF AccountInv, OwnedByVerified, TokenRow, SignedIn, Exists, TypeOK
  <2>2. UserKept(session[t].user)
    BY <1>3, <2>1 DEF Quiet, UsersStep, UserMade, UserDropped
  <2> QED
    BY <2>1, <2>2 DEF UserKept
<1>6. OneTokenPerLogin'
  BY <1>3 DEF AccountInv, OneTokenPerLogin, TokenRow
<1>7. ASSUME NEW u \in User PROVE LinksVerified(u)'
  <2>1. UserKept(u) \/ UserMade(u) \/ UserDropped(u)
    BY DEF Quiet, UsersStep
  <2> QED
    BY <2>1 DEF AccountInv, LinksVerified, Exists, UserKept, UserMade, UserDropped
<1>8. ASSUME NEW r \in Request PROVE ClaimHolds(r)'
  <2> DEFINE u == req'[r].user
  <2> SUFFICES ASSUME Claims(r)'
               PROVE  user'[u].row # "UNUSED" /\ (user'[u].row = "LIVE" => user'[u].verified)
    BY DEF ClaimHolds, Exists
  <2>1. u \in User
    BY DEF TypeOK, Claims, PC
  <2>2. ASSUME Claims(r), u = req[r].user
        PROVE  user'[u].row # "UNUSED" /\ (user'[u].row = "LIVE" => user'[u].verified)
    <3>1. user[u].row # "UNUSED" /\ (user[u].row = "LIVE" => user[u].verified)
      BY <2>2 DEF AccountInv, ClaimHolds, Exists
    <3>2. UserKept(u) \/ UserDropped(u)
      BY <2>1, <3>1 DEF Quiet, UsersStep, UserMade
    <3> QED
      BY <3>1, <3>2 DEF UserKept, UserDropped
  <2> QED
    BY <2>2 DEF Quiet, NoNewClaims
<1> QED
  BY <1>4, <1>5, <1>6, <1>7, <1>8 DEF AccountInv

(* The two steps that insert a session, by what they do to the rows.       *)
LEMMA CreateSessionRows ==
    ASSUME TypeOK, AccountInv, NEW r \in Request, NEW t \in Token, CreateSession(r, t)
    PROVE  \/ UNCHANGED session
           \/ /\ session[t].state = "UNUSED"
              /\ session' = [session EXCEPT ![t] =
                                [state |-> "LIVE", user |-> req[r].user, login |-> t]]
              /\ SignedIn(req[r].user)
<1>1. Exists(req[r].user) => user[req[r].user].verified
  BY DEF CreateSession, At, AccountInv, ClaimHolds, Claims
<1> QED
  BY <1>1 DEF CreateSession, SignedIn

Rotation(t, n, u) ==
    /\ t # n /\ session[t].state = "LIVE" /\ session[n].state = "UNUSED"
    /\ session'[t].state = "GONE" /\ session'[t].login = session[t].login
    /\ session'[n].state = "LIVE" /\ session'[n].user = u
    /\ session'[n].login = session[t].login
    /\ \A m \in Token : m # t /\ m # n => session'[m] = session[m]

LEMMA RefreshCommitRows ==
    ASSUME TypeOK, AccountInv, NEW r \in Request, NEW n \in Token, RefreshCommit(r, n)
    PROVE  \/ UNCHANGED session
           \/ \E t \in Token : Rotation(t, n, req[r].user) /\ SignedIn(req[r].user)
<1>1. Exists(req[r].user) => user[req[r].user].verified
  BY DEF RefreshCommit, At, AccountInv, ClaimHolds, Claims
<1>2. req[r].rows \subseteq Token
  BY DEF TypeOK, RequestRecord
<1>3. PICK t \in Token : session' = IF Rotatable(t) /\ Exists(req[r].user)
                                    THEN [session EXCEPT ![t] = EndOf(t), ![n] = Rotated(r, t)]
                                    ELSE session
  BY <1>2 DEF RefreshCommit
<1>4. session[n].state = "UNUSED"
  BY DEF RefreshCommit
<1>5. ASSUME Rotatable(t), Exists(req[r].user) PROVE Rotation(t, n, req[r].user)
  <2>1. session[t].state = "LIVE" /\ t # n
    BY <1>4, <1>5 DEF Rotatable, TokenRow
  <2>2. EndOf(t).state = "GONE" /\ EndOf(t).login = session[t].login
    BY <1>5, EndTyped DEF Rotatable
  <2>3. /\ session'[t] = EndOf(t)
        /\ session'[n] = Rotated(r, t)
        /\ \A m \in Token : m # t /\ m # n => session'[m] = session[m]
    BY <1>3, <1>5, <2>1 DEF TypeOK
  <2> QED
    BY <1>4, <2>1, <2>2, <2>3 DEF Rotation, Rotated
<1> QED
  BY <1>1, <1>3, <1>5 DEF SignedIn

LEMMA CreateSessionKeepsInv ==
    ASSUME TypeOK, AccountInv, NEW r \in Request, NEW t \in Token, CreateSession(r, t)
    PROVE  AccountInv'
<1>0. UNCHANGED user
  BY DEF CreateSession
<1>1. ASSUME NEW q \in Request PROVE ClaimHolds(q)'
  <2>1. NoNewClaims
    BY QuietLeave DEF CreateSession
  <2> QED
    BY <1>0, <2>1 DEF AccountInv, ClaimHolds, NoNewClaims, Claims, Exists
<1>2. ASSUME NEW u \in User PROVE LinksVerified(u)'
  BY <1>0 DEF AccountInv, LinksVerified, Exists
<1>3. CASE UNCHANGED session
  BY <1>0, <1>1, <1>2, <1>3
  DEF AccountInv, Started, OwnedByVerified, OneTokenPerLogin, TokenRow, SignedIn, Exists
<1>4. ASSUME session[t].state = "UNUSED", SignedIn(req[r].user),
             session' = [session EXCEPT ![t] =
                           [state |-> "LIVE", user |-> req[r].user, login |-> t]]
      PROVE  AccountInv'
  <2>1. ASSUME NEW n \in Token PROVE Started(n)'
    BY <1>4 DEF AccountInv, Started, TypeOK
  <2>2. ASSUME NEW n \in Token PROVE OwnedByVerified(n)'
    BY <1>0, <1>4 DEF AccountInv, OwnedByVerified, TokenRow, SignedIn, Exists, TypeOK
  <2>3. ASSUME NEW n \in Token, session[n].state = "LIVE" PROVE session[n].login # t
    BY <1>4, <2>3 DEF AccountInv, Started
  <2>4. OneTokenPerLogin'
    BY <1>4, <2>3 DEF AccountInv, OneTokenPerLogin, TokenRow, TypeOK
  <2> QED
    BY <1>1, <1>2, <2>1, <2>2, <2>4 DEF AccountInv
<1> QED
  BY <1>3, <1>4, CreateSessionRows

LEMMA RefreshCommitKeepsInv ==
    ASSUME TypeOK, AccountInv, NEW r \in Request, NEW n \in Token, RefreshCommit(r, n)
    PROVE  AccountInv'
<1>0. UNCHANGED user
  BY DEF RefreshCommit
<1>1. ASSUME NEW q \in Request PROVE ClaimHolds(q)'
  <2>1. NoNewClaims
    BY QuietLeave DEF RefreshCommit
  <2> QED
    BY <1>0, <2>1 DEF AccountInv, ClaimHolds, NoNewClaims, Claims, Exists
<1>2. ASSUME NEW u \in User PROVE LinksVerified(u)'
  BY <1>0 DEF AccountInv, LinksVerified, Exists
<1>3. CASE UNCHANGED session
  BY <1>0, <1>1, <1>2, <1>3
  DEF AccountInv, Started, OwnedByVerified, OneTokenPerLogin, TokenRow, SignedIn, Exists
<1>4. ASSUME NEW t \in Token, Rotation(t, n, req[r].user), SignedIn(req[r].user)
      PROVE  AccountInv'
  <2>1. ASSUME NEW x \in Token, session[x].state # "UNUSED" PROVE session'[x].state # "UNUSED"
    BY <1>4, <2>1 DEF Rotation
  <2>2. ASSUME NEW x \in Token, session[x].state # "UNUSED"
        PROVE  session'[session[x].login].state # "UNUSED"
    BY <2>1, <2>2 DEF AccountInv, Started, TypeOK
  <2>3. ASSUME NEW m \in Token PROVE Started(m)'
    <3>1. session'[m].state # "UNUSED" =>
             \/ session'[m].login = session[t].login
             \/ session[m].state # "UNUSED" /\ session'[m].login = session[m].login
      BY <1>4 DEF Rotation
    <3> QED
      BY <1>4, <2>2, <3>1 DEF Started, Rotation
  <2>4. ASSUME NEW m \in Token PROVE OwnedByVerified(m)'
    BY <1>0, <1>4 DEF AccountInv, OwnedByVerified, TokenRow, SignedIn, Exists, Rotation
  <2>5. OneTokenPerLogin'
    BY <1>4 DEF AccountInv, OneTokenPerLogin, TokenRow, Rotation
  <2> QED
    BY <1>1, <1>2, <2>3, <2>4, <2>5 DEF AccountInv
<1> QED
  BY <1>3, <1>4, RefreshCommitRows

THEOREM AccountInvariant == Spec => []AccountInv
<1>1. Init => AccountInv
  BY DEF Init, NoUser, NoSession, Idle, AccountInv, Started, OwnedByVerified, LinksVerified,
         OneTokenPerLogin, ClaimHolds, Claims, TokenRow
<1>2. TypeOK /\ TypeOK' /\ AccountInv /\ [Next]_vars => AccountInv'
  BY Steps, QuietKeepsInv, CreateSessionKeepsInv, RefreshCommitKeepsInv
<1> QED
  BY <1>1, <1>2, TypeCorrect, PTL DEF Spec

(* However many requests refresh one token at once, one new token is left. *)
THEOREM TokensPerLogin == Spec => []OneTokenPerLogin
<1>1. AccountInv => OneTokenPerLogin
  BY DEF AccountInv
<1> QED
  BY <1>1, AccountInvariant, PTL

(* No session and no provider link for an account that is not verified, in *)
(* any interleaving of registrations, verifications and sign-ins.          *)
THEOREM VerifiedOnly == Spec => []OnlyVerified
<1>1. AccountInv => OnlyVerified
  BY DEF AccountInv, OnlyVerified, LinksVerified, OwnedByVerified, SessionsOf, SignedIn
<1> QED
  BY <1>1, AccountInvariant, PTL

-----------------------------------------------------------------------------
(* The refinement of LoginSessions.                                        *)

LEMMA QuietCloses ==
    ASSUME TypeOK, TypeOK', Quiet
    PROVE  SeenLogins' = SeenLogins /\ OpenLogins' \subseteq OpenLogins
<1>1. ASSUME NEW t \in Token
      PROVE  /\ session'[t].state # "UNUSED" <=> session[t].state # "UNUSED"
             /\ session'[t].state = "LIVE" => session[t].state = "LIVE"
             /\ session[t].state # "UNUSED" => session'[t].login = session[t].login
  BY EndTyped DEF Quiet, SessionsShrink, TokenRow
<1>2. SeenLogins' = SeenLogins
  BY <1>1 DEF SeenLogins
<1>3. OpenLogins' \subseteq OpenLogins
  BY <1>1 DEF OpenLogins, TokenRow
<1> QED
  BY <1>2, <1>3

LEMMA LoginsMembers ==
    ASSUME NEW x
    PROVE  /\ x \in OpenLogins <=>
                  \E t \in Token : session[t].state = "LIVE" /\ session[t].login = x
           /\ x \in OpenLogins' <=>
                  \E t \in Token : session'[t].state = "LIVE" /\ session'[t].login = x
           /\ x \in SeenLogins <=>
                  \E t \in Token : session[t].state # "UNUSED" /\ session[t].login = x
           /\ x \in SeenLogins' <=>
                  \E t \in Token : session'[t].state # "UNUSED" /\ session'[t].login = x
BY DEF OpenLogins, SeenLogins, TokenRow

LEMMA OpenSeen == OpenLogins \subseteq SeenLogins
BY DEF OpenLogins, SeenLogins, TokenRow

LEMMA CreateSessionOpens ==
    ASSUME TypeOK, AccountInv, NEW r \in Request, NEW t \in Token, CreateSession(r, t)
    PROVE  \/ UNCHANGED <<OpenLogins, SeenLogins>>
           \/ /\ t \notin SeenLogins
              /\ OpenLogins' = OpenLogins \cup {t}
              /\ SeenLogins' = SeenLogins \cup {t}
<1>1. CASE UNCHANGED session
  BY <1>1 DEF OpenLogins, SeenLogins, TokenRow
<1>2. ASSUME session[t].state = "UNUSED",
             session' = [session EXCEPT ![t] =
                           [state |-> "LIVE", user |-> req[r].user, login |-> t]]
      PROVE  /\ t \notin SeenLogins
             /\ OpenLogins' = OpenLogins \cup {t}
             /\ SeenLogins' = SeenLogins \cup {t}
  <2>1. ASSUME NEW m \in Token
        PROVE  session'[m] = IF m = t THEN [state |-> "LIVE", user |-> req[r].user, login |-> t]
                             ELSE session[m]
    BY <1>2 DEF TypeOK
  <2>2. t \notin SeenLogins
    BY <1>2 DEF SeenLogins, AccountInv, Started
  <2>3. OpenLogins' = OpenLogins \cup {t}
    BY <1>2, <2>1 DEF OpenLogins, TokenRow
  <2>4. SeenLogins' = SeenLogins \cup {t}
    BY <1>2, <2>1 DEF SeenLogins
  <2> QED
    BY <2>2, <2>3, <2>4
<1> QED
  BY <1>1, <1>2, CreateSessionRows

LEMMA RefreshCommitStutters ==
    ASSUME TypeOK, AccountInv, NEW r \in Request, NEW n \in Token, RefreshCommit(r, n)
    PROVE  UNCHANGED <<OpenLogins, SeenLogins>>
<1>1. CASE UNCHANGED session
  BY <1>1 DEF OpenLogins, SeenLogins, TokenRow
<1>2. ASSUME NEW t \in Token, Rotation(t, n, req[r].user)
      PROVE  UNCHANGED <<OpenLogins, SeenLogins>>
  <2>1. ASSUME NEW x PROVE x \in OpenLogins' <=> x \in OpenLogins
    BY <1>2, LoginsMembers DEF Rotation
  <2>2. ASSUME NEW x PROVE x \in SeenLogins' <=> x \in SeenLogins
    BY <1>2, LoginsMembers DEF Rotation
  <2> QED
    BY <2>1, <2>2
<1> QED
  BY <1>1, <1>2, RefreshCommitRows

(* Every login is a session of LoginSessions: rotation stutters, a login   *)
(* opens one, every other handler only closes some.                        *)
THEOREM SessionsImplemented == Spec => SessionsPromised
<1>1. Init => Sessions!Init
  BY DEF Init, NoSession, Sessions!Init, OpenLogins, SeenLogins, TokenRow
<1>2. TypeOK /\ TypeOK' /\ AccountInv /\ [Next]_vars
          => [Sessions!Next]_<<OpenLogins, SeenLogins \ OpenLogins>>
  <2> SUFFICES ASSUME TypeOK, TypeOK', AccountInv, [Next]_vars
               PROVE  [Sessions!Next]_<<OpenLogins, SeenLogins \ OpenLogins>>
    OBVIOUS
  <2>1. CASE Quiet
    <3> DEFINE S == OpenLogins \ OpenLogins'
    <3>1. SeenLogins' = SeenLogins /\ OpenLogins' \subseteq OpenLogins
      BY <2>1, QuietCloses
    <3>2. CASE S = {}
      BY <3>1, <3>2
    <3>3. CASE S # {}
      <4>1. Sessions!Close(S)
        BY <3>1, <3>3, OpenSeen DEF Sessions!Close
      <4> QED
        BY <4>1 DEF Sessions!Next
    <3> QED
      BY <3>2, <3>3
  <2>2. ASSUME NEW r \in Request, NEW t \in Token, CreateSession(r, t)
        PROVE  [Sessions!Next]_<<OpenLogins, SeenLogins \ OpenLogins>>
    <3>1. CASE UNCHANGED <<OpenLogins, SeenLogins>>
      BY <3>1
    <3>2. ASSUME t \notin SeenLogins, OpenLogins' = OpenLogins \cup {t},
                 SeenLogins' = SeenLogins \cup {t}
          PROVE  Sessions!Open(t)
      BY <3>2, OpenSeen DEF Sessions!Open
    <3> QED
      BY <2>2, <3>1, <3>2, CreateSessionOpens DEF Sessions!Next
  <2>3. ASSUME NEW r \in Request, NEW t \in Token, RefreshCommit(r, t)
        PROVE  [Sessions!Next]_<<OpenLogins, SeenLogins \ OpenLogins>>
    BY <2>3, RefreshCommitStutters
  <2> QED
    BY <2>1, <2>2, <2>3, Steps
<1> QED
  BY <1>1, <1>2, TypeCorrect, AccountInvariant, PTL DEF Spec, SessionsPromised, Sessions!Spec

-----------------------------------------------------------------------------
(* Requests that do not overtake one another: what one of them has read of *)
(* the account still holds, or the account has gone.                       *)

StillSo(r) ==
    LET u == req[r].user
    IN  /\ At(r, "dropUser") => user[u].row = "GONE" \/ (Exists(u) /\ ~user[u].verified)
        /\ At(r, "hardDelete") => user[u].row = "GONE" \/ (Exists(u) /\ user[u].deletion)
        /\ At(r, "unlink") =>
              \/ user[u].row = "GONE"
              \/ Exists(u) /\ (user[u].password \/ user[u].links \ {req[r].provider} # {})

ApartInv == TypeOK /\ \A r \in Request : StillSo(r)

(* What any other kind of step does to an account: it removes it at        *)
(* once, or leaves its verification, password, providers and request for   *)
(* deletion at least as they were.                                         *)
Steady(u) ==
    \/ user[u].row = "UNUSED"
    \/ user'[u].row = "GONE" /\ UNCHANGED req
    \/ /\ user'[u].row = user[u].row
       /\ user'[u].verified = user[u].verified
       /\ user[u].password => user'[u].password
       /\ user[u].deletion => user'[u].deletion
       /\ user[u].links \subseteq user'[u].links

(* ... and it enters none of the handlers that delete what they have read.  *)
NoneEntered == \A q \in Request :
    req'[q].pc \in {"dropUser", "hardDelete", "unlink"} => req'[q] = req[q]

LEMMA SteadyFrame == ASSUME UNCHANGED user, NEW u \in User PROVE Steady(u)
BY DEF Steady

LEMMA SteadyUpdate ==
    ASSUME TypeOK, NEW v \in User, NEW rec \in UserRecord, NEW u \in User,
           user' = [user EXCEPT ![v] = rec] \/ UpdateUser(v, rec),
           rec.row = user[v].row, rec.verified = user[v].verified,
           user[v].password => rec.password, user[v].deletion => rec.deletion,
           user[v].links \subseteq rec.links
    PROVE  Steady(u)
<1>1. user'[u] = user[u] \/ (u = v /\ user'[u] = rec)
  BY DEF UpdateUser, TypeOK
<1> QED
  BY <1>1 DEF Steady

LEMMA EntersOther ==
    ASSUME TypeOK, NEW r \in Request, NEW rec, req' = [req EXCEPT ![r] = rec],
           rec.pc \notin {"dropUser", "hardDelete", "unlink"}
    PROVE  NoneEntered
BY DEF TypeOK, NoneEntered

LEMMA LeavesOther == ASSUME TypeOK, NEW r \in Request, Leave(r) PROVE NoneEntered
BY EntersOther DEF Leave, Idle

LEMMA GoesOther ==
    ASSUME TypeOK, NEW r \in Request, NEW pc, GoTo(r, pc),
           pc \notin {"dropUser", "hardDelete", "unlink"}
    PROVE  NoneEntered
<1>1. [req[r] EXCEPT !.pc = pc].pc = pc
  BY DEF TypeOK, RequestRecord
<1> QED
  BY <1>1, EntersOther DEF GoTo, TypeOK

LEMMA StaysOther == ASSUME UNCHANGED req PROVE NoneEntered
BY DEF NoneEntered

LEMMA AccountStepOther ==
    ASSUME TypeOK, NEW r \in Request, AccountStep(r)
    PROVE  NoneEntered
<1>1. ASSUME NEW u \in User, ForgotRead(r, u) \/ ResetRead(r, u) \/ Deactivate(r, u) PROVE NoneEntered
  <2>1. ASSUME NEW pc \in {"forget", "reset", "wipe"}, Enter(r, pc, u) PROVE NoneEntered
    BY <2>1, EntersOther DEF Enter, Idle
  <2> QED
    BY <1>1, <2>1 DEF ForgotRead, ResetRead, Deactivate
<1>2. ASSUME NEW u \in User, Activate(r, u) \/ RemoveUser(r, u) \/ RequestDeletion(r, u)
      PROVE  NoneEntered
  BY <1>2, StaysOther DEF Activate, RemoveUser, RequestDeletion
<1>3. ASSUME NEW u \in User, OAuthCreate(r, u) PROVE NoneEntered
  <2>1. CASE req' = [req EXCEPT ![r].pc = "link", ![r].user = u]
    <3>1. req' = [req EXCEPT ![r] = [req[r] EXCEPT !.pc = "link", !.user = u]]
      BY <2>1 DEF TypeOK
    <3>2. [req[r] EXCEPT !.pc = "link", !.user = u].pc = "link"
      BY DEF TypeOK, RequestRecord
    <3> QED
      BY <3>1, <3>2, EntersOther
  <2> QED
    BY <1>3, <2>1, LeavesOther DEF OAuthCreate
<1>4. ASSUME NEW p \in Provider, OAuthRead(r, p) PROVE NoneEntered
  <2>1. CASE req' = [req EXCEPT ![r] = [Idle EXCEPT !.pc = "createOAuth", !.provider = p]]
    BY <2>1, EntersOther DEF Idle
  <2>2. ASSUME NEW u \in User,
               req' = [req EXCEPT ![r] = [Idle EXCEPT !.pc = "link", !.user = u, !.provider = p]]
        PROVE  NoneEntered
    BY <2>2, EntersOther DEF Idle
  <2> QED
    BY <1>4, <2>1, <2>2 DEF OAuthRead
<1>5. CASE CreateCode(r) \/ ResetWrite(r)
  BY <1>5, LeavesOther DEF CreateCode, ResetWrite
<1>6. CASE ForgotDelete(r) \/ OAuthLink(r)
  BY <1>6, GoesOther DEF ForgotDelete, OAuthLink
<1>7. CASE DeactivateWipe(r)
  BY <1>7, EntersOther DEF DeactivateWipe, Idle
<1> QED
  BY <1>1, <1>2, <1>3, <1>4, <1>5, <1>6, <1>7 DEF AccountStep

LEMMA SessionStepOther ==
    ASSUME TypeOK, NEW r \in Request, SessionStep(r)
    PROVE  NoneEntered /\ \A u \in User : Steady(u)
<1>1. ASSUME NEW u \in User, Login(r, u) PROVE NoneEntered
  BY <1>1, EntersOther DEF Login, Enter, Idle
<1>2. ASSUME NEW u \in User, ChangePasswordRead(r, u) PROVE NoneEntered
  BY <1>2, EntersOther DEF ChangePasswordRead, Idle
<1>3. ASSUME NEW u \in User, NEW keep, RevokeRead(r, u, keep) PROVE NoneEntered
  BY <1>3, EntersOther DEF RevokeRead, Idle
<1>4. ASSUME NEW t \in Token, RefreshRead(r, t) PROVE NoneEntered
  BY <1>4, EntersOther DEF RefreshRead, Idle
<1>5. ASSUME NEW t \in Token, CreateSession(r, t) \/ RefreshCommit(r, t) \/ EndSession(r, t)
      PROVE  NoneEntered
  BY <1>5, LeavesOther, StaysOther DEF CreateSession, RefreshCommit, EndSession
<1>6. ASSUME RevokeWrite(r) \/ ChangePasswordWrite(r) PROVE NoneEntered
  <2>1. Leave(r)
    BY <1>6 DEF RevokeWrite, ChangePasswordWrite
  <2> QED
    BY <2>1, LeavesOther
<1>7. NoneEntered
  BY <1>1, <1>2, <1>3, <1>4, <1>5, <1>6 DEF SessionStep
<1>8. ASSUME NEW u \in User PROVE Steady(u)
  <2>1. CASE UNCHANGED user
    BY <2>1, SteadyFrame
  <2>2. CASE ChangePasswordWrite(r)
    <3> DEFINE v == req[r].user
               rec == [user[v] EXCEPT !.password = TRUE]
    <3>1. v \in User /\ user[v] \in UserRecord /\ UpdateUser(v, rec)
      BY <2>2, HasUser DEF ChangePasswordWrite, At
    <3>2. rec \in UserRecord
      BY <3>1 DEF UserRecord
    <3>3. rec.row = user[v].row /\ rec.verified = user[v].verified /\ rec.password
          /\ rec.deletion = user[v].deletion /\ rec.links = user[v].links
      BY <3>1 DEF UserRecord
    <3> HIDE DEF v, rec
    <3> QED
      BY <3>1, <3>2, <3>3, SteadyUpdate
  <2> QED
    BY <2>1, <2>2 DEF SessionStep, Login, ChangePasswordRead, RevokeRead, CreateSession, RefreshRead,
       RefreshCommit, EndSession, RevokeWrite
<1> QED
  BY <1>7, <1>8

(* One field of an account set, as the account steps do.                   *)
LEMMA SetField ==
    ASSUME NEW old \in UserRecord, NEW b \in BOOLEAN
    PROVE  /\ [old EXCEPT !.code = b].row = old.row
           /\ [old EXCEPT !.code = b].verified = old.verified
           /\ [old EXCEPT !.code = b].password = old.password
           /\ [old EXCEPT !.code = b].deletion = old.deletion
           /\ [old EXCEPT !.code = b].links = old.links
           /\ [old EXCEPT !.active = b].row = old.row
           /\ [old EXCEPT !.active = b].verified = old.verified
           /\ [old EXCEPT !.active = b].password = old.password
           /\ [old EXCEPT !.active = b].deletion = old.deletion
           /\ [old EXCEPT !.active = b].links = old.links
           /\ [old EXCEPT !.authored = b].row = old.row
           /\ [old EXCEPT !.authored = b].verified = old.verified
           /\ [old EXCEPT !.authored = b].password = old.password
           /\ [old EXCEPT !.authored = b].deletion = old.deletion
           /\ [old EXCEPT !.authored = b].links = old.links
BY DEF UserRecord

LEMMA SteadyField ==
    ASSUME TypeOK, NEW v \in User, NEW b \in BOOLEAN, NEW u \in User,
           \/ user' = [user EXCEPT ![v] = [user[v] EXCEPT !.code = b]]
           \/ UpdateUser(v, [user[v] EXCEPT !.code = b])
           \/ user' = [user EXCEPT ![v] = [user[v] EXCEPT !.active = b]]
           \/ user' = [user EXCEPT ![v] = [user[v] EXCEPT !.authored = b]]
    PROVE  Steady(u)
<1>1. user[v] \in UserRecord
  BY DEF TypeOK
<1>2. PICK rec \in {[user[v] EXCEPT !.code = b], [user[v] EXCEPT !.active = b],
                    [user[v] EXCEPT !.authored = b]} :
         user' = [user EXCEPT ![v] = rec] \/ UpdateUser(v, rec)
  OBVIOUS
<1>3. rec \in UserRecord
  BY <1>2, FlagsTyped
<1>4. rec.row = user[v].row /\ rec.verified = user[v].verified /\ rec.password = user[v].password
      /\ rec.deletion = user[v].deletion /\ rec.links = user[v].links
  <2>1. CASE rec = [user[v] EXCEPT !.code = b]
    BY <1>1, <2>1, SetField
  <2>2. CASE rec = [user[v] EXCEPT !.active = b]
    BY <1>1, <2>2, SetField
  <2>3. CASE rec = [user[v] EXCEPT !.authored = b]
    BY <1>1, <2>3, SetField
  <2> QED
    BY <1>2, <2>1, <2>2, <2>3
<1> QED
  BY <1>2, <1>3, <1>4, SteadyUpdate

LEMMA AccountStepSteady ==
    ASSUME TypeOK, NEW r \in Request, AccountStep(r), NEW u \in User
    PROVE  Steady(u)
<1>1. CASE UNCHANGED user
  BY <1>1, SteadyFrame
<1>2. ASSUME NEW v \in User, Activate(r, v) \/ Deactivate(r, v) PROVE Steady(u)
  <2>1. \E b \in BOOLEAN : user' = [user EXCEPT ![v] = [user[v] EXCEPT !.active = b]]
    BY <1>2 DEF Activate, Deactivate, TypeOK
  <2> QED
    BY <2>1, SteadyField
<1>3. ASSUME NEW v \in User, RemoveUser(r, v) PROVE Steady(u)
  BY <1>3 DEF RemoveUser, DropUser, Steady, TypeOK, NoUser
<1>4. ASSUME NEW v \in User, RequestDeletion(r, v) PROVE Steady(u)
  BY <1>4 DEF RequestDeletion, Steady, TypeOK, UserRecord
<1>5. ASSUME NEW v \in User, OAuthCreate(r, v) PROVE Steady(u)
  BY <1>5 DEF OAuthCreate, Steady, TypeOK
<1>6. CASE CreateCode(r) \/ ForgotDelete(r)
  <2>1. req[r].user \in User
    BY <1>6, HasUser DEF CreateCode, ForgotDelete, At
  <2>2. \E b \in BOOLEAN : UpdateUser(req[r].user, [user[req[r].user] EXCEPT !.code = b])
    BY <1>6 DEF CreateCode, ForgotDelete
  <2> QED
    BY <2>1, <2>2, SteadyField
<1>7. CASE ResetWrite(r)
  BY <1>7, HasUser DEF ResetWrite, At, UpdateUser, TypeOK, UserRecord, Steady
<1>8. CASE OAuthLink(r)
  <2>1. req[r].user \in User
    BY <1>8, HasUser DEF OAuthLink, At
  <2> QED
    BY <1>8, <2>1 DEF OAuthLink, UpdateUser, TypeOK, UserRecord, Steady
<1> QED
  BY <1>1, <1>2, <1>3, <1>4, <1>5, <1>6, <1>7, <1>8
  DEF AccountStep, ForgotRead, ResetRead, OAuthRead, DeactivateWipe

LEMMA EnvironmentOther ==
    ASSUME TypeOK, Environment
    PROVE  NoneEntered /\ \A u \in User : Steady(u)
<1>1. NoneEntered
  BY StaysOther DEF Environment, CodeExpires, Author
<1>2. ASSUME NEW u \in User PROVE Steady(u)
  <2>1. PICK v \in User : CodeExpires(v) \/ Author(v)
    BY DEF Environment
  <2>2. \E b \in BOOLEAN : \/ user' = [user EXCEPT ![v] = [user[v] EXCEPT !.code = b]]
                           \/ user' = [user EXCEPT ![v] = [user[v] EXCEPT !.authored = b]]
    BY <2>1 DEF CodeExpires, Author, TypeOK
  <2> QED
    BY <2>2, SteadyField
<1> QED
  BY <1>1, <1>2

(* Every step of no lifecycle is steady.                                   *)
OtherStep ==
    \/ \E r \in Request : AccountStep(r) \/ SessionStep(r) \/ CallFails(r)
    \/ Environment

LEMMA OtherSteady ==
    ASSUME TypeOK, OtherStep
    PROVE  NoneEntered /\ \A u \in User : Steady(u)
<1>1. ASSUME NEW r \in Request, CallFails(r) PROVE NoneEntered /\ \A u \in User : Steady(u)
  BY <1>1, LeavesOther, SteadyFrame DEF CallFails
<1> QED
  BY <1>1, AccountStepOther, AccountStepSteady, SessionStepOther, EnvironmentOther DEF OtherStep

LEMMA OtherKeeps ==
    ASSUME TypeOK, TypeOK', NEW r \in Request, StillSo(r), NoneEntered, \A u \in User : Steady(u)
    PROVE  StillSo(r)'
<1>1. r \in Request
  OBVIOUS
<1>2. SUFFICES ASSUME req'[r].pc \in {"dropUser", "hardDelete", "unlink"}
               PROVE  StillSo(r)'
  BY DEF StillSo, At
<1>3. req'[r] = req[r]
  BY <1>1, <1>2 DEF NoneEntered
<1>4. req[r].user \in User
  BY <1>1, <1>2, <1>3, HasUser
<1>5. Steady(req[r].user)
  BY <1>4
<1> QED
  BY <1>2, <1>3, <1>4, <1>5 DEF StillSo, At, Exists, Steady

(* unlinkOAuthAccount found a password or another provider.                *)
LEMMA AnotherProvider ==
    ASSUME NEW u, NEW p, Unlinkable(u, p)
    PROVE  user[u].password \/ user[u].links \ {p} # {}
<1> SUFFICES ASSUME user[u].links \ {p} = {}
             PROVE  user[u].password
  OBVIOUS
<1>1. user[u].links = {p}
  BY DEF Unlinkable
<1>2. Cardinality({p}) = 1
  BY FS_Singleton
<1> QED
  BY <1>1, <1>2 DEF Unlinkable

LEMMA LifecycleReads ==
    ASSUME TypeOK, NEW r \in Request, LifecycleStep(r)
    PROVE  StillSo(r)'
<1>0. r \in Request
  OBVIOUS
<1>1. ASSUME NEW rec, req' = [req EXCEPT ![r] = rec],
             rec.pc \notin {"dropUser", "hardDelete", "unlink"}
      PROVE  StillSo(r)'
  BY <1>0, <1>1 DEF TypeOK, StillSo, At
<1>2. ASSUME Leave(r) PROVE StillSo(r)'
  BY <1>1, <1>2 DEF Leave, Idle
<1>3. ASSUME NEW pc \in {"create", "code", "verify"}, NEW u, Enter(r, pc, u) PROVE StillSo(r)'
  BY <1>1, <1>3 DEF Enter, Idle
<1>4. CASE RegisterRead(r)
  <2>1. ASSUME NEW u \in User, Exists(u), Replaceable(u), Enter(r, "dropUser", u)
        PROVE  StillSo(r)'
    <3>1. req'[r].pc = "dropUser" /\ req'[r].user = u
      BY <1>0, <2>1 DEF Enter, Idle, TypeOK
    <3>2. UNCHANGED user
      BY <1>4 DEF RegisterRead
    <3> QED
      BY <2>1, <3>1, <3>2 DEF StillSo, At, Exists, Replaceable
  <2> QED
    BY <1>3, <1>4, <2>1 DEF RegisterRead
<1>5. ASSUME NEW u \in User, HardDeleteRead(r, u) PROVE StillSo(r)'
  <2>1. req'[r].pc = "hardDelete" /\ req'[r].user = u
    BY <1>0, <1>5 DEF HardDeleteRead, Enter, Idle, TypeOK
  <2> QED
    BY <1>5, <2>1 DEF HardDeleteRead, StillSo, At, Exists
<1>6. ASSUME NEW u \in User, NEW p \in Provider, UnlinkRead(r, u, p) PROVE StillSo(r)'
  <2>1. req'[r].pc = "unlink" /\ req'[r].user = u /\ req'[r].provider = p
    BY <1>0, <1>6 DEF UnlinkRead, Idle, TypeOK
  <2>2. user[u].password \/ user[u].links \ {p} # {}
    BY <1>6, AnotherProvider DEF UnlinkRead
  <2>3. UNCHANGED user /\ Exists(u)
    BY <1>6 DEF UnlinkRead, SignedIn
  <2> QED
    BY <2>1, <2>2, <2>3 DEF StillSo, At, Exists
<1>7. ASSUME NEW u \in User, CancelDeletion(r, u) PROVE StillSo(r)'
  BY <1>7 DEF CancelDeletion, IsIdle, StillSo, At
<1>8. ASSUME NEW u \in User, RegisterCreate(r, u) \/ VerifyRead(r, u) PROVE StillSo(r)'
  BY <1>2, <1>3, <1>8 DEF RegisterCreate, VerifyRead
<1>9. CASE RegisterDrop(r) \/ VerifyWrite(r) \/ UnlinkWrite(r) \/ HardDelete(r)
  BY <1>2, <1>3, <1>9 DEF RegisterDrop, VerifyWrite, UnlinkWrite, HardDelete
<1> QED
  BY <1>4, <1>5, <1>6, <1>7, <1>8, <1>9 DEF LifecycleStep

LEMMA VerifyKeeps ==
    ASSUME TypeOK, NEW r \in Request, VerifyWrite(r), NEW u \in User
    PROVE  /\ user'[u].row = user[u].row /\ user'[u].links = user[u].links
           /\ user'[u].password = user[u].password /\ user'[u].deletion = user[u].deletion
           /\ u # req[r].user => user'[u] = user[u]
<1> DEFINE v == req[r].user
           rec == [user[v] EXCEPT !.verified = TRUE, !.code = FALSE]
<1>1. v \in User /\ user[v] \in UserRecord
  BY HasUser DEF VerifyWrite, At, TypeOK
<1>2. /\ rec.row = user[v].row /\ rec.links = user[v].links
      /\ rec.password = user[v].password /\ rec.deletion = user[v].deletion
  BY <1>1 DEF UserRecord
<1>3. UpdateUser(v, rec)
  BY DEF VerifyWrite
<1> HIDE DEF rec
<1>4. user'[u] = user[u] \/ (u = v /\ user'[u] = rec)
  BY <1>1, <1>3 DEF UpdateUser, TypeOK
<1> QED
  BY <1>2, <1>4

LEMMA UnlinkWrites ==
    ASSUME TypeOK, NEW r \in Request, UnlinkWrite(r), NEW u \in User
    PROVE  /\ user'[u].row = user[u].row /\ user'[u].verified = user[u].verified
           /\ user'[u].password = user[u].password /\ user'[u].deletion = user[u].deletion
           /\ user'[u].links \in {user[u].links, user[u].links \ {req[r].provider}}
           /\ u # req[r].user => user'[u] = user[u]
<1> DEFINE v == req[r].user
           rec == [user[v] EXCEPT !.links = user[v].links \ {req[r].provider}]
<1>1. v \in User /\ user[v] \in UserRecord
  BY HasUser DEF UnlinkWrite, At, TypeOK
<1>2. /\ rec.row = user[v].row /\ rec.verified = user[v].verified
      /\ rec.password = user[v].password /\ rec.deletion = user[v].deletion
      /\ rec.links = user[v].links \ {req[r].provider}
  BY <1>1 DEF UserRecord
<1>3. UpdateUser(v, rec)
  BY DEF UnlinkWrite
<1> HIDE DEF rec
<1>4. user'[u] = user[u] \/ (u = v /\ user'[u] = rec)
  BY <1>1, <1>3 DEF UpdateUser, TypeOK
<1> QED
  BY <1>2, <1>4

(* What the steps of one lifecycle do to what another request has read: a  *)
(* verification, a cancellation or an unlink may take it away, and nothing *)
(* else does.                                                              *)
LEMMA LifecycleElsewhere ==
    ASSUME TypeOK, NEW q \in Request, LifecycleStep(q), NEW r \in Request, r # q
    PROVE  req'[r] = req[r]
BY DEF LifecycleStep, TypeOK, Enter, Leave, RegisterRead, RegisterDrop, RegisterCreate, VerifyRead,
       CancelDeletion, HardDeleteRead, UnlinkRead, VerifyWrite, UnlinkWrite, HardDelete

LEMMA StillUnder ==
    ASSUME NEW r \in Request, StillSo(r), req'[r] = req[r], NEW u, u = req[r].user,
           \/ user'[u].row = "GONE"
           \/ /\ user'[u].row = user[u].row
              /\ At(r, "dropUser") => user'[u].verified = user[u].verified
              /\ At(r, "hardDelete") => user'[u].deletion = user[u].deletion
              /\ At(r, "unlink") => /\ user'[u].password = user[u].password
                                    /\ user'[u].links = user[u].links
    PROVE  StillSo(r)'
BY DEF StillSo, At, Exists

LEMMA LifecycleKeeps ==
    ASSUME TypeOK, NEW q \in Request, LifecycleStep(q), ~Overtaken,
           NEW r \in Request, r # q, StillSo(r)
    PROVE  StillSo(r)'
<1> DEFINE u == req[r].user
<1>1. req'[r] = req[r]
  BY LifecycleElsewhere
<1>2. SUFFICES ASSUME req[r].pc \in {"dropUser", "hardDelete", "unlink"}
               PROVE  StillSo(r)'
  BY <1>1 DEF StillSo, At
<1>3. u \in User /\ (user[u].row = "GONE" \/ Exists(u))
  BY <1>2, HasUser DEF StillSo, At
<1>4. CASE user'[u] = user[u]
  BY <1>1, <1>4, StillUnder
<1>5. CASE VerifyWrite(q)
  BY <1>1, <1>3, <1>4, <1>5, VerifyKeeps, StillUnder DEF Overtaken
<1>6. CASE UnlinkWrite(q)
  BY <1>1, <1>3, <1>4, <1>6, UnlinkWrites, StillUnder DEF Overtaken, At
<1>7. ASSUME NEW v \in User, CancelDeletion(q, v) PROVE StillSo(r)'
  <2>1. CASE v # u
    BY <1>3, <1>4, <1>7, <2>1 DEF CancelDeletion, TypeOK
  <2>2. CASE v = u
    <3>1. ~At(r, "hardDelete")
      BY <1>7, <2>2 DEF Overtaken
    <3>2. user'[u] = [user[u] EXCEPT !.deletion = FALSE] /\ user[u] \in UserRecord
      BY <1>3, <1>7, <2>2 DEF CancelDeletion, TypeOK
    <3>3. /\ user'[u].row = user[u].row /\ user'[u].verified = user[u].verified
          /\ user'[u].password = user[u].password /\ user'[u].links = user[u].links
      BY <3>2 DEF UserRecord
    <3> QED
      BY <1>1, <3>1, <3>3, StillUnder
  <2> QED
    BY <2>1, <2>2
<1>8. ASSUME NEW v \in User, RegisterCreate(q, v) PROVE StillSo(r)'
  BY <1>3, <1>4, <1>8 DEF RegisterCreate, TypeOK, Exists
<1>9. CASE RegisterDrop(q) \/ HardDelete(q)
  <2>1. ASSUME NEW w, DropUser(w) PROVE StillSo(r)'
    <3>1. user'[u] = user[u] \/ user'[u].row = "GONE"
      BY <1>3, <2>1 DEF DropUser, TypeOK, NoUser
    <3> QED
      BY <1>1, <1>4, <3>1, StillUnder
  <2> QED
    BY <1>4, <1>9, <2>1 DEF RegisterDrop, HardDelete
<1> QED
  BY <1>4, <1>5, <1>6, <1>7, <1>8, <1>9
     DEF LifecycleStep, RegisterRead, VerifyRead, HardDeleteRead, UnlinkRead

LEMMA ApartInductive == TypeOK' /\ ApartInv /\ [Next /\ ~Overtaken]_vars => ApartInv'
<1> SUFFICES ASSUME TypeOK', ApartInv, [Next /\ ~Overtaken]_vars PROVE ApartInv'
  OBVIOUS
<1>1. TypeOK
  BY DEF ApartInv
<1>2. CASE UNCHANGED vars
  BY <1>2 DEF vars, ApartInv, StillSo, At, Exists
<1>3. CASE OtherStep
  BY <1>1, <1>3, OtherSteady, OtherKeeps DEF ApartInv
<1>4. ASSUME NEW q \in Request, LifecycleStep(q), ~Overtaken PROVE ApartInv'
  <2>1. \A r \in Request : StillSo(r)'
    BY <1>1, <1>4, LifecycleReads, LifecycleKeeps DEF ApartInv
  <2> QED
    BY <2>1 DEF ApartInv
<1> QED
  BY <1>2, <1>3, <1>4 DEF Next, OtherStep

LEMMA ApartInit == Init => ApartInv
<1>1. Init => TypeOK
  BY TypeInit
<1>2. Init => \A r \in Request : StillSo(r)
  BY DEF Init, StillSo, At, Idle
<1> QED
  BY <1>1, <1>2 DEF ApartInv

(* Before one request has overtaken another, what each read still holds.   *)
ApartSoFar == TypeOK /\ (~overtaken => ApartInv)

LEMMA WatchedApart == ApartSoFar /\ [WatchedNext]_watchedVars => ApartSoFar'
<1> SUFFICES ASSUME ApartSoFar, [WatchedNext]_watchedVars PROVE ApartSoFar'
  OBVIOUS
<1>1. [Next]_vars
  BY DEF WatchedNext, watchedVars
<1>2. TypeOK'
  BY <1>1, TypeInductive DEF ApartSoFar
<1>3. ASSUME ~overtaken' PROVE ~overtaken /\ [Next /\ ~Overtaken]_vars
  <2>1. CASE WatchedNext
    BY <1>3, <2>1 DEF WatchedNext
  <2>2. CASE UNCHANGED watchedVars
    BY <1>3, <2>2 DEF watchedVars
  <2> QED
    BY <2>1, <2>2
<1>4. ASSUME ~overtaken' PROVE ApartInv'
  <2>1. ApartInv
    BY <1>3, <1>4 DEF ApartSoFar
  <2>2. [Next /\ ~Overtaken]_vars
    BY <1>3, <1>4
  <2> QED
    BY <1>2, <2>1, <2>2, ApartInductive
<1> QED
  BY <1>2, <1>4 DEF ApartSoFar

(* A step of another kind deletes an account only at once, and takes no    *)
(* provider from one.                                                      *)
LEMMA OtherKeepsAll ==
    ASSUME TypeOK, OtherStep, NEW u \in User
    PROVE  ~LosesKept(u) /\ ~LosesLogin(u)
<1>1. Steady(u)
  BY OtherSteady
<1> QED
  BY <1>1 DEF Steady, Exists, LosesKept, LosesLogin

(* register() and the nightly deletion find the account as they read it.   *)
LEMMA DeletionsKeep ==
    ASSUME TypeOK, NEW r \in Request, StillSo(r), RegisterDrop(r) \/ HardDelete(r), NEW u \in User
    PROVE  ~LosesKept(u) /\ ~LosesLogin(u)
<1>1. CASE UNCHANGED user
  BY <1>1 DEF LosesKept, LosesLogin, Exists
<1>2. CASE DropUser(req[r].user)
  <2>1. CASE u = req[r].user
    BY <1>2, <2>1 DEF DropUser, TypeOK, NoUser, Exists, StillSo, RegisterDrop, HardDelete,
       LosesKept, LosesLogin
  <2>2. CASE u # req[r].user
    BY <1>2, <2>2 DEF DropUser, TypeOK, Exists, LosesKept, LosesLogin
  <2> QED
    BY <2>1, <2>2
<1> QED
  BY <1>1, <1>2 DEF RegisterDrop, HardDelete

LEMMA UnlinkKeeps ==
    ASSUME TypeOK, NEW r \in Request, StillSo(r), UnlinkWrite(r), NEW u \in User
    PROVE  ~LosesKept(u) /\ ~LosesLogin(u)
<1>1. user[req[r].user].row = "GONE" \/
      (user[req[r].user].password \/ user[req[r].user].links \ {req[r].provider} # {})
  BY DEF StillSo, UnlinkWrite
<1> QED
  BY <1>1, UnlinkWrites DEF LosesKept, LosesLogin, Exists

(* The other steps of a lifecycle delete no account and take no provider.  *)
LEMMA LifecycleKeepsAll ==
    ASSUME TypeOK, NEW r \in Request, StillSo(r), LifecycleStep(r), NEW u \in User
    PROVE  ~LosesKept(u) /\ ~LosesLogin(u)
<1>1. CASE UNCHANGED user
  BY <1>1 DEF LosesKept, LosesLogin, Exists
<1>2. ASSUME NEW v \in User, RegisterCreate(r, v) \/ CancelDeletion(r, v)
      PROVE  ~LosesKept(u) /\ ~LosesLogin(u)
  BY <1>2 DEF RegisterCreate, CancelDeletion, TypeOK, UserRecord, Exists, LosesKept, LosesLogin
<1>3. CASE VerifyWrite(r)
  BY <1>3, VerifyKeeps DEF LosesKept, LosesLogin, Exists
<1> QED
  BY <1>1, <1>2, <1>3, DeletionsKeep, UnlinkKeeps
     DEF LifecycleStep, RegisterRead, VerifyRead, HardDeleteRead, UnlinkRead

(* However many requests overlap, an account that is kept is deleted, or   *)
(* its last way to sign in unlinked, for three reasons only: the account   *)
(* was verified between register()'s read and its delete, or kept between  *)
(* the nightly job's, or two unlinks counted before either deleted.        *)
THEOREM LockedOutByOvertaking == WatchedSpec => NobodyLockedOut
<1> DEFINE Kept == ~overtaken' => \A u \in User : ~LosesKept(u) /\ ~LosesLogin(u)
<1>1. Init /\ overtaken = FALSE => ApartSoFar
  BY ApartInit DEF ApartSoFar, ApartInv
<1>2. ApartSoFar /\ [WatchedNext]_watchedVars => [Kept]_watchedVars
  <2> SUFFICES ASSUME ApartSoFar, WatchedNext, ~overtaken', NEW u \in User
               PROVE  ~LosesKept(u) /\ ~LosesLogin(u)
    OBVIOUS
  <2>1. Next /\ ~overtaken
    BY DEF WatchedNext
  <2>2. TypeOK /\ \A r \in Request : StillSo(r)
    BY <2>1 DEF ApartSoFar, ApartInv
  <2>3. CASE OtherStep
    BY <2>2, <2>3, OtherKeepsAll
  <2>4. ASSUME NEW r \in Request, LifecycleStep(r) PROVE ~LosesKept(u) /\ ~LosesLogin(u)
    BY <2>2, <2>4, LifecycleKeepsAll
  <2> QED
    BY <2>1, <2>3, <2>4 DEF Next, OtherStep
<1> QED
  BY <1>1, <1>2, WatchedApart, PTL DEF WatchedSpec, WatchedInit, NobodyLockedOut

=============================================================================
