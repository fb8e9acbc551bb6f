------------------------------ MODULE Accounts ------------------------------
(***************************************************************************)
(* The accounts of one email address: AuthService, the account operations  *)
(* of UsersService, and the deletion on request of GdprService.            *)
(*                                                                         *)
(* user.email is unique, so one row lives at a time, but a registration    *)
(* may delete a row and insert another.  A handler that reads and writes   *)
(* later is several steps; req[r] holds what it still uses.  A code that   *)
(* is right and a password that is right are the caller's choice.          *)
(* A request may end at any of its awaits: the call was refused, or the    *)
(* process stopped.  Access tokens and personal tokens are not in here.    *)
(***************************************************************************)
EXTENDS FiniteSets, Naturals

CONSTANTS
    User,        \* user row ids
    Provider,    \* OAuth providers
    Token,       \* refresh token row ids
    Request,     \* requests in flight at the same time
    NULL

ASSUME AccountsAssumption == NULL \notin User \cup Provider \cup Token

VARIABLES
    user,      \* user[u]: the row and its OAuth accounts and codes
    session,   \* session[t]: a RefreshToken row
    req        \* req[r]: where request r is and what it remembers

vars == <<user, session, req>>

-----------------------------------------------------------------------------
(* code: a VerificationToken that has not expired; one that has is refused *)
(* like none.  authored: rows exist whose foreign key restricts deletion.  *)
(* deletion: deletionRequestedAt is set; when the grace period is over is  *)
(* left open.                                                              *)
UserRecord ==
    [row: {"UNUSED", "LIVE", "GONE"}, verified: BOOLEAN, password: BOOLEAN,
     active: BOOLEAN, links: SUBSET Provider, code: BOOLEAN,
     deletion: BOOLEAN, authored: BOOLEAN]

NoUser(state) ==
    [row |-> state, verified |-> FALSE, password |-> FALSE, active |-> TRUE,
     links |-> {}, code |-> FALSE, deletion |-> FALSE, authored |-> FALSE]

(* login: the token its chain of rotations started with.  A row past its   *)
(* expiresAt is a row until something deletes it; when is left open.       *)
SessionRecord ==
    [state: {"UNUSED", "LIVE", "GONE"}, user: User \cup {NULL},
     login: Token \cup {NULL}]

NoSession == [state |-> "UNUSED", user |-> NULL, login |-> NULL]

PC == {"idle", "dropUser", "create", "code", "verify", "forget", "reset",
       "session", "createOAuth", "link", "unlink", "rotate", "change",
       "wipe", "revoke", "hardDelete"}

RequestRecord ==
    [pc: PC, user: User \cup {NULL}, provider: Provider \cup {NULL}, rows: SUBSET Token]

Idle == [pc |-> "idle", user |-> NULL, provider |-> NULL, rows |-> {}]

IsIdle(r) == req[r].pc = "idle"
At(r, pc) == req[r].pc = pc
Enter(r, pc, u) == req' = [req EXCEPT ![r] = [Idle EXCEPT !.pc = pc, !.user = u]]
GoTo(r, pc) == req' = [req EXCEPT ![r].pc = pc]
Leave(r) == req' = [req EXCEPT ![r] = Idle]

TypeOK ==
    /\ user \in [User -> UserRecord]
    /\ session \in [Token -> SessionRecord]
    /\ \A t \in Token :
          /\ session[t].state # "UNUSED" => session[t].login \in Token
          /\ session[t].state = "LIVE" => session[t].user \in User
    /\ req \in [Request -> RequestRecord]
    /\ \A r \in Request :
          /\ req[r].pc \in PC \ {"idle", "create", "createOAuth", "revoke"} =>
                 req[r].user \in User
          /\ req[r].pc \in {"createOAuth", "link", "unlink"} => req[r].provider \in Provider
          /\ At(r, "rotate") => req[r].rows # {}

Init ==
    /\ user = [u \in User |-> NoUser("UNUSED")]
    /\ session = [t \in Token |-> NoSession]
    /\ req = [r \in Request |-> Idle]

Exists(u) == user[u].row = "LIVE"
SignedIn(u) == Exists(u) /\ user[u].verified   \* holds an access token, at some time
EmailTaken == \E u \in User : Exists(u)
TokenRow(t) == session[t].state = "LIVE"
SessionsOf(u) == {t \in Token : TokenRow(t) /\ session[t].user = u}
EndOf(t) == [session[t] EXCEPT !.state = "GONE", !.user = NULL]
DropSessions(S) ==
    session' = [t \in Token |-> IF t \in S /\ TokenRow(t)
                                THEN EndOf(t)
                                ELSE session[t]]

(* user.delete, with what the foreign keys cascade to *)
DropUser(u) ==
    /\ user' = [user EXCEPT ![u] = NoUser("GONE")]
    /\ DropSessions(SessionsOf(u))

(* An update by id of a row that must exist, or the handler throws. *)
UpdateUser(u, rec) == user' = IF Exists(u) THEN [user EXCEPT ![u] = rec] ELSE user

-----------------------------------------------------------------------------
(* register *)

ReplaceableLate(u) == ~user[u].code
Replaceable(u) == ~user[u].verified /\ ~user[u].code

RegisterRead(r) ==
    /\ IsIdle(r)
    /\ \/ /\ ~EmailTaken
          /\ Enter(r, "create", NULL)
       \/ \E u \in User : /\ Exists(u) /\ Replaceable(u)
                          /\ Enter(r, "dropUser", u)
    /\ UNCHANGED <<user, session>>

(* user.delete throws when the row is gone or other rows restrict it. *)
Deletable(u) == Exists(u) /\ ~user[u].authored

RegisterDrop(r) ==
    /\ At(r, "dropUser")
    /\ \/ /\ Deletable(req[r].user)
          /\ DropUser(req[r].user)
          /\ Enter(r, "create", NULL)
       \/ /\ ~Deletable(req[r].user)
          /\ Leave(r)
          /\ UNCHANGED <<user, session>>

RegisterCreate(r, u) ==
    /\ At(r, "create")
    /\ user[u].row = "UNUSED"
    /\ \/ /\ ~EmailTaken
          /\ user' = [user EXCEPT ![u] = [NoUser("LIVE") EXCEPT !.password = TRUE]]
          /\ Enter(r, "code", u)
       \/ /\ EmailTaken
          /\ Leave(r)
          /\ UNCHANGED user
    /\ UNCHANGED session

(* The row of the code, in register and in forgotPassword *)
CreateCode(r) ==
    /\ At(r, "code")
    /\ UpdateUser(req[r].user, [user[req[r].user] EXCEPT !.code = TRUE])
    /\ Leave(r)
    /\ UNCHANGED session

-----------------------------------------------------------------------------
(* verifyEmail, forgotPassword, resetPassword *)

VerifyRead(r, u) ==
    /\ IsIdle(r)
    /\ Exists(u) /\ user[u].code
    /\ Enter(r, "verify", u)
    /\ UNCHANGED <<user, session>>

VerifyWrite(r) ==
    /\ At(r, "verify")
    /\ UpdateUser(req[r].user, [user[req[r].user] EXCEPT !.verified = TRUE, !.code = FALSE])
    /\ Leave(r)
    /\ UNCHANGED session

ForgotRead(r, u) ==
    /\ IsIdle(r)
    /\ Exists(u) /\ user[u].verified
    /\ Enter(r, "forget", u)
    /\ UNCHANGED <<user, session>>

ForgotDelete(r) ==
    /\ At(r, "forget")
    /\ UpdateUser(req[r].user, [user[req[r].user] EXCEPT !.code = FALSE])
    /\ GoTo(r, "code")
    /\ UNCHANGED session

ResetRead(r, u) ==
    /\ IsIdle(r)
    /\ Exists(u) /\ user[u].code
    /\ Enter(r, "reset", u)
    /\ UNCHANGED <<user, session>>

ResetWrite(r) ==
    /\ At(r, "reset")
    /\ UpdateUser(req[r].user, [user[req[r].user] EXCEPT !.password = TRUE, !.code = FALSE])
    /\ Leave(r)
    /\ UNCHANGED session

-----------------------------------------------------------------------------
(* login and loginWithOAuth *)

Login(r, u) ==
    /\ IsIdle(r)
    /\ Exists(u) /\ user[u].password /\ user[u].verified /\ user[u].active
    /\ Enter(r, "session", u)
    /\ UNCHANGED <<user, session>>

(* An unverified row is refused: it has a password, as register made it.   *)
(* The branch for one without a password has no row to take.               *)
LinkableActive(u) == user[u].active
Linkable(u) == user[u].active /\ user[u].verified

OAuthRead(r, p) ==
    /\ IsIdle(r)
    /\ \/ /\ ~EmailTaken
          /\ req' = [req EXCEPT ![r] = [Idle EXCEPT !.pc = "createOAuth", !.provider = p]]
       \/ \E u \in User :
             /\ Exists(u) /\ Linkable(u)
             /\ req' = [req EXCEPT ![r] = [Idle EXCEPT !.pc = "link", !.user = u, !.provider = p]]
    /\ UNCHANGED <<user, session>>

OAuthCreate(r, u) ==
    /\ At(r, "createOAuth")
    /\ user[u].row = "UNUSED"
    /\ \/ /\ ~EmailTaken
          /\ user' = [user EXCEPT ![u] = [NoUser("LIVE") EXCEPT !.verified = TRUE]]
          /\ req' = [req EXCEPT ![r].pc = "link", ![r].user = u]
       \/ /\ EmailTaken
          /\ Leave(r)
          /\ UNCHANGED user
    /\ UNCHANGED session

(* The link is supplementary: an error is logged and the login goes on. *)
OAuthLink(r) ==
    /\ At(r, "link")
    /\ \/ UNCHANGED user
       \/ UpdateUser(req[r].user, [user[req[r].user] EXCEPT !.links = @ \cup {req[r].provider}])
    /\ GoTo(r, "session")
    /\ UNCHANGED session

(* generateTokens *)
CreateSession(r, t) ==
    /\ At(r, "session")
    /\ session[t].state = "UNUSED"
    /\ session' = IF Exists(req[r].user)
                  THEN [session EXCEPT ![t] = [state |-> "LIVE", user |-> req[r].user, login |-> t]]
                  ELSE session
    /\ Leave(r)
    /\ UNCHANGED user

(* unlinkOAuthAccount counts the accounts, then deletes one. *)
AnyLink(u, p) == p \in user[u].links
Unlinkable(u, p) ==
    p \in user[u].links /\ (user[u].password \/ Cardinality(user[u].links) > 1)

UnlinkRead(r, u, p) ==
    /\ IsIdle(r)
    /\ SignedIn(u) /\ Unlinkable(u, p)
    /\ req' = [req EXCEPT ![r] = [Idle EXCEPT !.pc = "unlink", !.user = u, !.provider = p]]
    /\ UNCHANGED <<user, session>>

UnlinkWrite(r) ==
    /\ At(r, "unlink")
    /\ UpdateUser(req[r].user, [user[req[r].user] EXCEPT !.links = @ \ {req[r].provider}])
    /\ Leave(r)
    /\ UNCHANGED session

-----------------------------------------------------------------------------
(* refresh, and what ends sessions *)

RefreshRead(r, t) ==
    /\ IsIdle(r)
    /\ TokenRow(t)
    /\ req' = [req EXCEPT ![r] = [Idle EXCEPT !.pc = "rotate", !.user = session[t].user,
                                              !.rows = {t}]]
    /\ UNCHANGED <<user, session>>

(* delete throws when the row is gone, which rolls the new token back. *)
RotatableAlways(t) == TRUE
Rotatable(t) == TokenRow(t)

(* The new row carries the user that was read with the old one. *)
RotatedFromDeleted(r, t) == [EndOf(t) EXCEPT !.state = "LIVE"]
Rotated(r, t) == [state |-> "LIVE", user |-> req[r].user, login |-> session[t].login]

RefreshCommit(r, n) ==
    /\ At(r, "rotate")
    /\ session[n].state = "UNUSED"
    /\ \E t \in req[r].rows :
          session' = IF Rotatable(t) /\ Exists(req[r].user)
                     THEN [session EXCEPT ![t] = EndOf(t), ![n] = Rotated(r, t)]
                     ELSE session
    /\ Leave(r)
    /\ UNCHANGED user

(* refresh of an expired token deletes its row; logout, revokeMySession and *)
(* revokeSession delete the row of a token they are given                   *)
EndSession(r, t) ==
    /\ IsIdle(r)
    /\ TokenRow(t)
    /\ DropSessions({t})
    /\ UNCHANGED <<user, req>>

(* deleteMany takes the rows it sees when it starts.  A rotation that has  *)
(* not committed yet is not among them.                                    *)
RevokeRead(r, u, keep) ==
    /\ IsIdle(r)
    /\ Exists(u)
    /\ req' = [req EXCEPT ![r] = [Idle EXCEPT !.pc = "revoke", !.rows = SessionsOf(u) \ {keep}]]
    /\ UNCHANGED <<user, session>>

RevokeWrite(r) ==
    /\ At(r, "revoke")
    /\ DropSessions(req[r].rows)
    /\ Leave(r)
    /\ UNCHANGED user

ChangePasswordRead(r, u) ==
    /\ IsIdle(r)
    /\ SignedIn(u)
    /\ req' = [req EXCEPT ![r] = [Idle EXCEPT !.pc = "change", !.user = u, !.rows = SessionsOf(u)]]
    /\ UNCHANGED <<user, session>>

ChangePasswordWrite(r) ==
    /\ At(r, "change")
    /\ UpdateUser(req[r].user, [user[req[r].user] EXCEPT !.password = TRUE])
    /\ IF Exists(req[r].user) THEN DropSessions(req[r].rows) ELSE UNCHANGED session
    /\ Leave(r)

-----------------------------------------------------------------------------
(* UsersService: setActive and remove *)

Activate(r, u) ==
    /\ IsIdle(r)
    /\ Exists(u)
    /\ user' = [user EXCEPT ![u].active = TRUE]
    /\ UNCHANGED <<session, req>>

Deactivate(r, u) ==
    /\ IsIdle(r)
    /\ Exists(u)
    /\ user' = [user EXCEPT ![u].active = FALSE]
    /\ Enter(r, "wipe", u)
    /\ UNCHANGED session

DeactivateWipe(r) ==
    /\ At(r, "wipe")
    /\ req' = [req EXCEPT ![r] = [Idle EXCEPT !.pc = "revoke", !.rows = SessionsOf(req[r].user)]]
    /\ UNCHANGED <<user, session>>

RemoveUser(r, u) ==
    /\ IsIdle(r)
    /\ Deletable(u)
    /\ DropUser(u)
    /\ UNCHANGED req

(* GdprService *)

RequestDeletion(r, u) ==
    /\ IsIdle(r)
    /\ SignedIn(u) /\ ~user[u].deletion
    /\ user' = [user EXCEPT ![u].deletion = TRUE]
    /\ UNCHANGED <<session, req>>

CancelDeletion(r, u) ==
    /\ IsIdle(r)
    /\ SignedIn(u) /\ user[u].deletion
    /\ user' = [user EXCEPT ![u].deletion = FALSE]
    /\ UNCHANGED <<session, req>>

HardDeleteRead(r, u) ==
    /\ IsIdle(r)
    /\ Exists(u) /\ user[u].deletion
    /\ Enter(r, "hardDelete", u)
    /\ UNCHANGED <<user, session>>

HardDelete(r) ==
    /\ At(r, "hardDelete")
    /\ IF Deletable(req[r].user) THEN DropUser(req[r].user) ELSE UNCHANGED <<user, session>>
    /\ Leave(r)

-----------------------------------------------------------------------------
(* Time, other services, and failures *)

CodeExpires(u) ==
    /\ user[u].code
    /\ user' = [user EXCEPT ![u].code = FALSE]
    /\ UNCHANGED <<session, req>>

(* reports an issue, writes a comment, leads a project, ... *)
Author(u) ==
    /\ SignedIn(u) /\ ~user[u].authored
    /\ user' = [user EXCEPT ![u].authored = TRUE]
    /\ UNCHANGED <<session, req>>

(* The nightly job catches what user.delete throws: it is back the next night. *)
CallFails(r) ==
    /\ req[r].pc \notin {"idle", "hardDelete"}
    /\ Leave(r)
    /\ UNCHANGED <<user, session>>

-----------------------------------------------------------------------------
LifecycleStep(r) ==
    \/ RegisterRead(r) \/ RegisterDrop(r)
    \/ \E u \in User : \/ RegisterCreate(r, u) \/ VerifyRead(r, u)
                       \/ CancelDeletion(r, u) \/ HardDeleteRead(r, u)
                       \/ \E p \in Provider : UnlinkRead(r, u, p)
    \/ VerifyWrite(r) \/ UnlinkWrite(r) \/ HardDelete(r)

AccountStep(r) ==
    \/ \E u \in User : \/ ForgotRead(r, u) \/ ResetRead(r, u)
                       \/ Activate(r, u) \/ Deactivate(r, u) \/ RemoveUser(r, u)
                       \/ RequestDeletion(r, u) \/ OAuthCreate(r, u)
    \/ \E p \in Provider : OAuthRead(r, p)
    \/ CreateCode(r) \/ ForgotDelete(r) \/ ResetWrite(r) \/ OAuthLink(r) \/ DeactivateWipe(r)

SessionStep(r) ==
    \/ \E u \in User : \/ Login(r, u) \/ ChangePasswordRead(r, u)
                       \/ \E keep \in Token \cup {NULL} : RevokeRead(r, u, keep)
    \/ \E t \in Token : \/ CreateSession(r, t) \/ RefreshRead(r, t) \/ RefreshCommit(r, t)
                        \/ EndSession(r, t)
    \/ RevokeWrite(r) \/ ChangePasswordWrite(r)

Environment == \E u \in User : CodeExpires(u) \/ Author(u)

Next ==
    \/ \E r \in Request : LifecycleStep(r) \/ AccountStep(r) \/ SessionStep(r) \/ CallFails(r)
    \/ Environment

Spec == Init /\ [][Next]_vars

Continue(r) ==
    /\ ~IsIdle(r)
    /\ LifecycleStep(r) \/ AccountStep(r) \/ SessionStep(r) \/ CallFails(r)

(* A handler that has started ends, well or with an error.  The grace      *)
(* period passes, and the cron gets its night whatever requests come.      *)
FairSpec ==
    /\ Spec
    /\ \A r \in Request : WF_vars(Continue(r))
    /\ \A r \in Request : SF_vars(\E u \in User : HardDeleteRead(r, u))

-----------------------------------------------------------------------------
(* Properties *)

(* A login has one refresh token at a time: concurrent refreshes of one     *)
(* token do not multiply the session (the delete in refresh()'s transaction *)
(* throws for the one that comes second).                                   *)
OneTokenPerLogin ==
    \A t, n \in Token :
        TokenRow(t) /\ TokenRow(n) /\ session[t].login = session[n].login => t = n

(* Nobody signs in to, or links a provider to, an account whose email is    *)
(* not verified, over re-registrations and stale reads ("silent link is     *)
(* REFUSED when an existing password account hasn't verified its email").   *)
OnlyVerified ==
    \A u \in User : Exists(u) /\ (user[u].links # {} \/ SessionsOf(u) # {}) => user[u].verified

(* Each login is a session of LoginSessions: rotations do not show, and a   *)
(* session that has ended, by whatever handler, is never open again.        *)
OpenLogins == {session[t].login : t \in {n \in Token : TokenRow(n)}}
SeenLogins == {session[t].login : t \in {n \in Token : session[n].state # "UNUSED"}}
Sessions == INSTANCE LoginSessions
                WITH LoginId <- Token, open <- OpenLogins, ended <- SeenLogins \ OpenLogins
SessionsPromised == Sessions!Spec

(* An account is verified between register()'s read and its delete, or kept *)
(* by its owner between the nightly job's; or of two unlinks both have      *)
(* counted the providers before either has deleted one.                     *)
Overtaken ==
    \E r, q \in Request :
        \/ /\ At(r, "dropUser")
           /\ VerifyWrite(q) /\ req[q].user = req[r].user
        \/ At(r, "hardDelete") /\ CancelDeletion(q, req[r].user)
        \/ /\ At(r, "unlink") /\ q # r
           /\ UnlinkWrite(q) /\ req[q].user = req[r].user

(* A request deletes an account that is verified and its owner has not      *)
(* asked to delete, or keeps; an administrator's removal is of one step.    *)
LosesKept(u) ==
    Exists(u) /\ ~Exists(u)' /\ req' # req /\ user[u].verified /\ ~user[u].deletion

(* The account loses a provider and is left with nothing to sign in with.   *)
LosesLogin(u) ==
    /\ Exists(u) /\ Exists(u)' /\ user'[u].links # user[u].links
    /\ ~user'[u].password /\ user'[u].links = {}

(* An account whose deletion was requested is deleted once the grace period *)
(* is over, or its owner cancels: "Cascades drop every dependent row        *)
(* (issues, comments, etc.)", hardDeleteExpired.                            *)
DueDeleted ==
    \A u \in User : user[u].deletion ~> ~user[u].deletion

=============================================================================
