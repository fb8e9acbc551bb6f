------------------------------- MODULE Tokens -------------------------------
(***************************************************************************)
(* Personal access tokens (PatService) and share links of issues           *)
(* (IssuesShareService).  Both are looked up by a request that has nothing *)
(* else to show, and both leave a trace of the use behind in a write that  *)
(* nobody waits for: it may run late, fail, or find the row revoked.       *)
(***************************************************************************)
EXTENDS Naturals, FiniteSets

CONSTANTS
    AccessToken,   \* row ids of PersonalAccessToken
    ShareToken,    \* row ids of IssueShareToken, all of one issue
    Visit,         \* requests of strangers that are in flight
    MaxUses,       \* uses of a token that are followed
    LastDate       \* dates go up to this one

ASSUME TokensAssumption == AccessToken \cap ShareToken = {} /\ {MaxUses, LastDate} \subseteq Nat

VARIABLES
    token,     \* token[t]: the row of either table
    visit,     \* visit[v]: a request with a token
    date,      \* now
    shared,    \* the issue is there
    touching,  \* touching[t]: traces that are still to be written
    missed     \* missed[t]: traces that failed, or ended with the process

tokensVars == <<token, visit, date, shared, touching, missed>>

-----------------------------------------------------------------------------
Token == AccessToken \cup ShareToken
Never == LastDate + 1
Expiries == 0 .. Never

(* views: viewCount.  served: the answers given with the token.            *)
TokenRecord ==
    [state: {"UNUSED", "LIVE", "GONE"}, expires: Expiries, views: 0 .. MaxUses,
     served: 0 .. MaxUses]
NewToken(expires) == [state |-> "LIVE", expires |-> expires, views |-> 0, served |-> 0]
NoToken == [NewToken(Never) EXCEPT !.state = "UNUSED"]

(* date: when the row was looked up *)
VisitRecord == [pc: {"idle", "load"}, token: Token \cup {"none"}, date: 0 .. LastDate]
NoVisit == [pc |-> "idle", token |-> "none", date |-> 0]

TokensTypeOK ==
    /\ token \in [Token -> TokenRecord]
    /\ visit \in [Visit -> VisitRecord]
    /\ date \in 0 .. LastDate
    /\ shared \in BOOLEAN
    /\ touching \in [Token -> 0 .. MaxUses]
    /\ missed \in [Token -> 0 .. MaxUses]

TokensInit ==
    /\ token = [t \in Token |-> NoToken]
    /\ visit = [v \in Visit |-> NoVisit]
    /\ date = 0
    /\ shared = TRUE
    /\ touching = [t \in Token |-> 0]
    /\ missed = [t \in Token |-> 0]

LiveToken(t) == token[t].state = "LIVE"
Expired(t) == token[t].expires # Never /\ token[t].expires < date

-----------------------------------------------------------------------------
(* PatService.create and createShareToken, which also reads the issue: an  *)
(* expiry in days or seconds from now, or none.                            *)
CreateToken(t, expires) ==
    /\ token[t].state = "UNUSED"
    /\ expires >= date
    /\ t \in ShareToken => shared
    /\ token' = [token EXCEPT ![t] = NewToken(expires)]
    /\ UNCHANGED <<visit, date, shared, touching, missed>>

(* revoke, revokeShareToken: the caller's own row, or one of the issue *)
RevokeToken(t) ==
    /\ LiveToken(t)
    /\ token' = [token EXCEPT ![t].state = "GONE"]
    /\ UNCHANGED <<visit, date, shared, touching, missed>>

(* The rows of a deleted issue or account go with it. *)
DropSharedIssue ==
    /\ shared
    /\ shared' = FALSE
    /\ token' = [t \in Token |-> IF t \in ShareToken /\ LiveToken(t)
                                 THEN [token[t] EXCEPT !.state = "GONE"] ELSE token[t]]
    /\ UNCHANGED <<visit, date, touching, missed>>

-----------------------------------------------------------------------------
ServeOnce(t) ==
    /\ token[t].served < MaxUses
    /\ token' = [token EXCEPT ![t].served = @ + 1]
    /\ touching' = [touching EXCEPT ![t] = @ + 1]

(* resolveBearerToken: one read, then the request is let in and the touch  *)
(* is on its way.                                                          *)
ResolveBearerToken(t) ==
    /\ t \in AccessToken
    /\ LiveToken(t)
    /\ ~Expired(t)
    /\ ServeOnce(t)
    /\ UNCHANGED <<visit, date, shared, missed>>

(* findByShareToken: the row, then the issue with what hangs on it *)
StartVisit(v, t) ==
    /\ visit[v].pc = "idle"
    /\ t \in ShareToken
    /\ LiveToken(t)
    /\ ~Expired(t)
    /\ visit' = [visit EXCEPT ![v] = [pc |-> "load", token |-> t, date |-> date]]
    /\ UNCHANGED <<token, date, shared, missed>>

FindShareToken(v, t) ==
    /\ StartVisit(v, t)
    /\ UNCHANGED touching

LoadShared(v) ==
    /\ visit[v].pc = "load"
    /\ shared
    /\ ServeOnce(visit[v].token)
    /\ visit' = [visit EXCEPT ![v] = NoVisit]
    /\ UNCHANGED <<date, shared, missed>>

(* The issue is gone, the read fails, a signed URL cannot be made. *)
VisitFails(v) ==
    /\ visit[v].pc = "load"
    /\ visit' = [visit EXCEPT ![v] = NoVisit]
    /\ UNCHANGED <<token, date, shared, touching, missed>>

-----------------------------------------------------------------------------
(* The trace: viewCount is incremented where it is, lastUsedAt is set; an  *)
(* update of a row that is gone fails, and the failure is swallowed.       *)
Touch(t) ==
    /\ touching[t] > 0
    /\ touching' = [touching EXCEPT ![t] = @ - 1]
    /\ IF LiveToken(t)
       THEN token' = [token EXCEPT ![t].views = @ + 1] /\ UNCHANGED missed
       ELSE missed' = [missed EXCEPT ![t] = @ + 1] /\ UNCHANGED token
    /\ UNCHANGED <<visit, date, shared>>

TouchFails(t) ==
    /\ touching[t] > 0
    /\ touching' = [touching EXCEPT ![t] = @ - 1]
    /\ missed' = [missed EXCEPT ![t] = @ + 1]
    /\ UNCHANGED <<token, visit, date, shared>>

TokensProcessEnds ==
    /\ missed' = [t \in Token |-> missed[t] + touching[t]]
    /\ touching' = [t \in Token |-> 0]
    /\ visit' = [v \in Visit |-> NoVisit]
    /\ UNCHANGED <<token, date, shared>>

NextDate ==
    /\ date < LastDate
    /\ date' = date + 1
    /\ UNCHANGED <<token, visit, shared, touching, missed>>

TokensNext ==
    \/ \E t \in Token :
          \/ \E expires \in Expiries : CreateToken(t, expires)
          \/ RevokeToken(t)
          \/ ResolveBearerToken(t)
          \/ Touch(t)
          \/ TouchFails(t)
    \/ \E v \in Visit :
          \/ \E t \in Token : FindShareToken(v, t)
          \/ LoadShared(v)
          \/ VisitFails(v)
    \/ DropSharedIssue
    \/ TokensProcessEnds
    \/ NextDate

TokensSpec == TokensInit /\ [][TokensNext]_tokensVars

-----------------------------------------------------------------------------
(* The views of a link are the answers given with it, less the traces that *)
(* are still to be written and those that were missed: each is counted     *)
(* once, however the visits and the writes they leave behind overlap       *)
(* ("bumped atomically on each public hit").                               *)
UsesCounted ==
    \A t \in Token : token[t].views + touching[t] + missed[t] = token[t].served
=============================================================================
