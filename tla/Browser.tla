------------------------------- MODULE Browser ------------------------------
(***************************************************************************)
(* AuthController and the cookies it keeps in one browser.  Tabs share the *)
(* cookies: a request carries those of the moment it is sent, and its      *)
(* answer changes those of the moment it arrives, so answers may come in   *)
(* another order than the requests were served in, or never.  What happens *)
(* inside a request is Accounts; here it is one step.                      *)
(***************************************************************************)
CONSTANTS
    Tab,          \* tabs of the browser, each with one request at a time
    RefreshRow,   \* refresh token row ids
    NoRow,
    CookieDomain  \* COOKIE_DOMAIN is set

ASSUME BrowserAssumption == NoRow \notin RefreshRow /\ CookieDomain \in BOOLEAN

VARIABLES
    jar,       \* the cookies: access_token, refresh_token, is_authenticated
    row,       \* row[t]: a RefreshToken row of the user
    call,      \* call[b]: the request of tab b
    active,    \* user.active
    strayed    \* logins whose cookies were cleared, overwritten or lost

browserVars == <<jar, row, call, active, strayed>>

-----------------------------------------------------------------------------
JarRecord == [access: BOOLEAN, refresh: RefreshRow \cup {NoRow}, flag: BOOLEAN]
EmptyJar == [access |-> FALSE, refresh |-> NoRow, flag |-> FALSE]

(* login: the row its rotations started with; here: that was this browser *)
RowRecord == [state: {"UNUSED", "LIVE", "GONE"}, login: RefreshRow \cup {NoRow}, here: BOOLEAN]
NoRefresh == [state |-> "UNUSED", login |-> NoRow, here |-> FALSE]

Guarded == {"logout", "revokeOne", "revokeOthers", "revokeAll"}
Ops == {"login", "oauth", "refresh"} \cup Guarded

(* cookies: what the answer does to the jar *)
CallRecord ==
    [pc: {"idle", "sent", "answered"}, op: Ops, access: BOOLEAN,
     token: RefreshRow \cup {NoRow},
     cookies: {"keep", "set", "clear", "clearTokens", "clearHost"},
     new: RefreshRow \cup {NoRow}]
NoCall == [pc |-> "idle", op |-> "login", access |-> FALSE, token |-> NoRow,
           cookies |-> "keep", new |-> NoRow]

BrowserTypeOK ==
    /\ jar \in JarRecord
    /\ row \in [RefreshRow -> RowRecord]
    /\ call \in [Tab -> CallRecord]
    /\ active \in BOOLEAN
    /\ strayed \in SUBSET RefreshRow

BrowserInit ==
    /\ jar = EmptyJar
    /\ row = [t \in RefreshRow |-> NoRefresh]
    /\ call = [b \in Tab |-> NoCall]
    /\ active = TRUE
    /\ strayed = {}

LiveRow(t) == t \in RefreshRow /\ row[t].state = "LIVE"
LiveRows == {t \in RefreshRow : LiveRow(t)}
EndRows(S) ==
    row' = [t \in RefreshRow |-> IF t \in S /\ LiveRow(t) THEN [row[t] EXCEPT !.state = "GONE"]
                                 ELSE row[t]]

Sent(b, op) == call[b].pc = "sent" /\ call[b].op = op
Answered(b, cookies, t) ==
    call' = [call EXCEPT ![b] = [NoCall EXCEPT !.pc = "answered", !.op = call[b].op,
                                               !.cookies = cookies, !.new = t]]

-----------------------------------------------------------------------------
(* Login needs no cookie, and only the guarded operations the access token. *)
SendCall(b, op) ==
    /\ call[b].pc = "idle"
    /\ call' = [call EXCEPT ![b] =
                   [NoCall EXCEPT !.pc = "sent", !.op = op,
                                  !.access = op \in Guarded /\ jar.access,
                                  !.token = IF op \in {"login", "oauth"} THEN NoRow
                                            ELSE jar.refresh]]
    /\ UNCHANGED <<jar, row, active, strayed>>

(* JwtAuthGuard and JwtStrategy.validate *)
Admitted(b) == call[b].access /\ active

(* generateTokens: the row of a new login *)
SignIn(b, t) ==
    /\ active
    /\ row[t].state = "UNUSED"
    /\ row' = [row EXCEPT ![t] = [state |-> "LIVE", login |-> t, here |-> TRUE]]
    /\ Answered(b, "set", t)
    /\ UNCHANGED <<jar, active, strayed>>

ServeLogin(b, t) == Sent(b, "login") /\ SignIn(b, t)

ServeOAuth(b, t) == Sent(b, "oauth") /\ SignIn(b, t)

ServeRefresh(b, t) ==
    /\ Sent(b, "refresh")
    /\ LiveRow(call[b].token)
    /\ row[t].state = "UNUSED"
    /\ row' = [row EXCEPT ![t] = row[call[b].token], ![call[b].token].state = "GONE"]
    /\ Answered(b, "set", t)
    /\ UNCHANGED <<jar, active, strayed>>

ServeLogout(b) ==
    /\ Sent(b, "logout")
    /\ Admitted(b)
    /\ EndRows({call[b].token})
    /\ Answered(b, "clear", NoRow)
    /\ UNCHANGED <<jar, active, strayed>>

ServeRevokeOne(b, t) ==
    /\ Sent(b, "revokeOne")
    /\ Admitted(b)
    /\ LiveRow(t)
    /\ EndRows({t})
    /\ Answered(b, IF t = call[b].token THEN "clearHost" ELSE "keep", NoRow)
    /\ UNCHANGED <<jar, active, strayed>>

ServeRevokeOthers(b) ==
    /\ Sent(b, "revokeOthers")
    /\ Admitted(b)
    /\ EndRows(RefreshRow \ {call[b].token})
    /\ Answered(b, "keep", NoRow)
    /\ UNCHANGED <<jar, active, strayed>>

ServeRevokeAll(b) ==
    /\ Sent(b, "revokeAll")
    /\ Admitted(b)
    /\ EndRows(RefreshRow)
    /\ Answered(b, "clearTokens", NoRow)
    /\ UNCHANGED <<jar, active, strayed>>

(* A guard or the handler throws: wrong credentials, a provider that is    *)
(* switched off, a token that is missing, expired or rotated, an error.    *)
(* The cookies stay as they are.                                           *)
ServeFailsClears(b) ==
    /\ call[b].pc = "sent"
    /\ Answered(b, "clear", NoRow)
    /\ UNCHANGED <<jar, row, active, strayed>>

ServeFails(b) ==
    /\ call[b].pc = "sent"
    /\ Answered(b, "keep", NoRow)
    /\ UNCHANGED <<jar, row, active, strayed>>

-----------------------------------------------------------------------------
(* The answer arrives.  The flag is set by the OAuth callback, and by the  *)
(* page after a login with a password; clearCookie in revokeSession names  *)
(* no domain, so cookies that have one stay.                               *)
JarAfter(c) ==
    CASE c.cookies = "set" -> [access |-> TRUE, refresh |-> c.new,
                               flag |-> jar.flag \/ c.op # "refresh"]
      [] c.cookies = "clear" -> EmptyJar
      [] c.cookies = "clearTokens" \/ (c.cookies = "clearHost" /\ ~CookieDomain) ->
            [EmptyJar EXCEPT !.flag = jar.flag]
      [] OTHER -> jar

LoginOf(t) == IF t = NoRow THEN NoRow ELSE row[t].login

(* The login in the jar that this answer replaces, or clears on request *)
LeftBehind(c) ==
    IF /\ LoginOf(JarAfter(c).refresh) # LoginOf(jar.refresh)
       /\ c.cookies = "set" \/ c.op \in Guarded
    THEN {LoginOf(jar.refresh)} \ {NoRow} ELSE {}

Receive(b) ==
    /\ call[b].pc = "answered"
    /\ jar' = JarAfter(call[b])
    /\ strayed' = strayed \cup LeftBehind(call[b])
    /\ call' = [call EXCEPT ![b] = NoCall]
    /\ UNCHANGED <<row, active>>

(* The request or the answer is lost: the tab is closed, the network fails. *)
LoseCall(b) ==
    /\ call[b].pc # "idle"
    /\ strayed' = strayed \cup ({LoginOf(call[b].new)} \ {NoRow})
    /\ call' = [call EXCEPT ![b] = NoCall]
    /\ UNCHANGED <<jar, row, active>>

-----------------------------------------------------------------------------
(* Cookies expire with their tokens. *)
AccessRunsOut ==
    /\ jar.access
    /\ jar' = [jar EXCEPT !.access = FALSE]
    /\ UNCHANGED <<row, call, active, strayed>>

SessionRunsOut(t) ==
    /\ LiveRow(t)
    /\ EndRows({t})
    /\ jar' = IF jar.refresh = t THEN [jar EXCEPT !.refresh = NoRow] ELSE jar
    /\ UNCHANGED <<call, active, strayed>>

(* Another device signs in, or ends a session of the user. *)
OtherSignIn(t) ==
    /\ active
    /\ row[t].state = "UNUSED"
    /\ row' = [row EXCEPT ![t] = [state |-> "LIVE", login |-> t, here |-> FALSE]]
    /\ UNCHANGED <<jar, call, active, strayed>>

OtherEnds(t) ==
    /\ LiveRow(t)
    /\ EndRows({t})
    /\ UNCHANGED <<jar, call, active, strayed>>

(* setActive: the rows are wiped, the access tokens are refused *)
SetActive(on) ==
    /\ active' = on
    /\ EndRows(IF on THEN {} ELSE RefreshRow)
    /\ UNCHANGED <<jar, call, strayed>>

-----------------------------------------------------------------------------
BrowserNext ==
    \/ \E b \in Tab :
          \/ \E op \in Ops : SendCall(b, op)
          \/ \E t \in RefreshRow : \/ ServeLogin(b, t) \/ ServeOAuth(b, t)
                                   \/ ServeRefresh(b, t) \/ ServeRevokeOne(b, t)
          \/ ServeLogout(b) \/ ServeRevokeOthers(b) \/ ServeRevokeAll(b) \/ ServeFails(b)
          \/ Receive(b) \/ LoseCall(b)
    \/ AccessRunsOut
    \/ \E t \in RefreshRow : SessionRunsOut(t) \/ OtherSignIn(t) \/ OtherEnds(t)
    \/ \E on \in BOOLEAN : SetActive(on)

BrowserSpec == BrowserInit /\ [][BrowserNext]_browserVars

-----------------------------------------------------------------------------
(* A session this browser opened is in its cookies, or in an answer on its *)
(* way to them, as long as it is live, however the refreshes, logins and   *)
(* logouts of its tabs overlap ("allow a small burst when several tabs     *)
(* refresh at once"): it is left behind only when an answer is lost, when  *)
(* another login takes its place, or when an answer that was asked to      *)
(* clear the cookies overtakes a refresh.                                  *)
SessionsReachable ==
    \A t \in RefreshRow :
        LiveRow(t) /\ row[t].here /\ row[t].login \notin strayed =>
            \/ jar.refresh = t
            \/ \E b \in Tab : call[b].pc = "answered" /\ call[b].new = t

(* Seen from a browser, too, a login is a session of LoginSessions: the    *)
(* answers may come in any order, be lost or be refused, a session that    *)
(* ended is not opened again, by a refresh with an old cookie either.      *)
LiveLogins == {row[t].login : t \in LiveRows}
KnownLogins == {row[t].login : t \in {n \in RefreshRow : row[n].state # "UNUSED"}}
Logins == INSTANCE LoginSessions
              WITH LoginId <- RefreshRow, open <- LiveLogins, ended <- KnownLogins \ LiveLogins
LoginsPromised == Logins!Spec
=============================================================================
