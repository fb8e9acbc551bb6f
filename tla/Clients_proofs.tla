--------------------------- MODULE Clients_proofs -----------------------------
(*****************************************************************************)
(* Theorems about what is kept away from the database, for any number of     *)
(* clients: the cookies of a browser and the entries of the cache.           *)
(*****************************************************************************)
EXTENDS Browser, Caches, TLAPS

-----------------------------------------------------------------------------
(* Sessions and cookies.  Only rows that exist are named, and a login is   *)
(* one of them.                                                            *)

Used(t) == t \in RefreshRow /\ row[t].state # "UNUSED"

RowsKnown ==
    /\ \A t \in RefreshRow : Used(t) => Used(row[t].login)
    /\ jar.refresh # NoRow => Used(jar.refresh)
    /\ \A b \in Tab : /\ call[b].token # NoRow => Used(call[b].token)
                      /\ call[b].new # NoRow => Used(call[b].new)

(* An answer names a new row exactly when it sets the cookies, and only a  *)
(* guarded operation was asked to clear them.                              *)
AnswersFormed ==
    \A b \in Tab :
        /\ call[b].new # NoRow <=> call[b].pc = "answered" /\ call[b].cookies = "set"
        /\ call[b].cookies \in {"clear", "clearTokens", "clearHost"} => call[b].op \in Guarded

(* Rotation leaves one live row of a login.                                *)
OneLiveRow == \A t, u \in LiveRows : row[t].login = row[u].login => t = u

(* The row in an answer on its way is in no other answer, in no request    *)
(* and not in the cookies, so that nobody rotates it: when its login has a *)
(* live row, it is this one.                                               *)
AnswersNewest ==
    \A b \in Tab :
        call[b].new # NoRow =>
            /\ jar.refresh # call[b].new
            /\ \A c \in Tab : call[c].token # call[b].new /\ (c # b => call[c].new # call[b].new)
            /\ \A t \in LiveRows : row[t].login = row[call[b].new].login => t = call[b].new

BrowserInv ==
    BrowserTypeOK /\ RowsKnown /\ AnswersFormed /\ OneLiveRow /\ AnswersNewest /\ SessionsReachable

LEMMA BrowserRecords ==
    /\ NoCall \in CallRecord /\ EmptyJar \in JarRecord /\ NoRefresh \in RowRecord
    /\ NoCall.pc = "idle" /\ NoCall.token = NoRow /\ NoCall.new = NoRow /\ NoCall.cookies = "keep"
    /\ EmptyJar.refresh = NoRow /\ NoRefresh.state = "UNUSED"
BY DEF NoCall, CallRecord, EmptyJar, JarRecord, NoRefresh, RowRecord, Ops, Guarded

LEMMA BrowserInvInit == BrowserInit => BrowserInv
<1> SUFFICES ASSUME BrowserInit PROVE BrowserInv
  OBVIOUS
<1>1. BrowserTypeOK
  BY BrowserRecords DEF BrowserInit, BrowserTypeOK
<1>2. /\ \A b \in Tab : call[b] = NoCall
      /\ \A t \in RefreshRow : row[t].state = "UNUSED"
      /\ jar.refresh = NoRow
  BY BrowserRecords DEF BrowserInit
<1> QED
  BY <1>1, <1>2, BrowserRecords
     DEF BrowserInv, RowsKnown, AnswersFormed, OneLiveRow, AnswersNewest, SessionsReachable,
         LiveRows, LiveRow, Used

(* What a request carries, and what an answer says.                        *)
SentCall(op, token) ==
    [NoCall EXCEPT !.pc = "sent", !.op = op, !.access = op \in Guarded /\ jar.access,
                   !.token = token]
AnsweredCall(op, cookies, t) ==
    [NoCall EXCEPT !.pc = "answered", !.op = op, !.cookies = cookies, !.new = t]

LEMMA CallFieldSet ==
    ASSUME NEW s \in CallRecord
    PROVE  /\ \A pc \in {"idle", "sent", "answered"} : [s EXCEPT !.pc = pc] \in CallRecord
           /\ \A op \in Ops : [s EXCEPT !.op = op] \in CallRecord
           /\ \A a \in BOOLEAN : [s EXCEPT !.access = a] \in CallRecord
           /\ \A t \in RefreshRow \cup {NoRow} : /\ [s EXCEPT !.token = t] \in CallRecord
                                                 /\ [s EXCEPT !.new = t] \in CallRecord
           /\ \A cookies \in {"keep", "set", "clear", "clearTokens", "clearHost"} :
                 [s EXCEPT !.cookies = cookies] \in CallRecord
BY DEF CallRecord

LEMMA SentTyped ==
    ASSUME NEW op \in Ops, NEW token \in RefreshRow \cup {NoRow}
    PROVE  /\ SentCall(op, token) \in CallRecord /\ SentCall(op, token).pc = "sent"
           /\ SentCall(op, token).token = token /\ SentCall(op, token).new = NoRow
           /\ SentCall(op, token).cookies = "keep"
<1>1. (op \in Guarded /\ jar.access) \in BOOLEAN
  OBVIOUS
<1>2. SentCall(op, token) \in CallRecord
  BY <1>1, BrowserRecords, CallFieldSet DEF SentCall
<1> QED
  BY <1>2 DEF SentCall, NoCall

LEMMA AnsweredTyped ==
    ASSUME NEW op \in Ops, NEW t \in RefreshRow \cup {NoRow},
           NEW cookies \in {"keep", "set", "clear", "clearTokens", "clearHost"}
    PROVE  /\ AnsweredCall(op, cookies, t) \in CallRecord
           /\ AnsweredCall(op, cookies, t).pc = "answered"
           /\ AnsweredCall(op, cookies, t).token = NoRow
           /\ AnsweredCall(op, cookies, t).new = t
           /\ AnsweredCall(op, cookies, t).cookies = cookies
           /\ AnsweredCall(op, cookies, t).op = op
<1>1. AnsweredCall(op, cookies, t) \in CallRecord
  BY BrowserRecords, CallFieldSet DEF AnsweredCall
<1> QED
  BY <1>1 DEF AnsweredCall, NoCall

(* Rows end, and the request of one tab may be answered without a new row. *)
LEMMA RowsEnd ==
    ASSUME BrowserInv, NEW S, EndRows(S),
           jar' \in JarRecord, active' \in BOOLEAN, strayed' = strayed,
           \/ jar'.refresh = jar.refresh
           \/ jar'.refresh = NoRow /\ jar.refresh \in S,
           \/ call' = call
           \/ \E b \in Tab, rec \in CallRecord :
                 /\ call[b].pc = "sent" /\ call' = [call EXCEPT ![b] = rec]
                 /\ rec.token = NoRow /\ rec.new = NoRow /\ rec.cookies # "set"
                 /\ rec.cookies \in {"clear", "clearTokens", "clearHost"} => rec.op \in Guarded
    PROVE  BrowserInv'
<1>1. /\ row \in [RefreshRow -> RowRecord] /\ call \in [Tab -> CallRecord]
      /\ jar \in JarRecord /\ strayed \in SUBSET RefreshRow
  BY DEF BrowserInv, BrowserTypeOK
<1>2. row' \in [RefreshRow -> RowRecord]
  <2>1. \A t \in RefreshRow : [row[t] EXCEPT !.state = "GONE"] \in RowRecord
    BY <1>1 DEF RowRecord
  <2> QED
    BY <1>1, <2>1 DEF EndRows
<1>3. \A t \in RefreshRow :
         /\ row'[t].login = row[t].login /\ row'[t].here = row[t].here
         /\ row'[t].state = "UNUSED" <=> row[t].state = "UNUSED"
         /\ row'[t].state = "LIVE" <=> row[t].state = "LIVE" /\ t \notin S
  BY <1>1 DEF EndRows, LiveRow, RowRecord
<1>4. call' \in [Tab -> CallRecord]
  BY <1>1
<1>5. \A b \in Tab :
         \/ call'[b] = call[b]
         \/ /\ call[b].pc = "sent" /\ call'[b].token = NoRow /\ call'[b].new = NoRow
            /\ call'[b].cookies # "set"
            /\ call'[b].cookies \in {"clear", "clearTokens", "clearHost"} => call'[b].op \in Guarded
  BY <1>1
<1>6. \A b \in Tab : /\ call'[b].new = call[b].new
                     /\ call'[b].token = call[b].token \/ call'[b].token = NoRow
                     /\ call[b].new # NoRow => call'[b] = call[b]
  BY <1>5 DEF BrowserInv, AnswersFormed
<1>7. \A t \in RefreshRow \cup {NoRow} : Used(t)' <=> Used(t)
  BY <1>3 DEF Used
<1>8. LiveRows' = LiveRows \ S
  BY <1>3 DEF LiveRows, LiveRow
<1>9. BrowserTypeOK'
  BY <1>1, <1>2, <1>4 DEF BrowserTypeOK
<1>10. RowsKnown'
  <2>1. (\A t \in RefreshRow : Used(t) => Used(row[t].login))'
    BY <1>1, <1>3 DEF BrowserInv, RowsKnown, Used
  <2> QED
    BY <1>1, <1>6, <1>7, <2>1 DEF BrowserInv, RowsKnown, JarRecord, Used
<1>11. AnswersFormed'
  BY <1>5, <1>6 DEF BrowserInv, AnswersFormed
<1>12. OneLiveRow'
  BY <1>3, <1>8 DEF BrowserInv, OneLiveRow, LiveRows
<1>13. AnswersNewest'
  <2> SUFFICES ASSUME NEW b \in Tab, call[b].new # NoRow
               PROVE  /\ jar'.refresh # call[b].new
                      /\ \A c \in Tab : /\ call'[c].token # call[b].new
                                        /\ c # b => call[c].new # call[b].new
                      /\ \A t \in LiveRows' :
                            row'[t].login = row'[call[b].new].login => t = call[b].new
    BY <1>6 DEF AnswersNewest
  <2>1. call[b].new \in RefreshRow
    BY <1>1 DEF CallRecord
  <2> QED
    BY <1>3, <1>6, <1>8, <2>1 DEF BrowserInv, AnswersNewest, LiveRows
<1>14. SessionsReachable'
  <2> SUFFICES ASSUME NEW t \in RefreshRow, row'[t].state = "LIVE", row'[t].here,
                      row'[t].login \notin strayed
               PROVE  \/ jar'.refresh = t
                      \/ \E b \in Tab : call'[b].pc = "answered" /\ call'[b].new = t
    BY DEF SessionsReachable, LiveRow
  <2>1. \/ jar.refresh = t
        \/ \E b \in Tab : call[b].pc = "answered" /\ call[b].new = t
    BY <1>3 DEF BrowserInv, SessionsReachable, LiveRow
  <2>2. t \notin S /\ t # NoRow
    BY <1>3, BrowserAssumption
  <2> QED
    BY <1>6, <2>1, <2>2
<1> QED
  BY <1>9, <1>10, <1>11, <1>12, <1>13, <1>14 DEF BrowserInv

LEMMA SendCallKeeps ==
    ASSUME BrowserInv, NEW b \in Tab, NEW op \in Ops, SendCall(b, op)
    PROVE  BrowserInv'
<1> DEFINE token == IF op \in {"login", "oauth"} THEN NoRow ELSE jar.refresh
           rec == SentCall(op, token)
<1>1. /\ call \in [Tab -> CallRecord] /\ jar.refresh \in RefreshRow \cup {NoRow}
  BY DEF BrowserInv, BrowserTypeOK, JarRecord
<1>2. token \in RefreshRow \cup {NoRow} /\ token \in {NoRow, jar.refresh}
  BY <1>1
<1>3. /\ call' = [call EXCEPT ![b] = rec] /\ call[b].pc = "idle"
      /\ UNCHANGED <<jar, row, active, strayed>>
  BY DEF SendCall, SentCall
<1> HIDE DEF token
<1>4. /\ rec \in CallRecord /\ rec.token = token /\ rec.new = NoRow
      /\ rec.cookies = "keep"
  BY <1>2, SentTyped
<1> HIDE DEF rec
<1>5. call'[b] = rec /\ (\A c \in Tab \ {b} : call'[c] = call[c]) /\ call[b].new = NoRow
  BY <1>1, <1>3 DEF BrowserInv, AnswersFormed
<1>6. BrowserTypeOK'
  BY <1>1, <1>3, <1>4 DEF BrowserInv, BrowserTypeOK
<1>7. RowsKnown'
  BY <1>2, <1>3, <1>4, <1>5 DEF BrowserInv, RowsKnown, Used
<1>8. AnswersFormed' /\ OneLiveRow'
  BY <1>3, <1>4, <1>5 DEF BrowserInv, AnswersFormed, OneLiveRow, LiveRows, LiveRow
<1>9. AnswersNewest'
  BY <1>2, <1>3, <1>4, <1>5 DEF BrowserInv, AnswersNewest, LiveRows, LiveRow
<1>10. SessionsReachable'
  BY <1>3, <1>5 DEF BrowserInv, SessionsReachable, LiveRow, AnswersFormed
<1> QED
  BY <1>6, <1>7, <1>8, <1>9, <1>10 DEF BrowserInv

(* A row appears: of a new login, or of the login whose live row goes.     *)
LEMMA RowAppears ==
    ASSUME BrowserInv, NEW t \in RefreshRow, row[t].state = "UNUSED",
           row' \in [RefreshRow -> RowRecord], row'[t].state = "LIVE",
           call' \in [Tab -> CallRecord], UNCHANGED <<jar, active, strayed>>,
           \A u \in RefreshRow \ {t} :
              /\ row'[u].login = row[u].login /\ row'[u].here = row[u].here
              /\ row'[u].state = "UNUSED" <=> row[u].state = "UNUSED"
              /\ row'[u].state = "LIVE" =>
                    row[u].state = "LIVE" /\ row[u].login # row'[t].login,
           row'[t].login = t \/ Used(row'[t].login),
           \A c \in Tab : call[c].new # NoRow => row[call[c].new].login # row'[t].login,
           \/ call' = call /\ ~row'[t].here
           \/ \E b \in Tab : /\ call[b].pc = "sent" /\ call'[b].pc = "answered"
                             /\ call'[b].new = t /\ call'[b].token = NoRow
                             /\ call'[b].cookies = "set"
                             /\ \A c \in Tab \ {b} : call'[c] = call[c]
    PROVE  BrowserInv'
<1>1. /\ row \in [RefreshRow -> RowRecord] /\ call \in [Tab -> CallRecord]
      /\ jar \in JarRecord /\ jar.refresh \in RefreshRow \cup {NoRow}
      /\ \A c \in Tab : /\ call[c].new \in RefreshRow \cup {NoRow}
                        /\ call[c].token \in RefreshRow \cup {NoRow}
  BY DEF BrowserInv, BrowserTypeOK, CallRecord, JarRecord
<1>2. t # NoRow /\ jar.refresh # t /\ (\A c \in Tab : call[c].new # t /\ call[c].token # t)
  BY BrowserAssumption DEF BrowserInv, RowsKnown, Used
<1>3. \A c \in Tab :
         \/ call'[c] = call[c]
         \/ /\ call[c].pc = "sent" /\ call[c].new = NoRow /\ call'[c].pc = "answered"
            /\ call'[c].new = t /\ call'[c].token = NoRow /\ call'[c].cookies = "set"
            /\ \A d \in Tab \ {c} : call'[d] = call[d]
  BY DEF BrowserInv, AnswersFormed
<1>4. \A u \in RefreshRow : Used(u) => Used(u)'
  BY DEF Used
<1>5. LiveRows' \subseteq LiveRows \cup {t}
  BY DEF LiveRows, LiveRow
<1>6. BrowserTypeOK'
  BY DEF BrowserInv, BrowserTypeOK
<1>7. RowsKnown'
  <2>1. Used(t)'
    BY DEF Used
  <2>2. (\A u \in RefreshRow : Used(u) => Used(row[u].login))'
    <3> SUFFICES ASSUME NEW u \in RefreshRow, row'[u].state # "UNUSED"
                 PROVE  row'[u].login \in RefreshRow /\ row'[row'[u].login].state # "UNUSED"
      BY DEF Used
    <3>1. CASE u = t
      BY <1>4, <2>1, <3>1 DEF Used
    <3>2. CASE u # t
      <4>1. row'[u].login = row[u].login /\ Used(row[u].login)
        BY <3>2 DEF BrowserInv, RowsKnown, Used
      <4> QED
        BY <1>4, <4>1 DEF Used
    <3> QED
      BY <3>1, <3>2
  <2> QED
    BY <1>3, <1>4, <2>1, <2>2 DEF BrowserInv, RowsKnown, Used
<1>8. AnswersFormed'
  BY <1>2, <1>3 DEF BrowserInv, AnswersFormed
<1>9. OneLiveRow'
  <2> SUFFICES ASSUME NEW u \in LiveRows', NEW v \in LiveRows', row'[u].login = row'[v].login
               PROVE  u = v
    BY DEF OneLiveRow
  <2> QED
    BY DEF BrowserInv, OneLiveRow, LiveRows, LiveRow
<1>10. AnswersNewest'
  <2> SUFFICES ASSUME NEW b \in Tab, call'[b].new # NoRow
               PROVE  /\ jar.refresh # call'[b].new
                      /\ \A c \in Tab : /\ call'[c].token # call'[b].new
                                        /\ c # b => call'[c].new # call'[b].new
                      /\ \A u \in LiveRows' :
                            row'[u].login = row'[call'[b].new].login => u = call'[b].new
    BY DEF AnswersNewest
  <2>1. CASE call'[b] # call[b]
    <3>1. call'[b].new = t /\ call'[b].token = NoRow /\ \A d \in Tab \ {b} : call'[d] = call[d]
      BY <1>3, <2>1
    <3>2. \A u \in LiveRows' : row'[u].login = row'[t].login => u = t
      BY DEF LiveRows, LiveRow
    <3> QED
      BY <1>2, <3>1, <3>2
  <2>2. CASE call'[b] = call[b]
    <3>1. call[b].new \in RefreshRow \ {t} /\ row'[call[b].new].login = row[call[b].new].login
      BY <1>1, <1>2, <2>2
    <3>2. \A u \in LiveRows' : row'[u].login = row[call[b].new].login => u = call[b].new
      BY <1>5, <2>2, <3>1 DEF BrowserInv, AnswersNewest, LiveRows, LiveRow
    <3>3. \A c \in Tab : /\ call'[c].token # call[b].new
                         /\ c # b => call'[c].new # call[b].new
      BY <1>2, <1>3, <2>2, <3>1, BrowserAssumption DEF BrowserInv, AnswersNewest
    <3> QED
      BY <2>2, <3>1, <3>2, <3>3 DEF BrowserInv, AnswersNewest
  <2> QED
    BY <2>1, <2>2
<1>11. SessionsReachable'
  <2> SUFFICES ASSUME NEW u \in RefreshRow, row'[u].state = "LIVE", row'[u].here,
                      row'[u].login \notin strayed
               PROVE  \/ jar.refresh = u
                      \/ \E b \in Tab : call'[b].pc = "answered" /\ call'[b].new = u
    BY DEF SessionsReachable, LiveRow
  <2>1. CASE u = t
    BY <2>1
  <2>2. CASE u # t
    <3>1. \/ jar.refresh = u
          \/ \E b \in Tab : call[b].pc = "answered" /\ call[b].new = u
      BY <2>2 DEF BrowserInv, SessionsReachable, LiveRow
    <3> QED
      BY <1>3, <3>1
  <2> QED
    BY <2>1, <2>2
<1> QED
  BY <1>6, <1>7, <1>8, <1>9, <1>10, <1>11 DEF BrowserInv

LEMMA SignInKeeps ==
    ASSUME BrowserInv, NEW b \in Tab, NEW t \in RefreshRow,
           ServeLogin(b, t) \/ ServeOAuth(b, t)
    PROVE  BrowserInv'
<1> DEFINE new == [state |-> "LIVE", login |-> t, here |-> TRUE]
           rec == AnsweredCall(call[b].op, "set", t)
<1>1. /\ row \in [RefreshRow -> RowRecord] /\ call \in [Tab -> CallRecord]
      /\ call[b].op \in Ops
  BY DEF BrowserInv, BrowserTypeOK, CallRecord
<1>2. /\ call[b].pc = "sent" /\ row[t].state = "UNUSED" /\ row' = [row EXCEPT ![t] = new]
      /\ call' = [call EXCEPT ![b] = rec] /\ UNCHANGED <<jar, active, strayed>>
  BY DEF ServeLogin, ServeOAuth, Sent, SignIn, Answered, AnsweredCall
<1>3. rec \in CallRecord /\ rec.pc = "answered" /\ rec.new = t /\ rec.token = NoRow
      /\ rec.cookies = "set"
  BY <1>1, AnsweredTyped
<1>4. new \in RowRecord /\ new.state = "LIVE" /\ new.login = t
  BY DEF RowRecord
<1> HIDE DEF new, rec
<1>5. row'[t] = new /\ \A u \in RefreshRow \ {t} : row'[u] = row[u]
  BY <1>1, <1>2
<1>6. call'[b] = rec /\ \A c \in Tab \ {b} : call'[c] = call[c]
  BY <1>1, <1>2
<1>7. \A u \in RefreshRow : row[u].state # "UNUSED" => row[u].login # t
  BY <1>2 DEF BrowserInv, RowsKnown, Used
<1>8. \A c \in Tab : call[c].new # NoRow => row[call[c].new].login # t
  BY <1>7 DEF BrowserInv, RowsKnown, Used
<1>9. row' \in [RefreshRow -> RowRecord] /\ call' \in [Tab -> CallRecord]
  BY <1>1, <1>2, <1>3, <1>4
<1> QED
  BY <1>2, <1>3, <1>4, <1>5, <1>6, <1>7, <1>8, <1>9, RowAppears

LEMMA OtherSignInKeeps ==
    ASSUME BrowserInv, NEW t \in RefreshRow, OtherSignIn(t)
    PROVE  BrowserInv'
<1> DEFINE new == [state |-> "LIVE", login |-> t, here |-> FALSE]
<1>1. /\ row \in [RefreshRow -> RowRecord] /\ call \in [Tab -> CallRecord]
      /\ row[t].state = "UNUSED" /\ row' = [row EXCEPT ![t] = new]
      /\ UNCHANGED <<jar, call, active, strayed>>
  BY DEF OtherSignIn, BrowserInv, BrowserTypeOK
<1>2. new \in RowRecord /\ new.state = "LIVE" /\ new.login = t /\ ~new.here
  BY DEF RowRecord
<1> HIDE DEF new
<1>3. row'[t] = new /\ \A u \in RefreshRow \ {t} : row'[u] = row[u]
  BY <1>1
<1>4. \A u \in RefreshRow : row[u].state # "UNUSED" => row[u].login # t
  BY <1>1 DEF BrowserInv, RowsKnown, Used
<1>5. \A c \in Tab : call[c].new # NoRow => row[call[c].new].login # t
  BY <1>4 DEF BrowserInv, RowsKnown, Used
<1>6. row' \in [RefreshRow -> RowRecord]
  BY <1>1, <1>2
<1> QED
  BY <1>1, <1>2, <1>3, <1>4, <1>5, <1>6, RowAppears

(* The row that is rotated is in no answer: whoever refreshes has it from  *)
(* the cookies.                                                            *)
LEMMA ServeRefreshKeeps ==
    ASSUME BrowserInv, NEW b \in Tab, NEW t \in RefreshRow, ServeRefresh(b, t)
    PROVE  BrowserInv'
<1> DEFINE k == call[b].token
           rec == AnsweredCall(call[b].op, "set", t)
<1>1. /\ row \in [RefreshRow -> RowRecord] /\ call \in [Tab -> CallRecord]
      /\ call[b].op \in Ops
  BY DEF BrowserInv, BrowserTypeOK, CallRecord
<1>2. /\ call[b].pc = "sent" /\ row[t].state = "UNUSED"
      /\ k \in RefreshRow /\ row[k].state = "LIVE" /\ k # t
      /\ call' = [call EXCEPT ![b] = rec] /\ UNCHANGED <<jar, active, strayed>>
  BY DEF ServeRefresh, Sent, Answered, AnsweredCall, LiveRow
<1>3. rec \in CallRecord /\ rec.pc = "answered" /\ rec.new = t /\ rec.token = NoRow
      /\ rec.cookies = "set"
  BY <1>1, AnsweredTyped
<1> HIDE DEF rec
<1>4. call'[b] = rec /\ (\A c \in Tab \ {b} : call'[c] = call[c])
      /\ call' \in [Tab -> CallRecord]
  BY <1>1, <1>2, <1>3
<1> DEFINE ended == [row[k] EXCEPT !.state = "GONE"]
<1>5. /\ ended \in RowRecord /\ ended.state = "GONE" /\ ended.login = row[k].login
      /\ ended.here = row[k].here
  BY <1>1, <1>2 DEF RowRecord
<1>6. row' = [row EXCEPT ![t] = row[k], ![k] = ended]
  BY <1>1, <1>2 DEF ServeRefresh
<1> HIDE DEF ended
<1>7. /\ row'[t] = row[k] /\ row'[k] = ended
      /\ \A u \in RefreshRow \ {t, k} : row'[u] = row[u]
  BY <1>1, <1>2, <1>6
<1>8. row' \in [RefreshRow -> RowRecord]
  BY <1>1, <1>2, <1>5, <1>6
<1>9. \A u \in RefreshRow \ {k} : row[u].state = "LIVE" => row[u].login # row[k].login
  BY <1>2 DEF BrowserInv, OneLiveRow, LiveRows, LiveRow
<1>10. \A c \in Tab : call[c].new # NoRow => row[call[c].new].login # row[k].login
  BY <1>2 DEF BrowserInv, AnswersNewest, LiveRows, LiveRow
<1>11. Used(row[k].login)
  BY <1>2 DEF BrowserInv, RowsKnown, Used
<1>12. \A u \in RefreshRow \ {t} :
          /\ row'[u].login = row[u].login /\ row'[u].here = row[u].here
          /\ row'[u].state = "UNUSED" <=> row[u].state = "UNUSED"
          /\ row'[u].state = "LIVE" => row[u].state = "LIVE" /\ row[u].login # row'[t].login
  <2> SUFFICES ASSUME NEW u \in RefreshRow \ {t}
               PROVE  /\ row'[u].login = row[u].login /\ row'[u].here = row[u].here
                      /\ row'[u].state = "UNUSED" <=> row[u].state = "UNUSED"
                      /\ row'[u].state = "LIVE" =>
                            row[u].state = "LIVE" /\ row[u].login # row'[t].login
    OBVIOUS
  <2>1. CASE u = k
    BY <1>2, <1>5, <1>7, <2>1
  <2>2. CASE u # k
    BY <1>7, <1>9, <2>2
  <2> QED
    BY <2>1, <2>2
<1> QED
  BY <1>2, <1>3, <1>4, <1>7, <1>8, <1>10, <1>11, <1>12, RowAppears

LEMMA RowsRevokedKeeps ==
    ASSUME BrowserInv,
           \/ \E b \in Tab : \/ ServeLogout(b) \/ ServeRevokeOthers(b) \/ ServeRevokeAll(b)
                             \/ ServeFails(b)
                             \/ \E t \in RefreshRow : ServeRevokeOne(b, t)
           \/ \E t \in RefreshRow : SessionRunsOut(t) \/ OtherEnds(t)
           \/ \E on \in BOOLEAN : SetActive(on)
    PROVE  BrowserInv'
<1>1. /\ call \in [Tab -> CallRecord] /\ \A b \in Tab : call[b].op \in Ops
      /\ row \in [RefreshRow -> RowRecord] /\ jar \in JarRecord /\ active \in BOOLEAN
  BY DEF BrowserInv, BrowserTypeOK, CallRecord
<1>2. ASSUME NEW b \in Tab, NEW cookies \in {"keep", "clear", "clearTokens", "clearHost"},
             Answered(b, cookies, NoRow), call[b].pc = "sent", NEW S, EndRows(S),
             cookies = "keep" \/ call[b].op \in Guarded,
             UNCHANGED <<jar, active, strayed>>
      PROVE  BrowserInv'
  <2> DEFINE rec == AnsweredCall(call[b].op, cookies, NoRow)
  <2>1. call' = [call EXCEPT ![b] = rec]
    BY <1>2 DEF Answered, AnsweredCall
  <2>2. rec \in CallRecord /\ rec.token = NoRow /\ rec.new = NoRow /\ rec.cookies = cookies
        /\ rec.op = call[b].op
    BY <1>1, AnsweredTyped
  <2> HIDE DEF rec
  <2> QED
    BY <1>1, <1>2, <2>1, <2>2, RowsEnd
<1>3. ASSUME NEW b \in Tab,
             \/ ServeLogout(b) \/ ServeRevokeOthers(b) \/ ServeRevokeAll(b)
             \/ \E t \in RefreshRow : ServeRevokeOne(b, t)
      PROVE  BrowserInv'
  BY <1>2, <1>3
     DEF ServeLogout, ServeRevokeOthers, ServeRevokeAll, ServeRevokeOne, Sent, Guarded
<1>4. ASSUME NEW b \in Tab, ServeFails(b) PROVE BrowserInv'
  <2>1. EndRows({})
    BY <1>1, <1>4 DEF ServeFails, EndRows
  <2> QED
    BY <1>2, <1>4, <2>1 DEF ServeFails
<1>5. ASSUME NEW t \in RefreshRow, SessionRunsOut(t) \/ OtherEnds(t) PROVE BrowserInv'
  <2>1. /\ jar' \in JarRecord
        /\ \/ jar'.refresh = jar.refresh
           \/ jar'.refresh = NoRow /\ jar.refresh \in {t}
    BY <1>1, <1>5 DEF SessionRunsOut, OtherEnds, JarRecord
  <2> QED
    BY <1>1, <1>5, <2>1, RowsEnd DEF SessionRunsOut, OtherEnds
<1>6. ASSUME NEW on \in BOOLEAN, SetActive(on) PROVE BrowserInv'
  BY <1>1, <1>6, RowsEnd DEF SetActive
<1> QED
  BY <1>3, <1>4, <1>5, <1>6

LEMMA AccessRunsOutKeeps ==
    ASSUME BrowserInv, AccessRunsOut
    PROVE  BrowserInv'
<1>1. jar' \in JarRecord /\ jar'.refresh = jar.refresh
      /\ UNCHANGED <<row, call, active, strayed>>
  BY DEF AccessRunsOut, BrowserInv, BrowserTypeOK, JarRecord
<1> QED
  BY <1>1 DEF BrowserInv, BrowserTypeOK, RowsKnown, AnswersFormed, OneLiveRow, AnswersNewest,
              SessionsReachable, LiveRows, LiveRow, Used

(* A request is forgotten, its answer taken up or lost: what was in it or  *)
(* in the cookies stays in the cookies, or its login has strayed.          *)
LEMMA CallEnds ==
    ASSUME BrowserInv, NEW b \in Tab, call' = [call EXCEPT ![b] = NoCall],
           UNCHANGED <<row, active>>, jar' \in JarRecord,
           strayed \subseteq strayed', strayed' \in SUBSET RefreshRow,
           jar'.refresh \in {jar.refresh, NoRow, call[b].new},
           call[b].new = NoRow \/ jar'.refresh = call[b].new \/ LoginOf(call[b].new) \in strayed',
           \/ jar'.refresh = jar.refresh \/ jar.refresh = NoRow
           \/ LoginOf(jar.refresh) \in strayed'
           \/ call[b].new # NoRow /\ LoginOf(call[b].new) = LoginOf(jar.refresh)
    PROVE  BrowserInv'
<1>1. /\ call \in [Tab -> CallRecord]
      /\ jar.refresh \in RefreshRow \cup {NoRow} /\ call[b].new \in RefreshRow \cup {NoRow}
  BY DEF BrowserInv, BrowserTypeOK, CallRecord, JarRecord
<1>2. call'[b] = NoCall /\ \A c \in Tab \ {b} : call'[c] = call[c]
  BY <1>1
<1>3. BrowserTypeOK'
  BY <1>1, BrowserRecords DEF BrowserInv, BrowserTypeOK
<1>4. RowsKnown'
  BY <1>2, BrowserRecords DEF BrowserInv, RowsKnown, Used
<1>5. AnswersFormed' /\ OneLiveRow'
  BY <1>2, BrowserRecords DEF BrowserInv, AnswersFormed, OneLiveRow, LiveRows, LiveRow
<1>6. AnswersNewest'
  <2> SUFFICES ASSUME NEW c \in Tab, call'[c].new # NoRow
               PROVE  /\ jar'.refresh # call'[c].new
                      /\ \A d \in Tab : /\ call'[d].token # call'[c].new
                                        /\ d # c => call'[d].new # call'[c].new
                      /\ \A t \in LiveRows : row[t].login = row[call'[c].new].login
                                                => t = call'[c].new
    BY DEF AnswersNewest, LiveRows, LiveRow
  <2>1. c # b /\ call'[c] = call[c] /\ call[c].new # NoRow
    BY <1>2, BrowserRecords
  <2> QED
    BY <1>2, <2>1, BrowserRecords DEF BrowserInv, AnswersNewest
<1>7. SessionsReachable'
  <2> SUFFICES ASSUME NEW t \in RefreshRow, row[t].state = "LIVE", row[t].here,
                      row[t].login \notin strayed'
               PROVE  \/ jar'.refresh = t
                      \/ \E c \in Tab : call'[c].pc = "answered" /\ call'[c].new = t
    BY DEF SessionsReachable, LiveRow
  <2>1. t # NoRow /\ LoginOf(t) = row[t].login
    BY BrowserAssumption DEF LoginOf
  <2>2. ASSUME NEW c \in Tab, call[c].pc = "answered", call[c].new = t
        PROVE  \/ jar'.refresh = t
               \/ \E d \in Tab : call'[d].pc = "answered" /\ call'[d].new = t
    BY <1>2, <2>1, <2>2
  <2>3. CASE jar.refresh = t
    <3>1. CASE call[b].new # NoRow /\ LoginOf(call[b].new) = LoginOf(jar.refresh)
      <4>1. t = call[b].new
        BY <2>1, <2>3, <3>1 DEF BrowserInv, AnswersNewest, LiveRows, LiveRow, LoginOf
      <4> QED
        BY <2>3, <3>1, <4>1 DEF BrowserInv, AnswersNewest
    <3> QED
      BY <2>1, <2>3, <3>1
  <2> QED
    BY <2>2, <2>3 DEF BrowserInv, SessionsReachable, LiveRow
<1> QED
  BY <1>3, <1>4, <1>5, <1>6, <1>7 DEF BrowserInv

LEMMA ReceiveKeeps ==
    ASSUME BrowserInv, NEW b \in Tab, Receive(b)
    PROVE  BrowserInv'
<1> DEFINE c == call[b]
<1>1. /\ c \in CallRecord /\ jar \in JarRecord /\ row \in [RefreshRow -> RowRecord]
      /\ strayed \in SUBSET RefreshRow /\ jar.refresh \in RefreshRow \cup {NoRow}
      /\ c.new \in RefreshRow \cup {NoRow}
  BY DEF BrowserInv, BrowserTypeOK, CallRecord, JarRecord
<1>2. /\ c.pc = "answered" /\ jar' = JarAfter(c) /\ strayed' = strayed \cup LeftBehind(c)
      /\ call' = [call EXCEPT ![b] = NoCall] /\ UNCHANGED <<row, active>>
  BY DEF Receive
<1>3. c.new # NoRow <=> c.cookies = "set"
  BY <1>2 DEF BrowserInv, AnswersFormed
<1>4. c.cookies \in {"clear", "clearTokens", "clearHost"} => c.op \in Guarded
  BY DEF BrowserInv, AnswersFormed
<1>5. /\ JarAfter(c) \in JarRecord
      /\ c.cookies = "set" => JarAfter(c).refresh = c.new
      /\ c.cookies # "set" =>
            \/ JarAfter(c) = jar
            \/ JarAfter(c).refresh = NoRow /\ c.op \in Guarded
  <2>1. CASE c.cookies = "set"
    <3>1. (jar.flag \/ c.op # "refresh") \in BOOLEAN
      OBVIOUS
    <3>2. JarAfter(c) = [access |-> TRUE, refresh |-> c.new, flag |-> jar.flag \/ c.op # "refresh"]
      BY <2>1 DEF JarAfter
    <3> QED
      BY <1>1, <2>1, <3>1, <3>2 DEF JarRecord
  <2>2. CASE c.cookies = "clear"
    BY <1>4, <2>2, BrowserRecords DEF JarAfter
  <2>3. CASE c.cookies \in {"clearTokens", "clearHost"}
    <3>1. /\ [EmptyJar EXCEPT !.flag = jar.flag] \in JarRecord
          /\ [EmptyJar EXCEPT !.flag = jar.flag].refresh = NoRow
      BY <1>1 DEF EmptyJar, JarRecord
    <3>2. JarAfter(c) \in {jar, [EmptyJar EXCEPT !.flag = jar.flag]}
      BY <2>3 DEF JarAfter
    <3> QED
      BY <1>1, <1>4, <2>3, <3>1, <3>2
  <2>4. CASE c.cookies = "keep"
    BY <1>1, <2>4 DEF JarAfter
  <2> QED
    BY <1>1, <2>1, <2>2, <2>3, <2>4 DEF CallRecord
<1>6. LeftBehind(c) \in SUBSET RefreshRow
  BY <1>1 DEF LeftBehind, LoginOf, RowRecord
<1>7. \/ jar'.refresh = jar.refresh \/ jar.refresh = NoRow
      \/ LoginOf(jar.refresh) \in strayed'
      \/ c.new # NoRow /\ LoginOf(c.new) = LoginOf(jar.refresh)
  <2> SUFFICES ASSUME jar'.refresh # jar.refresh, jar.refresh # NoRow,
                      ~(c.new # NoRow /\ LoginOf(c.new) = LoginOf(jar.refresh))
               PROVE  LoginOf(jar.refresh) \in LeftBehind(c)
    BY <1>2
  <2>1. LoginOf(jar.refresh) \in RefreshRow /\ LoginOf(jar.refresh) # NoRow
    BY <1>1, BrowserAssumption DEF BrowserInv, RowsKnown, Used, LoginOf
  <2>2. c.cookies = "set" \/ c.op \in Guarded
    BY <1>2, <1>5
  <2>3. LoginOf(JarAfter(c).refresh) # LoginOf(jar.refresh)
    BY <1>2, <1>3, <1>5, <2>1 DEF LoginOf
  <2> QED
    BY <2>1, <2>2, <2>3 DEF LeftBehind
<1>8. /\ jar'.refresh \in {jar.refresh, NoRow, c.new}
      /\ c.new = NoRow \/ jar'.refresh = c.new
  BY <1>2, <1>3, <1>5
<1> QED
  BY <1>1, <1>2, <1>5, <1>6, <1>7, <1>8, CallEnds

LEMMA LoseCallKeeps ==
    ASSUME BrowserInv, NEW b \in Tab, LoseCall(b)
    PROVE  BrowserInv'
<1>1. /\ call[b].new \in RefreshRow \cup {NoRow} /\ row \in [RefreshRow -> RowRecord]
      /\ strayed \in SUBSET RefreshRow /\ jar \in JarRecord
  BY DEF BrowserInv, BrowserTypeOK, CallRecord
<1>2. /\ strayed' = strayed \cup ({LoginOf(call[b].new)} \ {NoRow})
      /\ call' = [call EXCEPT ![b] = NoCall] /\ UNCHANGED <<jar, row, active>>
  BY DEF LoseCall
<1>3. strayed' \in SUBSET RefreshRow
  BY <1>1, <1>2 DEF LoginOf, RowRecord
<1>4. call[b].new # NoRow => LoginOf(call[b].new) \in strayed'
  BY <1>2, BrowserAssumption DEF BrowserInv, RowsKnown, Used, LoginOf
<1> QED
  BY <1>1, <1>2, <1>3, <1>4, CallEnds

LEMMA BrowserInductive == BrowserInv /\ [BrowserNext]_browserVars => BrowserInv'
<1> SUFFICES ASSUME BrowserInv, [BrowserNext]_browserVars PROVE BrowserInv'
  OBVIOUS
<1>1. CASE UNCHANGED browserVars
  BY <1>1 DEF browserVars, BrowserInv, BrowserTypeOK, RowsKnown, AnswersFormed, OneLiveRow,
              AnswersNewest, SessionsReachable, LiveRows, LiveRow, Used
<1> QED
  BY <1>1, SendCallKeeps, SignInKeeps, ServeRefreshKeeps, RowsRevokedKeeps, ReceiveKeeps,
     LoseCallKeeps, AccessRunsOutKeeps, OtherSignInKeeps
     DEF BrowserNext

(* A session that a tab opened stays within the reach of the browser, in   *)
(* whatever order the requests of its tabs are served and answered, unless *)
(* its answer was lost or its cookies were replaced or cleared.            *)
THEOREM SessionsSafety == BrowserSpec => []SessionsReachable
<1>1. BrowserInv => SessionsReachable
  BY DEF BrowserInv
<1> QED
  BY <1>1, BrowserInvInit, BrowserInductive, PTL DEF BrowserSpec

-----------------------------------------------------------------------------
(* The refinement of LoginSessions.  Rows of a login end, a login gets its *)
(* first row, or a row takes the place of another of its login.            *)

LEMMA LoginMembers ==
    ASSUME NEW x
    PROVE  /\ x \in LiveLogins <=>
                  \E t \in RefreshRow : row[t].state = "LIVE" /\ row[t].login = x
           /\ x \in LiveLogins' <=>
                  \E t \in RefreshRow : row'[t].state = "LIVE" /\ row'[t].login = x
           /\ x \in KnownLogins <=>
                  \E t \in RefreshRow : row[t].state # "UNUSED" /\ row[t].login = x
           /\ x \in KnownLogins' <=>
                  \E t \in RefreshRow : row'[t].state # "UNUSED" /\ row'[t].login = x
BY DEF LiveLogins, KnownLogins, LiveRows, LiveRow

LEMMA LiveKnown == LiveLogins \subseteq KnownLogins
BY DEF LiveLogins, KnownLogins, LiveRows, LiveRow

LEMMA EndRowsCloses ==
    ASSUME BrowserTypeOK, NEW S, EndRows(S)
    PROVE  KnownLogins' = KnownLogins /\ LiveLogins' \subseteq LiveLogins
<1>1. ASSUME NEW t \in RefreshRow
      PROVE  /\ row'[t].login = row[t].login
             /\ row'[t].state # "UNUSED" <=> row[t].state # "UNUSED"
             /\ row'[t].state = "LIVE" => row[t].state = "LIVE"
  BY DEF EndRows, LiveRow, BrowserTypeOK, RowRecord
<1> QED
  BY <1>1, LoginMembers

LEMMA SignInOpens ==
    ASSUME BrowserInv, NEW t \in RefreshRow, NEW here \in BOOLEAN, row[t].state = "UNUSED",
           row' = [row EXCEPT ![t] = [state |-> "LIVE", login |-> t, here |-> here]]
    PROVE  Logins!Open(t)
<1>1. ASSUME NEW n \in RefreshRow
      PROVE  row'[n] = IF n = t THEN [state |-> "LIVE", login |-> t, here |-> here] ELSE row[n]
  BY DEF BrowserInv, BrowserTypeOK
<1>2. t \notin KnownLogins
  BY LoginMembers DEF BrowserInv, RowsKnown, Used
<1>3. LiveLogins' = LiveLogins \cup {t}
  BY <1>1, LoginMembers
<1>4. KnownLogins' = KnownLogins \cup {t}
  BY <1>1, LoginMembers
<1> QED
  BY <1>2, <1>3, <1>4, LiveKnown DEF Logins!Open

LEMMA RefreshStutters ==
    ASSUME BrowserInv, NEW b \in Tab, NEW t \in RefreshRow, ServeRefresh(b, t)
    PROVE  UNCHANGED <<LiveLogins, KnownLogins>>
<1> DEFINE old == call[b].token
<1>1. /\ old \in RefreshRow /\ row[old].state = "LIVE" /\ row[t].state = "UNUSED"
      /\ row' = [row EXCEPT ![t] = row[old], ![old].state = "GONE"]
  BY DEF ServeRefresh, LiveRow
<1> HIDE DEF old
<1>2. /\ t # old /\ row'[t] = row[old]
      /\ row'[old].state = "GONE" /\ row'[old].login = row[old].login
      /\ \A n \in RefreshRow \ {t, old} : row'[n] = row[n]
  BY <1>1 DEF BrowserInv, BrowserTypeOK, RowRecord
<1>3. ASSUME NEW n \in RefreshRow, row[n].state # "UNUSED"
      PROVE  \E m \in RefreshRow :
                /\ row'[m].login = row[n].login /\ row'[m].state # "UNUSED"
                /\ row[n].state = "LIVE" => row'[m].state = "LIVE"
  <2>1. CASE n = old
    BY <1>1, <1>2, <2>1
  <2>2. CASE n # old
    BY <1>1, <1>2, <1>3, <2>2
  <2> QED
    BY <2>1, <2>2
<1>4. ASSUME NEW n \in RefreshRow
      PROVE  \E m \in RefreshRow :
                /\ row'[n].login = row[m].login
                /\ row'[n].state = "LIVE" => row[m].state = "LIVE"
                /\ row'[n].state # "UNUSED" => row[m].state # "UNUSED"
  <2>1. CASE n = t \/ n = old
    BY <1>1, <1>2, <2>1
  <2>2. CASE n # old /\ n # t
    BY <1>2, <2>2
  <2> QED
    BY <2>1, <2>2
<1>5. ASSUME NEW x PROVE x \in LiveLogins' <=> x \in LiveLogins
  BY <1>3, <1>4, LoginMembers
<1>6. ASSUME NEW x PROVE x \in KnownLogins' <=> x \in KnownLogins
  BY <1>3, <1>4, LoginMembers
<1> QED
  BY <1>5, <1>6

LEMMA BrowserLogins ==
    ASSUME BrowserInv, [BrowserNext]_browserVars
    PROVE  [Logins!Next]_<<LiveLogins, KnownLogins \ LiveLogins>>
<1>1. ASSUME UNCHANGED row
      PROVE  UNCHANGED <<LiveLogins, KnownLogins>>
  BY <1>1 DEF LiveLogins, KnownLogins, LiveRows, LiveRow
<1>2. ASSUME NEW S, EndRows(S)
      PROVE  [Logins!Next]_<<LiveLogins, KnownLogins \ LiveLogins>>
  <2>1. KnownLogins' = KnownLogins /\ LiveLogins' \subseteq LiveLogins
    BY <1>2, EndRowsCloses DEF BrowserInv
  <2>2. PICK closed \in SUBSET LiveLogins : closed = LiveLogins \ LiveLogins'
    OBVIOUS
  <2>3. CASE closed = {}
    BY <2>1, <2>2, <2>3
  <2>4. CASE closed # {}
    <3>1. Logins!Close(closed)
      BY <2>1, <2>2, <2>4, LiveKnown DEF Logins!Close
    <3> QED
      BY <3>1 DEF Logins!Next
  <2> QED
    BY <2>3, <2>4
<1>3. ASSUME NEW t \in RefreshRow,
             OtherSignIn(t) \/ \E b \in Tab : ServeLogin(b, t) \/ ServeOAuth(b, t)
      PROVE  Logins!Next
  <2>1. PICK here \in BOOLEAN :
          /\ row[t].state = "UNUSED"
          /\ row' = [row EXCEPT ![t] = [state |-> "LIVE", login |-> t, here |-> here]]
    BY <1>3 DEF OtherSignIn, ServeLogin, ServeOAuth, SignIn
  <2> QED
    BY <2>1, SignInOpens DEF Logins!Next
<1>4. ASSUME NEW b \in Tab,
             \/ \E op \in Ops : SendCall(b, op)
             \/ ServeFails(b) \/ Receive(b) \/ LoseCall(b)
      PROVE  UNCHANGED row
  BY <1>4 DEF SendCall, ServeFails, Receive, LoseCall
<1>5. ASSUME NEW b \in Tab,
             \/ \E t \in RefreshRow : ServeRevokeOne(b, t)
             \/ ServeLogout(b) \/ ServeRevokeOthers(b) \/ ServeRevokeAll(b)
      PROVE  \E S : EndRows(S)
  BY <1>5 DEF ServeRevokeOne, ServeLogout, ServeRevokeOthers, ServeRevokeAll
<1>6. ASSUME \/ \E t \in RefreshRow : SessionRunsOut(t) \/ OtherEnds(t)
             \/ \E on \in BOOLEAN : SetActive(on)
      PROVE  \E S : EndRows(S)
  BY <1>6 DEF SessionRunsOut, OtherEnds, SetActive
<1>7. CASE UNCHANGED browserVars \/ AccessRunsOut
  BY <1>1, <1>7 DEF browserVars, AccessRunsOut
<1> QED
  BY <1>1, <1>2, <1>3, <1>4, <1>5, <1>6, <1>7, RefreshStutters DEF BrowserNext

(* A login, once ended, is never open again, however the requests of the   *)
(* tabs and the answers to them overlap: what Accounts keeps over the      *)
(* steps inside a request, Browser keeps over the order of the answers.    *)
THEOREM LoginsImplemented == BrowserSpec => LoginsPromised
<1>1. BrowserInit => Logins!Init
  <2> SUFFICES ASSUME BrowserInit PROVE Logins!Init
    OBVIOUS
  <2>1. \A t \in RefreshRow : row[t].state = "UNUSED"
    BY BrowserRecords DEF BrowserInit
  <2>2. LiveLogins = {} /\ KnownLogins = {}
    BY <2>1, LoginMembers
  <2> QED
    BY <2>2 DEF Logins!Init
<1> QED
  BY <1>1, BrowserLogins, BrowserInvInit, BrowserInductive, PTL
     DEF BrowserSpec, LoginsPromised, Logins!Spec

-----------------------------------------------------------------------------
(* The cache.  What is said of an entry is said of those that are there    *)
(* and not excused.                                                        *)

FreshEntry(v) == v \in View /\ cached[v].there /\ v \notin excused
Sharing(u, v) == TagsOf(u) \cap TagsOf(v) # {}
Busted(v) == \E b \in Buster : buster[b].todo \cap TagsOf(v) # {}

WorkFormed ==
    /\ \A f \in Filler :
          /\ Appending(f) => filler[f].todo \subseteq TagsOf(filler[f].view)
          /\ filler[f].pc = "append" => filler[f].tag \in filler[f].todo
          /\ filler[f].pc = "set" /\ filler[f].stale => filler[f].overlap
    /\ \A b \in Buster :
          /\ buster[b].pc \in {"entries", "list"} => buster[b].tag \in buster[b].todo
          /\ buster[b].pc = "idle" => buster[b].todo = {}
    /\ \A v \in View : cached[v].stale => cached[v].there
    /\ \A t \in Tag : listed[t].left = 0 => listed[t].keys = {}

(* Of two fillings with a tag in common both know of it: what one has not  *)
(* stored it will excuse, and what it has stored is excused.               *)
FillersApart ==
    \A f, g \in Filler :
        f # g /\ Filling(f) /\ Filling(g) /\ Sharing(filler[f].view, filler[g].view) =>
            /\ Storing(f) => filler[f].overlap
            /\ Appending(f) => filler[f].view \in excused

(* So does a filling that meets an invalidation of one of its tags.        *)
BustsApart ==
    \A f \in Filler :
        Filling(f) /\ Busted(filler[f].view) =>
            /\ Storing(f) => filler[f].overlap
            /\ Appending(f) => filler[f].view \in excused

(* An entry is in the list of each of its tags, or about to be.            *)
KeysListed ==
    \A v \in View, t \in Tag :
        FreshEntry(v) /\ t \in TagsOf(v) =>
            \/ v \in listed[t].keys
            \/ \E f \in Filler : Appending(f) /\ filler[f].view = v /\ t \in filler[f].todo

(* A list that was read has every entry of its tag that is still there,    *)
(* and none is left when the list goes.                                    *)
KeysRead ==
    /\ \A f \in Filler, v \in View :
          filler[f].pc = "append" /\ FreshEntry(v) /\ filler[f].tag \in TagsOf(v) =>
             /\ v \in filler[f].keys \/ v = filler[f].view
             /\ v = filler[f].view /\ v \in filler[f].keys =>
                   v \in listed[filler[f].tag].keys
    /\ \A b \in Buster, v \in View :
          FreshEntry(v) /\ buster[b].tag \in TagsOf(v) =>
             /\ buster[b].pc = "entries" => v \in buster[b].keys
             /\ buster[b].pc # "list"

StaleLeaves == \A v \in View : cached[v].stale => v \in excused \/ Busted(v)

CachesInv ==
    CachesTypeOK /\ WorkFormed /\ FillersApart /\ BustsApart /\ KeysListed /\ KeysRead
        /\ StaleLeaves

LEMMA TagsTyped ==
    /\ \A v \in View : TagsOf(v) \subseteq Tag /\ TagsOf(v) # {}
    /\ AnyTag \in Tag /\ (CHOOSE v \in View : TRUE) \in View
<1>1. \A v \in View : TagsOf(v) \subseteq Tag
  BY DEF Tag
<1>2. \A v \in View : TagsOf(v) # {}
  BY CachesAssumption DEF TagsOf, AllViews
<1>3. \E t : t \in Tag
  BY <1>1, <1>2, CachesAssumption
<1> QED
  BY <1>1, <1>2, <1>3, CachesAssumption DEF AnyTag

LEMMA CacheRecords ==
    /\ NotCached \in CachedRecord /\ ~NotCached.there /\ ~NotCached.stale
    /\ NotListed \in ListedRecord /\ NotListed.keys = {} /\ NotListed.left = 0
    /\ NoFiller \in FillerRecord /\ NoFiller.pc = "idle" /\ ~NoFiller.stale /\ NoFiller.todo = {}
    /\ NoBuster \in BusterRecord /\ NoBuster.pc = "idle" /\ NoBuster.todo = {}
<1>1. 0 \in 0..Ttl /\ 0 \in 0..2 * Ttl
  BY CachesAssumption
<1>2. /\ NotCached \in CachedRecord /\ ~NotCached.there /\ ~NotCached.stale
      /\ NotListed \in ListedRecord /\ NotListed.keys = {} /\ NotListed.left = 0
  BY <1>1 DEF NotCached, NotListed, CachedRecord, ListedRecord
<1>3. /\ NoFiller \in FillerRecord /\ NoFiller.pc = "idle" /\ ~NoFiller.stale
      /\ NoFiller.todo = {}
  BY TagsTyped DEF NoFiller, FillerRecord
<1>4. NoBuster \in BusterRecord /\ NoBuster.pc = "idle" /\ NoBuster.todo = {}
  BY TagsTyped DEF NoBuster, BusterRecord
<1> QED
  BY <1>2, <1>3, <1>4

LEMMA CachesInvInit == CachesInit => CachesInv
<1> SUFFICES ASSUME CachesInit PROVE CachesInv
  OBVIOUS
<1>1. CachesTypeOK
  BY CacheRecords DEF CachesInit, CachesTypeOK
<1>2. /\ \A f \in Filler : filler[f].pc = "idle"
      /\ \A b \in Buster : buster[b].pc = "idle" /\ buster[b].todo = {}
      /\ \A v \in View : ~cached[v].there /\ ~cached[v].stale
      /\ \A t \in Tag : listed[t].keys = {}
  BY CacheRecords DEF CachesInit
<1>3. WorkFormed /\ FillersApart /\ BustsApart /\ KeysListed
  BY <1>2 DEF WorkFormed, FillersApart, BustsApart, KeysListed, FreshEntry, Filling, Appending
<1>4. KeysRead /\ StaleLeaves
  BY <1>2 DEF KeysRead, StaleLeaves, FreshEntry
<1> QED
  BY <1>1, <1>3, <1>4 DEF CachesInv

(* Entries and reasons change while every filling and invalidation stays   *)
(* where it is, or goes no further than to know of another: no entry       *)
(* appears, and none is excused no more.                                   *)
LEMMA EntriesFade ==
    ASSUME CachesInv, CachesTypeOK', excused \subseteq excused',
           \A v \in View : /\ cached'[v].there => cached[v].there
                           /\ cached'[v].stale => cached'[v].there
                           /\ cached'[v].stale => cached[v].stale \/ v \in excused' \/ Busted(v)',
           \A f \in Filler :
              \/ filler'[f].pc = "idle" /\ (Appending(f) => filler[f].view \in excused')
              \/ /\ \/ filler'[f].pc = filler[f].pc
                    \/ filler[f].pc = "load" /\ filler'[f].pc = "set"
                 /\ filler'[f].view = filler[f].view
                 /\ filler'[f].todo = filler[f].todo /\ filler'[f].tag = filler[f].tag
                 /\ filler'[f].keys = filler[f].keys
                 /\ filler[f].overlap => filler'[f].overlap
                 /\ filler'[f].pc = "set" /\ filler'[f].stale =>
                       (filler[f].pc = "set" /\ filler[f].stale) \/ filler'[f].overlap,
           \A t \in Tag :
              \/ listed'[t].keys = listed[t].keys
                 /\ (listed'[t].left = 0 => listed[t].left = 0 \/ listed[t].keys = {})
              \/ listed'[t] = NotListed /\ \A v \in View : t \in TagsOf(v) => v \in excused',
           \A b \in Buster :
              \/ buster'[b] = buster[b]
              \/ /\ buster'[b].pc = "idle" /\ buster'[b].todo = {}
                 /\ \A v \in View : buster[b].todo \cap TagsOf(v) # {} => v \in excused'
              \/ /\ buster[b].pc = "idle" /\ buster'[b].pc = "read"
                 /\ \A f \in Filler : buster'[b].todo \cap TagsOf(filler[f].view) # {} =>
                       /\ Storing(f) => filler'[f].overlap
                       /\ Appending(f) => filler[f].view \in excused'
    PROVE  CachesInv'
<1>1. /\ \A f \in Filler : filler[f] \in FillerRecord /\ filler[f].view \in View
                           /\ filler[f].todo \subseteq Tag /\ filler[f].tag \in Tag
      /\ \A b \in Buster : buster[b].tag \in Tag /\ buster[b].todo \subseteq Tag
  BY DEF CachesInv, CachesTypeOK, FillerRecord, BusterRecord
<1>2. \A v \in View : FreshEntry(v)' => FreshEntry(v)
  BY DEF FreshEntry
<1>3. \A f \in Filler : /\ Filling(f)' => Filling(f) /\ filler'[f].view = filler[f].view
                        /\ Storing(f)' => Storing(f)
                        /\ Appending(f)' => Appending(f)
  BY DEF Filling, Storing, Appending
<1>4. WorkFormed'
  <2>1. \A f \in Filler :
           /\ Appending(f)' => filler'[f].todo \subseteq TagsOf(filler'[f].view)
           /\ filler'[f].pc = "append" => filler'[f].tag \in filler'[f].todo
           /\ filler'[f].pc = "set" /\ filler'[f].stale => filler'[f].overlap
    BY DEF CachesInv, WorkFormed, Appending
  <2>2. \A b \in Buster :
           /\ buster'[b].pc \in {"entries", "list"} => buster'[b].tag \in buster'[b].todo
           /\ buster'[b].pc = "idle" => buster'[b].todo = {}
    BY DEF CachesInv, WorkFormed
  <2>3. \A t \in Tag : listed'[t].left = 0 => listed'[t].keys = {}
    BY CacheRecords DEF CachesInv, WorkFormed
  <2> QED
    BY <2>1, <2>2, <2>3 DEF WorkFormed
<1>5. FillersApart'
  BY <1>3 DEF CachesInv, FillersApart, Filling, Storing, Appending
<1>6. BustsApart'
  <2> SUFFICES ASSUME NEW f \in Filler, Filling(f)', NEW b \in Buster,
                      buster'[b].todo \cap TagsOf(filler[f].view) # {}
               PROVE  /\ Storing(f) => filler'[f].overlap
                      /\ Appending(f) => filler[f].view \in excused'
    BY <1>3 DEF BustsApart, Busted
  <2>1. CASE buster'[b] = buster[b]
    <3>1. Busted(filler[f].view) /\ Filling(f)
      BY <1>3, <2>1 DEF Busted
    <3> QED
      BY <3>1 DEF CachesInv, BustsApart, Filling
  <2> QED
    BY <2>1
<1>7. KeysListed'
  <2> SUFFICES ASSUME NEW v \in View, NEW t \in Tag, FreshEntry(v)', t \in TagsOf(v)
               PROVE  \/ v \in listed'[t].keys
                      \/ \E f \in Filler : Appending(f)' /\ filler'[f].view = v
                                           /\ t \in filler'[f].todo
    BY DEF KeysListed
  <2>1. v \notin excused' /\ FreshEntry(v)
    BY <1>2 DEF FreshEntry
  <2>2. CASE v \in listed[t].keys
    BY <2>1, <2>2
  <2>3. ASSUME NEW f \in Filler, Appending(f), filler[f].view = v, t \in filler[f].todo
        PROVE  Appending(f)' /\ filler'[f].view = v /\ t \in filler'[f].todo
    BY <2>1, <2>3 DEF Appending
  <2> QED
    BY <2>1, <2>2, <2>3 DEF CachesInv, KeysListed
<1>8. KeysRead'
  <2>1. ASSUME NEW f \in Filler, NEW v \in View, filler'[f].pc = "append",
               FreshEntry(v)', filler'[f].tag \in TagsOf(v)
        PROVE  /\ v \in filler'[f].keys \/ v = filler'[f].view
               /\ v = filler'[f].view /\ v \in filler'[f].keys =>
                     v \in listed'[filler'[f].tag].keys
    <3>1. /\ filler[f].pc = "append" /\ filler'[f].view = filler[f].view
          /\ filler'[f].tag = filler[f].tag /\ filler'[f].keys = filler[f].keys
      BY <2>1
    <3>2. FreshEntry(v) /\ v \notin excused' /\ filler[f].tag \in Tag
      BY <1>1, <1>2, <2>1 DEF FreshEntry
    <3>3. /\ v \in filler[f].keys \/ v = filler[f].view
          /\ v = filler[f].view /\ v \in filler[f].keys => v \in listed[filler[f].tag].keys
      BY <2>1, <3>1, <3>2 DEF CachesInv, KeysRead
    <3> QED
      BY <2>1, <3>1, <3>2, <3>3
  <2>2. ASSUME NEW b \in Buster, NEW v \in View, FreshEntry(v)', buster'[b].tag \in TagsOf(v)
        PROVE  /\ buster'[b].pc = "entries" => v \in buster'[b].keys
               /\ buster'[b].pc # "list"
    BY <1>2, <2>2 DEF CachesInv, KeysRead
  <2> QED
    BY <2>1, <2>2 DEF KeysRead
<1>9. StaleLeaves'
  <2> SUFFICES ASSUME NEW v \in View, cached'[v].stale, v \notin excused'
               PROVE  Busted(v)'
    BY DEF StaleLeaves
  <2>1. CASE Busted(v)
    <3>1. PICK b \in Buster : buster[b].todo \cap TagsOf(v) # {}
      BY <2>1 DEF Busted
    <3>2. buster'[b] = buster[b]
      BY <3>1 DEF CachesInv, WorkFormed
    <3> QED
      BY <3>1, <3>2 DEF Busted
  <2> QED
    BY <2>1 DEF CachesInv, StaleLeaves
<1> QED
  BY <1>4, <1>5, <1>6, <1>7, <1>8, <1>9 DEF CachesInv

LEMMA LoaderReadsKeeps ==
    ASSUME CachesInv, NEW f \in Filler, LoaderReads(f)
    PROVE  CachesInv'
<1>1. \A g \in Filler : filler[g] \in FillerRecord
  BY DEF CachesInv, CachesTypeOK
<1>2. /\ filler'[f].pc = "set" /\ filler'[f].view = filler[f].view /\ ~filler'[f].stale
      /\ filler'[f].todo = filler[f].todo /\ filler'[f].tag = filler[f].tag
      /\ filler'[f].keys = filler[f].keys /\ filler'[f].overlap = filler[f].overlap
      /\ filler[f].pc = "load" /\ filler'[f] \in FillerRecord
      /\ \A g \in Filler : g # f => filler'[g] = filler[g]
  BY <1>1 DEF LoaderReads, FillerRecord, CachesInv, CachesTypeOK
<1>3. CachesTypeOK'
  BY <1>2 DEF LoaderReads, CachesInv, CachesTypeOK
<1>4. \A v \in View : cached'[v] = cached[v] /\ (cached[v].stale => cached[v].there)
  BY DEF LoaderReads, CachesInv, WorkFormed
<1>5. \A g \in Filler :
         /\ \/ filler'[g].pc = filler[g].pc
            \/ filler[g].pc = "load" /\ filler'[g].pc = "set"
         /\ filler'[g].view = filler[g].view
         /\ filler'[g].todo = filler[g].todo /\ filler'[g].tag = filler[g].tag
         /\ filler'[g].keys = filler[g].keys /\ filler'[g].overlap = filler[g].overlap
         /\ filler'[g].pc = "set" /\ filler'[g].stale => filler[g].pc = "set" /\ filler[g].stale
  <2> TAKE g \in Filler
  <2>1. CASE g = f
    BY <1>2, <2>1
  <2>2. CASE g # f
    BY <1>2, <2>2
  <2> QED
    BY <2>1, <2>2
<1>6. listed' = listed /\ buster' = buster /\ excused' = excused
  BY DEF LoaderReads
<1> QED
  BY <1>3, <1>4, <1>5, <1>6, EntriesFade

LEMMA FillFailsKeeps ==
    ASSUME CachesInv, NEW f \in Filler, FillFails(f)
    PROVE  CachesInv'
<1>1. filler'[f].pc = "idle" /\ \A g \in Filler : g # f => filler'[g] = filler[g]
  BY CacheRecords DEF FillFails, CachesInv, CachesTypeOK
<1>2. CachesTypeOK'
  BY CacheRecords DEF FillFails, CachesInv, CachesTypeOK, FillerRecord
<1>3. \A v \in View : cached'[v] = cached[v] /\ (cached[v].stale => cached[v].there)
  BY DEF FillFails, CachesInv, WorkFormed
<1>4. listed' = listed /\ buster' = buster /\ excused \subseteq excused'
      /\ (Appending(f) => filler[f].view \in excused')
  BY DEF FillFails
<1> QED
  BY <1>1, <1>2, <1>3, <1>4, EntriesFade

LEMMA BustFailsKeeps ==
    ASSUME CachesInv, NEW b \in Buster, BustFails(b)
    PROVE  CachesInv'
<1>1. /\ buster'[b].pc = "idle" /\ buster'[b].todo = {}
      /\ \A d \in Buster : d # b => buster'[d] = buster[d]
  BY CacheRecords DEF BustFails, CachesInv, CachesTypeOK
<1>2. CachesTypeOK'
  BY CacheRecords DEF BustFails, CachesInv, CachesTypeOK
<1>3. \A v \in View : cached'[v] = cached[v] /\ (cached[v].stale => cached[v].there)
  BY DEF BustFails, CachesInv, WorkFormed
<1>4. /\ listed' = listed /\ filler' = filler /\ excused \subseteq excused'
      /\ \A v \in View : buster[b].todo \cap TagsOf(v) # {} => v \in excused'
  BY DEF BustFails
<1>5. \A v \in View : cached'[v].stale => cached[v].stale
  BY <1>3
<1> QED
  BY <1>1, <1>2, <1>3, <1>4, <1>5, EntriesFade

LEMMA TimePassesKeeps ==
    ASSUME CachesInv, TimePasses
    PROVE  CachesInv'
<1> DEFINE older(n) == IF n = 0 THEN 0 ELSE n - 1
<1>1. \A n \in Nat : older(n) \in Nat /\ older(n) <= n /\ (n > 1 => older(n) # 0)
  OBVIOUS
<1>2. ASSUME NEW v \in View
      PROVE  /\ cached'[v] \in CachedRecord
             /\ cached'[v].there => cached[v].there
             /\ cached'[v].stale => cached[v].stale /\ cached'[v].there
  <2>1. cached[v] \in CachedRecord /\ (cached[v].stale => cached[v].there)
    BY DEF CachesInv, CachesTypeOK, WorkFormed
  <2>2. cached'[v] = IF cached[v].left <= 1 THEN NotCached
                     ELSE [cached[v] EXCEPT !.left = older(cached[v].left)]
    BY DEF TimePasses
  <2>3. older(cached[v].left) \in 0..Ttl
    BY <2>1, CachesAssumption DEF CachedRecord
  <2> HIDE DEF older
  <2> QED
    BY <2>1, <2>2, <2>3, CacheRecords DEF CachedRecord
<1>3. ASSUME NEW t \in Tag
      PROVE  /\ listed'[t] \in ListedRecord
             /\ \/ /\ listed'[t].keys = listed[t].keys
                   /\ listed'[t].left = 0 => listed[t].left = 0 \/ listed[t].keys = {}
                \/ listed'[t] = NotListed /\ \A v \in View : t \in TagsOf(v) => v \in excused'
  <2>1. listed[t] \in ListedRecord /\ (listed[t].left = 0 => listed[t].keys = {})
    BY DEF CachesInv, CachesTypeOK, WorkFormed
  <2>2. listed'[t] = IF listed[t].left <= 1 THEN NotListed
                     ELSE [listed[t] EXCEPT !.left = older(listed[t].left)]
    BY DEF TimePasses
  <2>3. older(listed[t].left) \in 0..2 * Ttl /\ (listed[t].left > 1 => older(listed[t].left) # 0)
        /\ listed[t].left \in Nat
    BY <2>1, CachesAssumption DEF ListedRecord
  <2>4. listed[t].left = 1 => \A v \in View : t \in TagsOf(v) => v \in excused'
    BY DEF TimePasses
  <2> HIDE DEF older
  <2>5. CASE listed[t].left > 1
    <3>1. ~(listed[t].left <= 1)
      BY <2>3, <2>5
    <3>2. listed'[t] = [listed[t] EXCEPT !.left = older(listed[t].left)]
      BY <2>2, <3>1
    <3> QED
      BY <2>1, <2>3, <2>5, <3>2 DEF ListedRecord
  <2>6. CASE listed[t].left = 1
    BY <2>2, <2>4, <2>6, CacheRecords
  <2>7. CASE listed[t].left = 0
    <3>1. listed'[t] = NotListed
      BY <2>2, <2>7
    <3> QED
      BY <2>1, <2>7, <3>1, CacheRecords
  <2> QED
    BY <2>3, <2>5, <2>6, <2>7
<1>4. filler' = filler /\ buster' = buster /\ excused \subseteq excused' /\ excused' \subseteq View
  BY DEF TimePasses, CachesInv, CachesTypeOK
<1>5. CachesTypeOK'
  <2>1. cached' \in [View -> CachedRecord]
    BY <1>2 DEF TimePasses
  <2>2. listed' \in [Tag -> ListedRecord]
    BY <1>3 DEF TimePasses
  <2> QED
    BY <1>4, <2>1, <2>2 DEF CachesInv, CachesTypeOK
<1> QED
  BY <1>2, <1>3, <1>4, <1>5, EntriesFade

LEMMA WriteKeeps ==
    ASSUME CachesInv, NEW b \in Buster, NEW c \in Changes, Write(b, c)
    PROVE  CachesInv'
<1> DEFINE unheard == {v \in c.writes : TagsOf(v) \cap c.busts = {}}
           crossed == Overlapped(c.busts)
           late == {f \in Filler : filler[f].view \in c.writes /\ filler[f].pc = "set"}
           unheardLate == {f \in late : filler[f].view \in unheard}
           told == {f \in crossed \cup unheardLate : Storing(f)}
<1>1. c.writes \subseteq View /\ c.busts \subseteq Tag
  BY DEF Changes
<1>2. ASSUME NEW f \in Filler
      PROVE  /\ filler'[f] \in FillerRecord
             /\ filler'[f].pc = filler[f].pc /\ filler'[f].view = filler[f].view
             /\ filler'[f].todo = filler[f].todo /\ filler'[f].tag = filler[f].tag
             /\ filler'[f].keys = filler[f].keys
             /\ filler'[f].overlap = (filler[f].overlap \/ f \in told)
             /\ filler'[f].stale = (filler[f].stale \/ f \in late)
  <2>1. filler[f] \in FillerRecord
    BY DEF CachesInv, CachesTypeOK
  <2> DEFINE with == [filler[f] EXCEPT !.stale = filler[f].stale \/ f \in late]
  <2>2. filler'[f] = IF f \in told THEN [with EXCEPT !.overlap = TRUE] ELSE with
    BY DEF Write, Disturbed
  <2>3. /\ with \in FillerRecord
        /\ with.pc = filler[f].pc /\ with.view = filler[f].view /\ with.todo = filler[f].todo
        /\ with.tag = filler[f].tag /\ with.keys = filler[f].keys
        /\ with.overlap = filler[f].overlap /\ with.stale = (filler[f].stale \/ f \in late)
    BY <2>1 DEF FillerRecord
  <2> HIDE DEF with, told, late
  <2>4. CASE f \in told
    BY <2>1, <2>2, <2>3, <2>4 DEF FillerRecord
  <2>5. CASE f \notin told
    <3>1. filler'[f] = with
      BY <2>2, <2>5
    <3> QED
      BY <2>1, <2>3, <2>5, <3>1 DEF FillerRecord
  <2> QED
    BY <2>4, <2>5
<1>3. /\ excused' = excused \cup unheard
                     \cup {filler[f].view : f \in {x \in crossed : Appending(x)}}
      /\ listed' = listed
      /\ excused' \subseteq View
  BY <1>1 DEF Write, Overlapped, CachesInv, CachesTypeOK, FillerRecord
<1>4. /\ \A d \in Buster : d # b => buster'[d] = buster[d]
      /\ IF c.busts = {} THEN buster' = buster
         ELSE buster[b].pc = "idle" /\ buster'[b].pc = "read" /\ buster'[b].todo = c.busts
      /\ buster' \in [Buster -> BusterRecord]
  <2>1. [NoBuster EXCEPT !.pc = "read", !.todo = c.busts] \in BusterRecord
    BY <1>1, CacheRecords DEF NoBuster, BusterRecord
  <2> QED
    BY <2>1 DEF Write, CachesInv, CachesTypeOK, NoBuster
<1>5. ASSUME NEW v \in View
      PROVE  /\ cached'[v] \in CachedRecord
             /\ cached'[v].there = cached[v].there
             /\ cached'[v].stale => cached'[v].there
             /\ cached'[v].stale => cached[v].stale \/ v \in c.writes
  <2>1. cached[v] \in CachedRecord /\ (cached[v].stale => cached[v].there)
    BY DEF CachesInv, CachesTypeOK, WorkFormed
  <2>2. cached'[v] = IF v \in c.writes /\ cached[v].there
                     THEN [cached[v] EXCEPT !.stale = TRUE] ELSE cached[v]
    BY DEF Write, Outdated
  <2> QED
    BY <2>1, <2>2 DEF CachedRecord
<1>6. CachesTypeOK'
  <2>1. cached' \in [View -> CachedRecord]
    BY <1>5 DEF Write, Outdated
  <2>2. filler' \in [Filler -> FillerRecord]
    BY <1>2 DEF Write, Disturbed
  <2> QED
    BY <1>3, <1>4, <2>1, <2>2 DEF CachesInv, CachesTypeOK
<1>7. ASSUME NEW v \in View, cached'[v].stale
      PROVE  cached[v].stale \/ v \in excused' \/ Busted(v)'
  <2>1. CASE v \in unheard
    BY <1>3, <2>1
  <2>2. CASE v \in c.writes /\ v \notin unheard
    BY <1>4, <2>2 DEF Busted
  <2> QED
    BY <1>5, <1>7, <2>1, <2>2
<1>8. ASSUME NEW f \in Filler, filler'[f].pc = "set", filler'[f].stale
      PROVE  (filler[f].pc = "set" /\ filler[f].stale) \/ filler'[f].overlap
  <2>1. CASE f \in late
    <3>1. f \in crossed \cup unheardLate
      BY <2>1 DEF Overlapped, Filling
    <3> QED
      BY <1>2, <1>8, <3>1 DEF Storing
  <2> QED
    BY <1>2, <1>8, <2>1
<1>9. ASSUME NEW f \in Filler, c.busts \cap TagsOf(filler[f].view) # {}
      PROVE  /\ Storing(f) => filler'[f].overlap
             /\ Appending(f) => filler[f].view \in excused'
  <2>1. Filling(f) => f \in crossed
    BY <1>9 DEF Overlapped
  <2> QED
    BY <1>2, <1>3, <2>1 DEF Storing, Appending, Filling
<1> HIDE DEF unheard, crossed, late, unheardLate, told
<1>10. ASSUME NEW d \in Buster
       PROVE  \/ buster'[d] = buster[d]
              \/ /\ buster[d].pc = "idle" /\ buster'[d].pc = "read"
                 /\ \A f \in Filler : buster'[d].todo \cap TagsOf(filler[f].view) # {} =>
                       /\ Storing(f) => filler'[f].overlap
                       /\ Appending(f) => filler[f].view \in excused'
  BY <1>4, <1>9
<1> QED
  BY <1>2, <1>3, <1>5, <1>6, <1>7, <1>8, <1>10, EntriesFade

LEMMA BeginFillKeeps ==
    ASSUME CachesInv, NEW f \in Filler, NEW v \in View, BeginFill(f, v)
    PROVE  CachesInv'
<1> DEFINE others == Overlapped(TagsOf(v))
           rec == [NoFiller EXCEPT !.pc = "load", !.view = v,
                    !.overlap = (others # {} \/ BustsUnderWay(TagsOf(v)) # {})]
<1>1. /\ rec \in FillerRecord /\ rec.pc = "load" /\ rec.view = v
      /\ rec.overlap = (others # {} \/ BustsUnderWay(TagsOf(v)) # {})
      /\ ~rec.stale
  BY CacheRecords DEF NoFiller, FillerRecord
<1>2. filler[f].pc = "idle" /\ f \notin others
  BY DEF BeginFill, Overlapped, Filling
<1>3. filler'[f] = rec
  BY <1>2 DEF BeginFill, Disturbed, CachesInv, CachesTypeOK
<1>4. ASSUME NEW g \in Filler, g # f
      PROVE  /\ filler'[g] \in FillerRecord
             /\ filler'[g].pc = filler[g].pc /\ filler'[g].view = filler[g].view
             /\ filler'[g].todo = filler[g].todo /\ filler'[g].tag = filler[g].tag
             /\ filler'[g].keys = filler[g].keys /\ filler'[g].stale = filler[g].stale
             /\ filler[g].overlap \/ (g \in others /\ Storing(g)) => filler'[g].overlap
  <2>1. filler[g] \in FillerRecord
    BY DEF CachesInv, CachesTypeOK
  <2>2. filler'[g] = IF g \in others /\ Storing(g) THEN [filler[g] EXCEPT !.overlap = TRUE]
                     ELSE filler[g]
    BY <1>4 DEF BeginFill, Disturbed, CachesInv, CachesTypeOK
  <2> HIDE DEF others
  <2>3. CASE g \in others /\ Storing(g)
    <3>1. filler'[g] = [filler[g] EXCEPT !.overlap = TRUE]
      BY <2>2, <2>3
    <3> QED
      BY <2>1, <3>1 DEF FillerRecord
  <2>4. CASE ~(g \in others /\ Storing(g))
    <3>1. filler'[g] = filler[g]
      BY <2>2, <2>4
    <3> QED
      BY <2>1, <2>4, <3>1
  <2> QED
    BY <2>3, <2>4
<1>5. /\ cached' = cached /\ listed' = listed /\ buster' = buster
      /\ excused' = excused \cup {filler[g].view : g \in {x \in others : Appending(x)}}
      /\ excused' \subseteq View
  BY DEF BeginFill, Overlapped, CachesInv, CachesTypeOK, FillerRecord
<1>6. \A g \in Filler : Filling(g) /\ Sharing(filler[g].view, v) => g \in others
  BY DEF Sharing, Overlapped
<1>7. Busted(v) => rec.overlap
  BY <1>1 DEF Busted, BustsUnderWay
<1>8. \A w \in View : FreshEntry(w)' => FreshEntry(w)
  BY <1>5 DEF FreshEntry
<1> HIDE DEF others, rec
<1>9. CachesTypeOK'
  <2>1. \A g \in Filler : filler'[g] \in FillerRecord
    BY <1>1, <1>3, <1>4
  <2>2. filler' \in [Filler -> FillerRecord]
    BY <2>1 DEF BeginFill, Disturbed
  <2> QED
    BY <1>5, <2>2 DEF CachesInv, CachesTypeOK
<1>10. WorkFormed'
  <2>1. ASSUME NEW g \in Filler
        PROVE  /\ Appending(g)' => filler'[g].todo \subseteq TagsOf(filler'[g].view)
               /\ filler'[g].pc = "append" => filler'[g].tag \in filler'[g].todo
               /\ filler'[g].pc = "set" /\ filler'[g].stale => filler'[g].overlap
    <3>1. CASE g = f
      BY <1>1, <1>3, <3>1 DEF Appending
    <3>2. CASE g # f
      <4>1. /\ Appending(g) => filler[g].todo \subseteq TagsOf(filler[g].view)
            /\ filler[g].pc = "append" => filler[g].tag \in filler[g].todo
            /\ filler[g].pc = "set" /\ filler[g].stale => filler[g].overlap
        BY DEF CachesInv, WorkFormed
      <4> QED
        BY <1>4, <3>2, <4>1 DEF Appending
    <3> QED
      BY <3>1, <3>2
  <2> QED
    BY <1>5, <2>1 DEF CachesInv, WorkFormed
<1>11. FillersApart'
  <2> SUFFICES ASSUME NEW g \in Filler, NEW h \in Filler, g # h, Filling(g)', Filling(h)',
                      Sharing(filler'[g].view, filler'[h].view)
               PROVE  /\ Storing(g)' => filler'[g].overlap
                      /\ Appending(g)' => filler'[g].view \in excused'
    BY DEF FillersApart, Sharing
  <2>1. CASE g = f
    <3>1. Filling(h) /\ Sharing(filler[h].view, v)
      BY <1>1, <1>3, <1>4, <2>1 DEF Filling, Sharing
    <3> QED
      BY <1>1, <1>3, <1>6, <2>1, <3>1 DEF Appending
  <2>2. CASE h = f
    <3>1. g \in others
      BY <1>1, <1>3, <1>4, <1>6, <2>2 DEF Filling
    <3> QED
      BY <1>4, <1>5, <2>2, <3>1 DEF Storing, Appending
  <2>3. CASE g # f /\ h # f
    BY <1>4, <1>5, <2>3 DEF CachesInv, FillersApart, Filling, Storing, Appending
  <2> QED
    BY <2>1, <2>2, <2>3
<1>12. BustsApart'
  <2> SUFFICES ASSUME NEW g \in Filler, Filling(g)', Busted(filler'[g].view)
               PROVE  /\ Storing(g)' => filler'[g].overlap
                      /\ Appending(g)' => filler'[g].view \in excused'
    BY <1>5 DEF BustsApart, Busted
  <2>1. CASE g = f
    BY <1>1, <1>3, <1>7, <2>1 DEF Appending
  <2>2. CASE g # f
    BY <1>4, <1>5, <2>2 DEF CachesInv, BustsApart, Filling, Storing, Appending
  <2> QED
    BY <2>1, <2>2
<1>13. KeysListed'
  <2> SUFFICES ASSUME NEW w \in View, NEW t \in Tag, FreshEntry(w)', t \in TagsOf(w)
               PROVE  \/ w \in listed'[t].keys
                      \/ \E g \in Filler : Appending(g)' /\ filler'[g].view = w
                                           /\ t \in filler'[g].todo
    BY DEF KeysListed
  <2>1. ASSUME NEW g \in Filler, Appending(g), filler[g].view = w, t \in filler[g].todo
        PROVE  Appending(g)' /\ filler'[g].view = w /\ t \in filler'[g].todo
    <3>1. g # f
      BY <1>2, <2>1 DEF Appending
    <3> QED
      BY <1>4, <2>1, <3>1 DEF Appending
  <2> QED
    BY <1>5, <1>8, <2>1 DEF CachesInv, KeysListed
<1>14. KeysRead'
  <2>1. ASSUME NEW g \in Filler, NEW w \in View, filler'[g].pc = "append",
               FreshEntry(w)', filler'[g].tag \in TagsOf(w)
        PROVE  /\ w \in filler'[g].keys \/ w = filler'[g].view
               /\ w = filler'[g].view /\ w \in filler'[g].keys =>
                     w \in listed'[filler'[g].tag].keys
    <3>1. g # f
      BY <1>1, <1>3, <2>1
    <3>2. FreshEntry(w)
      BY <1>8, <2>1
    <3> QED
      BY <1>4, <1>5, <2>1, <3>1, <3>2 DEF CachesInv, KeysRead
  <2>2. ASSUME NEW b \in Buster, NEW w \in View, FreshEntry(w)', buster'[b].tag \in TagsOf(w)
        PROVE  /\ buster'[b].pc = "entries" => w \in buster'[b].keys
               /\ buster'[b].pc # "list"
    BY <1>5, <1>8, <2>2 DEF CachesInv, KeysRead
  <2> QED
    BY <2>1, <2>2 DEF KeysRead
<1>15. StaleLeaves'
  BY <1>5 DEF CachesInv, StaleLeaves, Busted
<1> QED
  BY <1>9, <1>10, <1>11, <1>12, <1>13, <1>14, <1>15 DEF CachesInv

(* Only filling f goes on, from storing to its lists, from a list to its   *)
(* key, or to the next tag, and no invalidation moves.                     *)
LEMMA ApartFrom ==
    ASSUME CachesInv, NEW f \in Filler, Filling(f), buster' = buster,
           \A g \in Filler : g # f => filler'[g] = filler[g],
           filler'[f].view = filler[f].view \/ filler'[f].pc = "idle",
           Storing(f)' => FALSE,
           \A v \in View : v # filler[f].view /\ v \in excused => v \in excused',
           filler[f].view \in excused => filler[f].view \in excused' \/ Storing(f),
           Storing(f) /\ filler[f].overlap => filler[f].view \in excused'
    PROVE  FillersApart' /\ BustsApart'
<1>1. \A g \in Filler : filler[g].view \in View /\ TagsOf(filler[g].view) # {}
  BY TagsTyped DEF CachesInv, CachesTypeOK, FillerRecord
<1>2. FillersApart'
  <2> SUFFICES ASSUME NEW g \in Filler, NEW h \in Filler, g # h, Filling(g)', Filling(h)',
                      Sharing(filler'[g].view, filler'[h].view)
               PROVE  /\ Storing(g)' => filler'[g].overlap
                      /\ Appending(g)' => filler'[g].view \in excused'
    BY DEF FillersApart, Sharing
  <2>1. Filling(g) /\ Filling(h) /\ filler'[g].view = filler[g].view
        /\ filler'[h].view = filler[h].view
    BY DEF Filling
  <2>2. /\ Storing(g) => filler[g].overlap
        /\ Appending(g) => filler[g].view \in excused
    BY <2>1 DEF CachesInv, FillersApart
  <2>3. CASE g = f
    BY <1>1, <2>1, <2>2, <2>3 DEF Storing, Appending, CachesInv, CachesTypeOK, FillerRecord, Filling
  <2>4. CASE g # f
    <3>1. filler'[g] = filler[g]
      BY <2>4
    <3>2. CASE filler[g].view # filler[f].view
      BY <1>1, <2>2, <3>1, <3>2 DEF Storing, Appending
    <3>3. CASE filler[g].view = filler[f].view
      <4>1. Sharing(filler[f].view, filler[g].view)
        BY <1>1, <3>3 DEF Sharing
      <4>2. Storing(f) => filler[f].overlap
        BY <2>1, <2>4, <4>1 DEF CachesInv, FillersApart
      <4> QED
        BY <1>1, <2>2, <3>1, <3>3, <4>2 DEF Storing, Appending
    <3> QED
      BY <3>2, <3>3
  <2> QED
    BY <2>3, <2>4
<1>3. BustsApart'
  <2> SUFFICES ASSUME NEW g \in Filler, Filling(g)', Busted(filler'[g].view)
               PROVE  /\ Storing(g)' => filler'[g].overlap
                      /\ Appending(g)' => filler'[g].view \in excused'
    BY DEF BustsApart, Busted
  <2>1. Filling(g) /\ filler'[g].view = filler[g].view
    BY DEF Filling
  <2>2. /\ Storing(g) => filler[g].overlap
        /\ Appending(g) => filler[g].view \in excused
    BY <2>1 DEF CachesInv, BustsApart
  <2>3. CASE g = f
    BY <1>1, <2>1, <2>2, <2>3 DEF Storing, Appending, CachesInv, CachesTypeOK, FillerRecord, Filling
  <2>4. CASE g # f
    <3>1. filler'[g] = filler[g]
      BY <2>4
    <3>2. CASE filler[g].view # filler[f].view
      BY <1>1, <2>2, <3>1, <3>2 DEF Storing, Appending
    <3>3. CASE filler[g].view = filler[f].view
      <4>1. Storing(f) => filler[f].overlap
        BY <2>1, <3>3 DEF CachesInv, BustsApart
      <4> QED
        BY <1>1, <2>2, <3>1, <3>3, <4>1 DEF Storing, Appending
    <3> QED
      BY <3>2, <3>3
  <2> QED
    BY <2>3, <2>4
<1> QED
  BY <1>2, <1>3

LEMMA StoreEntryKeeps ==
    ASSUME CachesInv, NEW f \in Filler, StoreEntry(f)
    PROVE  CachesInv'
<1> DEFINE v == filler[f].view
           rec == [NoFiller EXCEPT !.pc = "list", !.view = v, !.todo = TagsOf(v)]
           new == [there |-> TRUE, stale |-> filler[f].stale, left |-> Ttl]
<1>1. /\ filler[f] \in FillerRecord /\ v \in View /\ filler[f].pc = "set"
      /\ Storing(f) /\ Filling(f) /\ ~Appending(f)
      /\ filler[f].stale => filler[f].overlap
  BY DEF CachesInv, CachesTypeOK, WorkFormed, StoreEntry, FillerRecord, Storing, Filling,
         Appending
<1>2. /\ rec \in FillerRecord /\ rec.pc = "list" /\ rec.view = v /\ rec.todo = TagsOf(v)
  BY <1>1, CacheRecords, TagsTyped DEF NoFiller, FillerRecord
<1>3. new \in CachedRecord /\ new.there /\ new.stale = filler[f].stale
  BY <1>1, CachesAssumption DEF CachedRecord, FillerRecord
<1>4. /\ filler' = [filler EXCEPT ![f] = rec] /\ cached' = [cached EXCEPT ![v] = new]
      /\ excused' = IF filler[f].overlap THEN excused \cup {v} ELSE excused \ {v}
      /\ listed' = listed /\ buster' = buster
  BY DEF StoreEntry
<1> HIDE DEF rec, new
<1>5. /\ filler'[f] = rec /\ cached'[v] = new
      /\ \A g \in Filler : g # f => filler'[g] = filler[g]
      /\ \A w \in View : w # v => cached'[w] = cached[w] /\ (w \in excused' <=> w \in excused)
      /\ v \in excused' <=> filler[f].overlap
  BY <1>1, <1>4 DEF CachesInv, CachesTypeOK
<1>6. \A w \in View : w # v /\ FreshEntry(w)' => FreshEntry(w)
  BY <1>5 DEF FreshEntry
<1>7. CachesTypeOK'
  BY <1>1, <1>2, <1>3, <1>4 DEF CachesInv, CachesTypeOK
<1>8. FillersApart' /\ BustsApart'
  BY <1>1, <1>2, <1>4, <1>5, ApartFrom DEF Storing
<1>9. WorkFormed'
  <2>1. \A g \in Filler :
           /\ Appending(g)' => filler'[g].todo \subseteq TagsOf(filler'[g].view)
           /\ filler'[g].pc = "append" => filler'[g].tag \in filler'[g].todo
           /\ filler'[g].pc = "set" /\ filler'[g].stale => filler'[g].overlap
    BY <1>2, <1>5 DEF CachesInv, WorkFormed, Appending
  <2>2. \A w \in View : cached'[w].stale => cached'[w].there
    BY <1>3, <1>5 DEF CachesInv, WorkFormed
  <2> QED
    BY <1>4, <2>1, <2>2 DEF CachesInv, WorkFormed
<1>10. KeysListed'
  <2> SUFFICES ASSUME NEW w \in View, NEW t \in Tag, FreshEntry(w)', t \in TagsOf(w)
               PROVE  \/ w \in listed'[t].keys
                      \/ \E g \in Filler : Appending(g)' /\ filler'[g].view = w
                                           /\ t \in filler'[g].todo
    BY DEF KeysListed
  <2>1. CASE w = v
    BY <1>2, <1>5, <2>1 DEF Appending
  <2>2. CASE w # v
    <3>1. \A g \in Filler : Appending(g) => g # f
      BY <1>1
    <3>2. FreshEntry(w)
      BY <1>6, <2>2
    <3> QED
      BY <1>4, <1>5, <3>1, <3>2 DEF CachesInv, KeysListed, Appending
  <2> QED
    BY <2>1, <2>2
<1>11. KeysRead'
  <2>1. ASSUME NEW g \in Filler, NEW w \in View, filler'[g].pc = "append",
               FreshEntry(w)', filler'[g].tag \in TagsOf(w)
        PROVE  /\ w \in filler'[g].keys \/ w = filler'[g].view
               /\ w = filler'[g].view /\ w \in filler'[g].keys =>
                     w \in listed'[filler'[g].tag].keys
    <3>1. g # f /\ filler'[g] = filler[g] /\ filler[g].pc = "append"
      BY <1>2, <1>5, <2>1
    <3>2. CASE w # v
      BY <1>4, <1>6, <2>1, <3>1, <3>2 DEF CachesInv, KeysRead
    <3>3. CASE w = v
      <4>1. filler[g].tag \in TagsOf(filler[g].view)
        BY <3>1 DEF CachesInv, WorkFormed, Appending
      <4>2. Sharing(filler[f].view, filler[g].view) /\ Filling(g)
        BY <2>1, <3>1, <3>3, <4>1 DEF Sharing, Filling
      <4>3. filler[f].overlap
        BY <1>1, <3>1, <4>2 DEF CachesInv, FillersApart
      <4> QED
        BY <1>5, <2>1, <3>3, <4>3 DEF FreshEntry
    <3> QED
      BY <3>2, <3>3
  <2>2. ASSUME NEW b \in Buster, NEW w \in View, FreshEntry(w)', buster'[b].tag \in TagsOf(w)
        PROVE  /\ buster'[b].pc = "entries" => w \in buster'[b].keys
               /\ buster'[b].pc # "list"
    <3>1. CASE w # v
      BY <1>4, <1>6, <2>2, <3>1 DEF CachesInv, KeysRead
    <3>2. CASE w = v
      <4>1. ~filler[f].overlap
        BY <1>5, <2>2, <3>2 DEF FreshEntry
      <4>2. ~Busted(v)
        BY <1>1, <4>1 DEF CachesInv, BustsApart
      <4>3. buster[b].pc \notin {"entries", "list"}
        BY <1>4, <2>2, <3>2, <4>2 DEF Busted, CachesInv, WorkFormed
      <4> QED
        BY <1>4, <4>3
    <3> QED
      BY <3>1, <3>2
  <2> QED
    BY <2>1, <2>2 DEF KeysRead
<1>12. StaleLeaves'
  BY <1>1, <1>3, <1>4, <1>5 DEF CachesInv, StaleLeaves, Busted
<1> QED
  BY <1>7, <1>8, <1>9, <1>10, <1>11, <1>12 DEF CachesInv

LEMMA ReadListKeeps ==
    ASSUME CachesInv, NEW f \in Filler, NEW t \in Tag, ReadList(f, t)
    PROVE  CachesInv'
<1>1. /\ filler[f] \in FillerRecord /\ filler[f].pc = "list" /\ t \in filler[f].todo
      /\ listed[t].keys \subseteq View /\ t \in TagsOf(filler[f].view)
      /\ Appending(f) /\ Filling(f) /\ ~Storing(f)
  BY DEF CachesInv, CachesTypeOK, WorkFormed, ReadList, ListedRecord, Appending, Filling, Storing
<1>2. /\ filler'[f].pc = "append" /\ filler'[f].tag = t /\ filler'[f].keys = listed[t].keys
      /\ filler'[f].view = filler[f].view /\ filler'[f].todo = filler[f].todo
      /\ filler'[f] \in FillerRecord
      /\ \A g \in Filler : g # f => filler'[g] = filler[g]
  BY <1>1 DEF CachesInv, CachesTypeOK, ReadList, FillerRecord
<1>3. cached' = cached /\ listed' = listed /\ buster' = buster /\ excused' = excused
  BY DEF ReadList
<1>4. CachesTypeOK'
  <2>1. filler' \in [Filler -> FillerRecord]
    BY <1>2 DEF ReadList, CachesInv, CachesTypeOK
  <2> QED
    BY <1>3, <2>1 DEF CachesInv, CachesTypeOK
<1>5. FillersApart' /\ BustsApart'
  BY <1>1, <1>2, <1>3, ApartFrom DEF Storing
<1>6. WorkFormed'
  <2>1. \A g \in Filler :
           /\ Appending(g)' => filler'[g].todo \subseteq TagsOf(filler'[g].view)
           /\ filler'[g].pc = "append" => filler'[g].tag \in filler'[g].todo
           /\ filler'[g].pc = "set" /\ filler'[g].stale => filler'[g].overlap
    BY <1>1, <1>2 DEF CachesInv, WorkFormed, Appending
  <2> QED
    BY <1>3, <2>1 DEF CachesInv, WorkFormed
<1>7. \A w \in View : FreshEntry(w)' => FreshEntry(w)
  BY <1>3 DEF FreshEntry
<1>8. KeysListed'
  <2>1. \A g \in Filler : Appending(g) => /\ Appending(g)' /\ filler'[g].view = filler[g].view
                                          /\ filler'[g].todo = filler[g].todo
    BY <1>2 DEF Appending
  <2> QED
    BY <1>3, <1>7, <2>1 DEF CachesInv, KeysListed
<1>9. KeysRead'
  <2>1. ASSUME NEW g \in Filler, NEW w \in View, filler'[g].pc = "append",
               FreshEntry(w)', filler'[g].tag \in TagsOf(w)
        PROVE  /\ w \in filler'[g].keys \/ w = filler'[g].view
               /\ w = filler'[g].view /\ w \in filler'[g].keys =>
                     w \in listed'[filler'[g].tag].keys
    <3>1. CASE g # f
      BY <1>2, <1>3, <1>7, <2>1, <3>1 DEF CachesInv, KeysRead
    <3>2. CASE g = f
      <4>1. FreshEntry(w) /\ t \in TagsOf(w)
        BY <1>2, <1>7, <2>1, <3>2
      <4>2. ASSUME NEW h \in Filler, Appending(h), filler[h].view = w, h # f PROVE FALSE
        <5>1. Sharing(filler[h].view, filler[f].view) /\ Filling(h)
          BY <1>1, <4>1, <4>2 DEF Sharing, Appending, Filling
        <5>2. filler[h].view \in excused
          BY <1>1, <4>2, <5>1 DEF CachesInv, FillersApart
        <5> QED
          BY <4>1, <4>2, <5>2 DEF FreshEntry
      <4>3. w \in listed[t].keys \/ w = filler[f].view
        BY <4>1, <4>2 DEF CachesInv, KeysListed
      <4> QED
        BY <1>2, <1>3, <3>2, <4>3
    <3> QED
      BY <3>1, <3>2
  <2> QED
    BY <1>3, <1>7, <2>1 DEF CachesInv, KeysRead
<1>10. StaleLeaves'
  BY <1>3 DEF CachesInv, StaleLeaves, Busted
<1> QED
  BY <1>4, <1>5, <1>6, <1>8, <1>9, <1>10 DEF CachesInv

LEMMA AppendKeyKeeps ==
    ASSUME CachesInv, NEW f \in Filler, AppendKey(f)
    PROVE  CachesInv'
<1> DEFINE v == filler[f].view
           t == filler[f].tag
           left == filler[f].todo \ {t}
           rec == IF left = {} THEN NoFiller
                  ELSE [NoFiller EXCEPT !.pc = "list", !.view = v, !.todo = left]
           long == [keys |-> filler[f].keys \cup {v}, left |-> 2 * Ttl]
<1>1. /\ filler[f] \in FillerRecord /\ filler[f].pc = "append" /\ v \in View /\ t \in Tag
      /\ filler[f].todo \subseteq TagsOf(v) /\ t \in filler[f].todo
      /\ Appending(f) /\ Filling(f) /\ ~Storing(f)
  BY DEF CachesInv, CachesTypeOK, WorkFormed, AppendKey, FillerRecord, Appending, Filling,
         Storing
<1>2. /\ rec \in FillerRecord /\ rec.pc \in {"idle", "list"}
      /\ left = {} => rec.pc = "idle"
      /\ left # {} => rec.pc = "list" /\ rec.view = v /\ rec.todo = left
  <2>1. left \subseteq Tag
    BY <1>1, TagsTyped
  <2> HIDE DEF left, v
  <2>2. CASE left = {}
    BY <2>2, CacheRecords
  <2>3. CASE left # {}
    BY <1>1, <2>1, <2>3, CacheRecords DEF NoFiller, FillerRecord
  <2> QED
    BY <2>2, <2>3
<1>3. long \in ListedRecord /\ long.keys = filler[f].keys \cup {v} /\ long.left # 0
  BY <1>1, CachesAssumption DEF ListedRecord, FillerRecord
<1>4. /\ filler' = [filler EXCEPT ![f] = rec]
      /\ listed' = IF v \in filler[f].keys THEN listed ELSE [listed EXCEPT ![t] = long]
      /\ cached' = cached /\ excused' = excused /\ buster' = buster
  BY DEF AppendKey
<1> HIDE DEF rec, long, left
<1>5. /\ filler'[f] = rec /\ \A g \in Filler : g # f => filler'[g] = filler[g]
      /\ \A u \in Tag : u # t => listed'[u] = listed[u]
      /\ v \in filler[f].keys => listed' = listed
      /\ v \notin filler[f].keys => listed'[t] = long
  BY <1>1, <1>4 DEF CachesInv, CachesTypeOK
<1>6. \A w \in View : FreshEntry(w)' => FreshEntry(w)
  BY <1>4 DEF FreshEntry
<1>7. CachesTypeOK'
  BY <1>1, <1>2, <1>3, <1>4 DEF CachesInv, CachesTypeOK
<1>8. FillersApart' /\ BustsApart'
  BY <1>1, <1>2, <1>4, <1>5, ApartFrom DEF Storing
<1>9. WorkFormed'
  <2>1. \A g \in Filler :
           /\ Appending(g)' => filler'[g].todo \subseteq TagsOf(filler'[g].view)
           /\ filler'[g].pc = "append" => filler'[g].tag \in filler'[g].todo
           /\ filler'[g].pc = "set" /\ filler'[g].stale => filler'[g].overlap
    BY <1>1, <1>2, <1>5 DEF CachesInv, WorkFormed, Appending, left
  <2>2. \A u \in Tag : listed'[u].left = 0 => listed'[u].keys = {}
    BY <1>3, <1>5 DEF CachesInv, WorkFormed
  <2> QED
    BY <1>4, <2>1, <2>2 DEF CachesInv, WorkFormed
(* A view of t that is fresh was read with the list, or is the one that is  *)
(* added: others that would still add themselves are excused.               *)
<1>10. ASSUME NEW g \in Filler, g # f, Appending(g), t \in TagsOf(filler[g].view)
       PROVE  ~FreshEntry(filler[g].view)
  <2>1. Sharing(filler[g].view, filler[f].view) /\ Filling(g)
    BY <1>1, <1>10 DEF Sharing, Appending, Filling
  <2> QED
    BY <1>1, <1>10, <2>1 DEF CachesInv, FillersApart, FreshEntry
<1>11. KeysListed'
  <2> SUFFICES ASSUME NEW w \in View, NEW u \in Tag, FreshEntry(w)', u \in TagsOf(w)
               PROVE  \/ w \in listed'[u].keys
                      \/ \E g \in Filler : Appending(g)' /\ filler'[g].view = w
                                           /\ u \in filler'[g].todo
    BY DEF KeysListed
  <2>1. FreshEntry(w)
    BY <1>6
  <2>2. CASE u = t
    <3>1. w \in filler[f].keys \/ w = v
      BY <1>1, <2>1, <2>2 DEF CachesInv, KeysRead
    <3>2. CASE v \notin filler[f].keys
      BY <1>3, <1>5, <2>2, <3>1, <3>2
    <3>3. CASE v \in filler[f].keys /\ w = v
      BY <1>1, <1>5, <2>1, <2>2, <3>3 DEF CachesInv, KeysRead
    <3>4. CASE v \in filler[f].keys /\ w # v
      <4>1. ASSUME NEW g \in Filler, Appending(g), filler[g].view = w PROVE FALSE
        BY <1>10, <2>1, <2>2, <3>4, <4>1
      <4> QED
        BY <1>5, <2>1, <3>4, <4>1 DEF CachesInv, KeysListed
    <3> QED
      BY <3>2, <3>3, <3>4
  <2>3. CASE u # t
    <3>1. ASSUME NEW g \in Filler, Appending(g), filler[g].view = w, u \in filler[g].todo
          PROVE  Appending(g)' /\ filler'[g].view = w /\ u \in filler'[g].todo
      <4>1. CASE g = f
        BY <1>2, <1>5, <2>3, <3>1, <4>1 DEF Appending, left
      <4>2. CASE g # f
        BY <1>5, <3>1, <4>2 DEF Appending
      <4> QED
        BY <4>1, <4>2
    <3> QED
      BY <1>5, <2>1, <2>3, <3>1 DEF CachesInv, KeysListed
  <2> QED
    BY <2>2, <2>3
<1>12. KeysRead'
  <2>1. ASSUME NEW g \in Filler, NEW w \in View, filler'[g].pc = "append",
               FreshEntry(w)', filler'[g].tag \in TagsOf(w)
        PROVE  /\ w \in filler'[g].keys \/ w = filler'[g].view
               /\ w = filler'[g].view /\ w \in filler'[g].keys =>
                     w \in listed'[filler'[g].tag].keys
    <3>1. /\ g # f /\ filler'[g] = filler[g] /\ filler[g].pc = "append" /\ FreshEntry(w)
          /\ Appending(g) /\ filler[g].tag \in Tag
      BY <1>2, <1>5, <1>6, <2>1 DEF Appending, CachesInv, CachesTypeOK, FillerRecord
    <3>2. /\ w \in filler[g].keys \/ w = filler[g].view
          /\ w = filler[g].view /\ w \in filler[g].keys => w \in listed[filler[g].tag].keys
      BY <2>1, <3>1 DEF CachesInv, KeysRead
    <3>3. w = filler[g].view => filler[g].tag # t
      BY <1>10, <2>1, <3>1
    <3> QED
      BY <1>5, <3>1, <3>2, <3>3
  <2> QED
    BY <1>4, <1>6, <2>1 DEF CachesInv, KeysRead
<1>13. StaleLeaves'
  BY <1>4 DEF CachesInv, StaleLeaves, Busted
<1> QED
  BY <1>7, <1>8, <1>9, <1>11, <1>12, <1>13 DEF CachesInv

(* An invalidation goes on: no filling moves, it has no more tags to do    *)
(* than before, and no entry appears.                                      *)
LEMMA BustGoesOn ==
    ASSUME CachesInv, NEW b \in Buster, filler' = filler, excused' = excused, CachesTypeOK',
           \A d \in Buster : d # b => buster'[d] = buster[d],
           buster'[b].todo \subseteq buster[b].todo,
           buster'[b].pc \in {"entries", "list"} => buster'[b].tag \in buster'[b].todo,
           buster'[b].pc = "idle" => buster'[b].todo = {},
           \A v \in View : cached'[v] = cached[v] \/ cached'[v] = NotCached,
           \A t \in Tag : \/ listed'[t] = listed[t]
                          \/ /\ listed'[t] = NotListed
                             /\ \A v \in View : t \in TagsOf(v) => ~FreshEntry(v),
           \A v \in View : FreshEntry(v)' /\ buster'[b].tag \in TagsOf(v) =>
              buster'[b].pc # "list" /\ (buster'[b].pc = "entries" => v \in buster'[b].keys),
           \A v \in View : cached'[v].stale /\ Busted(v) => v \in excused \/ Busted(v)'
    PROVE  CachesInv'
<1>1. \A v \in View :
         /\ cached'[v].there => cached[v].there
         /\ cached'[v].stale => cached[v].stale /\ cached'[v].there
         /\ FreshEntry(v)' => FreshEntry(v)
         /\ Busted(v)' => Busted(v)
  BY CacheRecords DEF CachesInv, WorkFormed, FreshEntry, Busted
<1>2. \A f \in Filler : filler[f].view \in View /\ filler[f].tag \in Tag
  BY DEF CachesInv, CachesTypeOK, FillerRecord
<1>3. WorkFormed'
  <2>1. \A d \in Buster :
           /\ buster'[d].pc \in {"entries", "list"} => buster'[d].tag \in buster'[d].todo
           /\ buster'[d].pc = "idle" => buster'[d].todo = {}
    BY DEF CachesInv, WorkFormed
  <2>2. \A t \in Tag : listed'[t].left = 0 => listed'[t].keys = {}
    BY CacheRecords DEF CachesInv, WorkFormed
  <2> QED
    BY <1>1, <2>1, <2>2 DEF CachesInv, WorkFormed, Appending
<1>4. FillersApart'
  BY DEF CachesInv, FillersApart, Filling, Storing, Appending
<1>5. BustsApart'
  <2> SUFFICES ASSUME NEW f \in Filler, Filling(f), \E d \in Buster : buster'[d].todo \cap TagsOf(filler[f].view) # {}
               PROVE  /\ Storing(f) => filler[f].overlap
                      /\ Appending(f) => filler[f].view \in excused
    BY DEF BustsApart, Busted, Filling, Storing, Appending
  <2>1. Busted(filler[f].view)
    BY DEF Busted
  <2> QED
    BY <2>1 DEF CachesInv, BustsApart
<1>6. KeysListed'
  <2> SUFFICES ASSUME NEW v \in View, NEW t \in Tag, FreshEntry(v)', t \in TagsOf(v)
               PROVE  \/ v \in listed'[t].keys
                      \/ \E f \in Filler : Appending(f) /\ filler[f].view = v
                                           /\ t \in filler[f].todo
    BY DEF KeysListed, Appending
  <2>1. listed'[t] = listed[t]
    BY <1>1
  <2> QED
    BY <1>1, <2>1 DEF CachesInv, KeysListed
<1>7. KeysRead'
  <2>1. ASSUME NEW f \in Filler, NEW v \in View, filler[f].pc = "append",
               FreshEntry(v)', filler[f].tag \in TagsOf(v)
        PROVE  /\ v \in filler[f].keys \/ v = filler[f].view
               /\ v = filler[f].view /\ v \in filler[f].keys => v \in listed'[filler[f].tag].keys
    <3>1. FreshEntry(v) /\ listed'[filler[f].tag] = listed[filler[f].tag]
      BY <1>1, <1>2, <2>1
    <3> QED
      BY <2>1, <3>1 DEF CachesInv, KeysRead
  <2>2. ASSUME NEW d \in Buster, NEW v \in View, FreshEntry(v)', buster'[d].tag \in TagsOf(v)
        PROVE  /\ buster'[d].pc = "entries" => v \in buster'[d].keys
               /\ buster'[d].pc # "list"
    <3>1. CASE d = b
      BY <2>2, <3>1
    <3>2. CASE d # b
      BY <1>1, <2>2, <3>2 DEF CachesInv, KeysRead
    <3> QED
      BY <3>1, <3>2
  <2> QED
    BY <2>1, <2>2 DEF KeysRead
<1>8. StaleLeaves'
  BY <1>1 DEF CachesInv, StaleLeaves
<1> QED
  BY <1>3, <1>4, <1>5, <1>6, <1>7, <1>8 DEF CachesInv

LEMMA ReadKeysKeeps ==
    ASSUME CachesInv, NEW b \in Buster, NEW t \in Tag, ReadKeys(b, t)
    PROVE  CachesInv'
<1>1. buster[b] \in BusterRecord /\ buster[b].pc = "read" /\ t \in buster[b].todo
      /\ listed[t].keys \subseteq View
  BY DEF CachesInv, CachesTypeOK, ReadKeys, ListedRecord
<1>2. /\ buster'[b].pc = "entries" /\ buster'[b].tag = t /\ buster'[b].keys = listed[t].keys
      /\ buster'[b].todo = buster[b].todo /\ buster'[b] \in BusterRecord
      /\ \A d \in Buster : d # b => buster'[d] = buster[d]
  BY <1>1 DEF CachesInv, CachesTypeOK, ReadKeys, BusterRecord
<1>3. cached' = cached /\ listed' = listed /\ filler' = filler /\ excused' = excused
  BY DEF ReadKeys
<1>4. CachesTypeOK'
  <2>1. buster' \in [Buster -> BusterRecord]
    BY <1>2 DEF ReadKeys, CachesInv, CachesTypeOK
  <2> QED
    BY <1>3, <2>1 DEF CachesInv, CachesTypeOK
<1>5. \A v \in View : Busted(v) => Busted(v)'
  BY <1>2 DEF Busted
<1>6. ASSUME NEW v \in View, FreshEntry(v)', t \in TagsOf(v) PROVE v \in listed[t].keys
  <2>1. FreshEntry(v) /\ v \notin excused
    BY <1>3, <1>6 DEF FreshEntry
  <2>2. Busted(v)
    BY <1>1, <1>6 DEF Busted
  <2>3. ASSUME NEW f \in Filler, Appending(f), filler[f].view = v PROVE FALSE
    BY <2>1, <2>2, <2>3 DEF CachesInv, BustsApart, Appending, Filling
  <2> QED
    BY <1>6, <2>1, <2>3 DEF CachesInv, KeysListed
<1> QED
  BY <1>1, <1>2, <1>3, <1>4, <1>5, <1>6, BustGoesOn

LEMMA DropEntriesKeeps ==
    ASSUME CachesInv, NEW b \in Buster, DropEntries(b)
    PROVE  CachesInv'
<1>1. buster[b] \in BusterRecord /\ buster[b].pc = "entries" /\ buster[b].tag \in buster[b].todo
  BY DEF CachesInv, CachesTypeOK, DropEntries, WorkFormed
<1>2. /\ buster'[b].pc = "list" /\ buster'[b].tag = buster[b].tag
      /\ buster'[b].todo = buster[b].todo /\ buster'[b] \in BusterRecord
      /\ \A d \in Buster : d # b => buster'[d] = buster[d]
  BY <1>1 DEF CachesInv, CachesTypeOK, DropEntries, BusterRecord
<1>3. listed' = listed /\ filler' = filler /\ excused' = excused
  BY DEF DropEntries
<1>4. \A v \in View : cached'[v] = IF v \in buster[b].keys THEN NotCached ELSE cached[v]
  BY DEF DropEntries
<1>5. CachesTypeOK'
  <2>1. buster' \in [Buster -> BusterRecord]
    BY <1>2 DEF DropEntries, CachesInv, CachesTypeOK
  <2>2. cached' \in [View -> CachedRecord]
    BY CacheRecords DEF DropEntries, CachesInv, CachesTypeOK
  <2> QED
    BY <1>3, <2>1, <2>2 DEF CachesInv, CachesTypeOK
<1>6. \A v \in View : Busted(v) => Busted(v)'
  BY <1>2 DEF Busted
<1>7. ASSUME NEW v \in View, FreshEntry(v)', buster[b].tag \in TagsOf(v) PROVE FALSE
  <2>1. v \notin buster[b].keys
    BY <1>4, <1>7, CacheRecords DEF FreshEntry
  <2>2. FreshEntry(v)
    BY <1>3, <1>4, <1>7, <2>1 DEF FreshEntry
  <2> QED
    BY <1>1, <1>7, <2>1, <2>2 DEF CachesInv, KeysRead
<1> QED
  BY <1>1, <1>2, <1>3, <1>4, <1>5, <1>6, <1>7, BustGoesOn

LEMMA DropListKeeps ==
    ASSUME CachesInv, NEW b \in Buster, DropList(b)
    PROVE  CachesInv'
<1> DEFINE t == buster[b].tag
           left == buster[b].todo \ {t}
           rec == IF left = {} THEN NoBuster ELSE [NoBuster EXCEPT !.pc = "read", !.todo = left]
<1>1. buster[b] \in BusterRecord /\ buster[b].pc = "list" /\ t \in Tag
      /\ buster[b].todo \subseteq Tag
  BY DEF CachesInv, CachesTypeOK, DropList, BusterRecord
<1>2. /\ rec \in BusterRecord /\ rec.pc \in {"idle", "read"} /\ rec.todo = left
      /\ rec.pc = "idle" => rec.todo = {}
  <2>1. left \subseteq Tag
    BY <1>1
  <2> HIDE DEF left
  <2>2. CASE left = {}
    BY <2>2, CacheRecords
  <2>3. CASE left # {}
    BY <2>1, <2>3, CacheRecords DEF NoBuster, BusterRecord
  <2> QED
    BY <2>2, <2>3
<1>3. /\ buster' = [buster EXCEPT ![b] = rec] /\ listed' = [listed EXCEPT ![t] = NotListed]
      /\ cached' = cached /\ filler' = filler /\ excused' = excused
  BY DEF DropList
<1> HIDE DEF rec, left
<1>4. /\ buster'[b] = rec /\ \A d \in Buster : d # b => buster'[d] = buster[d]
      /\ listed'[t] = NotListed /\ \A u \in Tag : u # t => listed'[u] = listed[u]
  BY <1>1, <1>3 DEF CachesInv, CachesTypeOK
<1>5. CachesTypeOK'
  BY <1>1, <1>2, <1>3, CacheRecords DEF CachesInv, CachesTypeOK
<1>6. \A v \in View : t \in TagsOf(v) => ~FreshEntry(v)
  BY <1>1 DEF CachesInv, KeysRead
<1>7. ASSUME NEW v \in View, cached'[v].stale, Busted(v)
      PROVE  v \in excused \/ Busted(v)'
  <2>1. CASE t \in TagsOf(v)
    <3>1. cached[v].there
      BY <1>3, <1>7 DEF CachesInv, WorkFormed
    <3> QED
      BY <1>6, <2>1, <3>1 DEF FreshEntry
  <2>2. CASE t \notin TagsOf(v)
    BY <1>2, <1>4, <1>7, <2>2 DEF Busted, left
  <2> QED
    BY <2>1, <2>2
<1> QED
  BY <1>2, <1>3, <1>4, <1>5, <1>6, <1>7, BustGoesOn DEF left

LEMMA CachesInductive == CachesInv /\ [CachesNext]_cachesVars => CachesInv'
<1> SUFFICES ASSUME CachesInv, [CachesNext]_cachesVars PROVE CachesInv'
  OBVIOUS
<1>1. ASSUME NEW f \in Filler, NEW v \in View, BeginFill(f, v) PROVE CachesInv'
  BY <1>1, BeginFillKeeps
<1>2. ASSUME NEW f \in Filler, LoaderReads(f) PROVE CachesInv'
  BY <1>2, LoaderReadsKeeps
<1>3. ASSUME NEW f \in Filler, StoreEntry(f) PROVE CachesInv'
  BY <1>3, StoreEntryKeeps
<1>4. ASSUME NEW f \in Filler, NEW t \in Tag, ReadList(f, t) PROVE CachesInv'
  BY <1>4, ReadListKeeps
<1>5. ASSUME NEW f \in Filler, AppendKey(f) PROVE CachesInv'
  BY <1>5, AppendKeyKeeps
<1>6. ASSUME NEW f \in Filler, FillFails(f) PROVE CachesInv'
  BY <1>6, FillFailsKeeps
<1>7. ASSUME NEW b \in Buster, NEW c \in Changes, Write(b, c) PROVE CachesInv'
  BY <1>7, WriteKeeps
<1>8. ASSUME NEW b \in Buster, NEW t \in Tag, ReadKeys(b, t) PROVE CachesInv'
  BY <1>8, ReadKeysKeeps
<1>9. ASSUME NEW b \in Buster, DropEntries(b) PROVE CachesInv'
  BY <1>9, DropEntriesKeeps
<1>10. ASSUME NEW b \in Buster, DropList(b) PROVE CachesInv'
  BY <1>10, DropListKeeps
<1>11. ASSUME NEW b \in Buster, BustFails(b) PROVE CachesInv'
  BY <1>11, BustFailsKeeps
<1>12. CASE TimePasses
  BY <1>12, TimePassesKeeps
<1>13. CASE UNCHANGED cachesVars
  BY <1>13 DEF cachesVars, CachesInv, CachesTypeOK, WorkFormed, FillersApart, BustsApart,
     KeysListed, KeysRead, StaleLeaves, FreshEntry, Busted, Filling, Storing, Appending
<1> QED
  BY <1>1, <1>2, <1>3, <1>4, <1>5, <1>6, <1>7, <1>8, <1>9, <1>10, <1>11, <1>12, <1>13
     DEF CachesNext

THEOREM StaleSafety == CachesSpec => []StaleExplained
<1>1. CachesInv => StaleExplained
  BY DEF CachesInv, StaleLeaves, StaleExplained, Busted, BustsUnderWay
<1> QED
  BY <1>1, CachesInvInit, CachesInductive, PTL DEF CachesSpec
=============================================================================
