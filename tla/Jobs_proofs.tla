----------------------------- MODULE Jobs_proofs ------------------------------
(*****************************************************************************)
(* Theorems about what goes on without a request, for any number of hooks,   *)
(* senders and retries, rules, hours and failures, requests, chunks and      *)
(* claims, copies and loads: Webhooks, Recurring, Copies, UploadSession, and *)
(* the composition of Jobs.                                                  *)
(*****************************************************************************)
EXTENDS Jobs, UploadWatched, TLAPS

-----------------------------------------------------------------------------
(* Webhooks *)

Busy == {"post", "taken", "sleep", "final"}

(* A sender at work has a row of its own, which no other call finishes.    *)
SendersApart ==
    \A s \in Sender :
        /\ sender[s].pc \in Busy =>
              /\ sender[s].row \in Delivery
              /\ delivery[sender[s].row].status \in {"PENDING", "GONE"}
              /\ \A q \in Sender \ {s} : sender[q].row # sender[s].row
              /\ sender[s].attempt \in 1..Attempts
        /\ sender[s].pc \notin Busy => sender[s].row = Nobody
        /\ sender[s].pc = "scheduled" => sender[s].hook \in Hook

RowsHaveHooks ==
    \A d \in Delivery : delivery[d].status # "UNUSED" => delivery[d].hook \in Hook

(* What a sender heard is what it goes on by, and it counts its attempts.  *)
SenderKnows ==
    \A s \in Sender :
        /\ sender[s].pc \in {"post", "taken", "sleep"} => heard[sender[s].row] = "nothing"
        /\ sender[s].pc = "final" => (sender[s].code = 200 <=> heard[sender[s].row] = "accepted")
        /\ sender[s].pc = "sleep" => sender[s].attempt < Attempts
        /\ sender[s].pc = "post" => arrived[sender[s].row] < sender[s].attempt
        /\ sender[s].pc \in {"taken", "sleep"} => arrived[sender[s].row] <= sender[s].attempt
        /\ sender[s].pc = "taken" => arrived[sender[s].row] > 0

UnusedIsFresh ==
    \A d \in Delivery :
        Unused(d) => heard[d] = "nothing" /\ arrived[d] = 0 /\ delivery[d].hook = Nobody

WebhooksInv ==
    /\ WebhooksTypeOK
    /\ SendersApart
    /\ RowsHaveHooks
    /\ SenderKnows
    /\ UnusedIsFresh
    /\ StatusMatchesAnswer
    /\ PendingHasSender

-----------------------------------------------------------------------------
LEMMA SenderRecords ==
    /\ Attempts \in Nat /\ 1 \in 1..Attempts /\ 0 \in 0..Attempts
    /\ NoSender \in SenderRecord /\ NoSender.pc = "idle" /\ NoSender.row = Nobody
BY WebhooksAssumption DEF Attempts, NoSender, SenderRecord

LEMMA ScheduledTyped ==
    ASSUME WebhooksTypeOK, NEW h \in Hook
    PROVE  /\ Scheduled(h) \in SenderRecord /\ Scheduled(h).pc = "scheduled"
           /\ Scheduled(h).hook = h /\ Scheduled(h).row = Nobody
BY SenderRecords DEF Scheduled, NoSender, SenderRecord, WebhooksTypeOK, HookRecord

LEMMA SenderTyped ==
    ASSUME WebhooksTypeOK, NEW s \in Sender
    PROVE  /\ sender[s] \in SenderRecord /\ sender[s].attempt \in Nat
           /\ sender[s].row \in Delivery \cup {Nobody}
           /\ sender[s].hook \in Hook \cup {Nobody}
BY SenderRecords DEF WebhooksTypeOK, SenderRecord

LEMMA WebhooksInvInit == WebhooksInit => WebhooksInv
<1> SUFFICES ASSUME WebhooksInit PROVE WebhooksInv
  OBVIOUS
<1>1. WebhooksTypeOK
  BY SenderRecords, WebhooksAssumption
     DEF WebhooksInit, WebhooksTypeOK, HookRecord, DeliveryRecord
<1>2. \A s \in Sender : sender[s].pc = "idle" /\ sender[s].row = Nobody
  BY SenderRecords DEF WebhooksInit
<1>3. \A d \in Delivery : /\ delivery[d].status = "UNUSED" /\ delivery[d].hook = Nobody
                          /\ heard[d] = "nothing" /\ arrived[d] = 0
  BY DEF WebhooksInit
<1> QED
  BY <1>1, <1>2, <1>3
     DEF WebhooksInv, SendersApart, RowsHaveHooks, SenderKnows, UnusedIsFresh,
         StatusMatchesAnswer, PendingHasSender, Busy

(* The managers touch no sender; a removed hook takes its rows along.      *)
LEMMA ManagersKeep ==
    ASSUME WebhooksInv, NEW h \in Hook,
           \/ \E wants \in BOOLEAN : CreateHook(h, wants) \/ UpdateHook(h, wants)
           \/ RotateSecret(h)
           \/ RemoveHook(h)
    PROVE  WebhooksInv'
<1>1. hook' \in [Hook -> HookRecord] /\ UNCHANGED <<sender, arrived, heard, abandoned>>
  BY WebhooksAssumption
     DEF CreateHook, UpdateHook, RotateSecret, RemoveHook, WebhooksInv, WebhooksTypeOK, HookRecord
<1>2. /\ delivery' \in [Delivery -> DeliveryRecord]
      /\ \A d \in Delivery :
            \/ delivery'[d] = delivery[d]
            \/ /\ delivery'[d].status = "GONE" /\ delivery'[d].hook \in Hook
  BY DEF CreateHook, UpdateHook, RotateSecret, RemoveHook, WebhooksInv, WebhooksTypeOK,
         DeliveryRecord
<1>3. WebhooksTypeOK'
  BY <1>1, <1>2 DEF WebhooksInv, WebhooksTypeOK
<1>4. SendersApart' /\ SenderKnows'
  BY <1>1, <1>2 DEF WebhooksInv, SendersApart, SenderKnows
<1>5. RowsHaveHooks' /\ UnusedIsFresh' /\ StatusMatchesAnswer' /\ PendingHasSender'
  BY <1>1, <1>2
     DEF WebhooksInv, RowsHaveHooks, UnusedIsFresh, StatusMatchesAnswer, PendingHasSender, Unused
<1> QED
  BY <1>3, <1>4, <1>5 DEF WebhooksInv

(* Senders that rested are scheduled.                                      *)
LEMMA SchedulingKeeps ==
    ASSUME WebhooksInv, sender' \in [Sender -> SenderRecord],
           UNCHANGED <<hook, delivery, arrived, heard, abandoned>>,
           \A s \in Sender :
              \/ sender'[s] = sender[s]
              \/ /\ Resting(s) /\ sender'[s].pc = "scheduled"
                 /\ sender'[s].row = Nobody /\ sender'[s].hook \in Hook
    PROVE  WebhooksInv'
<1>1. \A s \in Sender : sender'[s].row = sender[s].row
  BY DEF WebhooksInv, SendersApart, Resting, Busy
<1>2. SendersApart' /\ SenderKnows'
  BY <1>1 DEF WebhooksInv, SendersApart, SenderKnows, Busy
<1>3. PendingHasSender'
  BY <1>1 DEF WebhooksInv, PendingHasSender
<1> QED
  BY <1>2, <1>3
     DEF WebhooksInv, WebhooksTypeOK, RowsHaveHooks, UnusedIsFresh, StatusMatchesAnswer, Unused

LEMMA ScheduleKeeps ==
    ASSUME WebhooksInv,
           \/ \E h \in Hook : TestSend(h)
           \/ Dispatch
           \/ \E d \in Delivery : RetryDelivery(d)
    PROVE  WebhooksInv'
<1>1. ASSUME NEW h \in Hook, NEW s \in Sender, Resting(s),
             sender' = [sender EXCEPT ![s] = Scheduled(h)],
             UNCHANGED <<hook, delivery, arrived, heard, abandoned>>
      PROVE  WebhooksInv'
  <2>1. Scheduled(h) \in SenderRecord /\ Scheduled(h).pc = "scheduled"
        /\ Scheduled(h).hook = h /\ Scheduled(h).row = Nobody
    BY ScheduledTyped DEF WebhooksInv
  <2>2. /\ sender' \in [Sender -> SenderRecord] /\ sender'[s] = Scheduled(h)
        /\ \A q \in Sender \ {s} : sender'[q] = sender[q]
    BY <1>1, <2>1 DEF WebhooksInv, WebhooksTypeOK
  <2> QED
    BY <1>1, <2>1, <2>2, SchedulingKeeps
<1>2. CASE Dispatch
  <2>1. PICK f \in [Subscribers -> {s \in Sender : Resting(s)}] :
           sender' = [s \in Sender |->
                         IF \E h \in Subscribers : f[h] = s
                         THEN Scheduled(CHOOSE h \in Subscribers : f[h] = s)
                         ELSE sender[s]]
    BY <1>2 DEF Dispatch
  <2>2. ASSUME NEW s \in Sender
        PROVE  \/ sender'[s] = sender[s]
               \/ /\ Resting(s) /\ \E h \in Hook : sender'[s] = Scheduled(h)
    <3>1. CASE \E h \in Subscribers : f[h] = s
      <4> DEFINE g == CHOOSE h \in Subscribers : f[h] = s
      <4>1. g \in Subscribers /\ f[g] = s
        BY <3>1
      <4>2. g \in Hook /\ Resting(s)
        BY <4>1 DEF Subscribers
      <4>3. sender'[s] = Scheduled(g)
        BY <2>1, <3>1
      <4> QED
        BY <4>2, <4>3
    <3>2. CASE ~\E h \in Subscribers : f[h] = s
      BY <2>1, <3>2
    <3> QED
      BY <3>1, <3>2
  <2>3. \A s \in Sender :
           /\ sender'[s] \in SenderRecord
           /\ \/ sender'[s] = sender[s]
              \/ /\ Resting(s) /\ sender'[s].pc = "scheduled"
                 /\ sender'[s].row = Nobody /\ sender'[s].hook \in Hook
    BY <2>2, ScheduledTyped, SenderTyped DEF WebhooksInv
  <2>4. sender' \in [Sender -> SenderRecord]
    BY <2>1, <2>3
  <2> QED
    BY <1>2, <2>3, <2>4, SchedulingKeeps DEF Dispatch
<1>3. ASSUME NEW d \in Delivery, RetryDelivery(d) PROVE WebhooksInv'
  <2>1. delivery[d].hook \in Hook
    BY <1>3 DEF RetryDelivery, WebhooksInv, RowsHaveHooks
  <2> QED
    BY <1>1, <1>3, <2>1 DEF RetryDelivery
<1> QED
  BY <1>1, <1>2, <1>3 DEF TestSend

-----------------------------------------------------------------------------
(* The steps of one sender.  NoRepeat is what NoRepeatAfterAnswer says of  *)
(* one step.                                                               *)

NoRepeat == \A d \in Delivery : heard[d] # "nothing" => arrived'[d] = arrived[d]

LEMMA InsertRowKeeps ==
    ASSUME WebhooksInv, NEW s \in Sender, InsertRow(s)
    PROVE  WebhooksInv' /\ NoRepeat
<1> DEFINE h == sender[s].hook
           d == CHOOSE x \in Delivery : Unused(x)
<1>1. h \in Hook /\ UNCHANGED <<hook, arrived, heard, abandoned>>
  BY DEF InsertRow, WebhooksInv, SendersApart
<1>2. CASE Registered(h)
  <2> DEFINE rec == [sender[s] EXCEPT !.pc = "post", !.row = d, !.attempt = 1]
             drow == [status |-> "PENDING", hook |-> h]
  <2>1. /\ \E x \in Delivery : Unused(x)
        /\ delivery' = [delivery EXCEPT ![d] = drow]
        /\ sender' = [sender EXCEPT ![s] = rec]
    BY <1>2 DEF InsertRow
  <2>2. d \in Delivery /\ Unused(d)
    BY <2>1
  <2> HIDE DEF d
  <2>3. /\ rec \in SenderRecord /\ rec.pc = "post" /\ rec.row = d /\ rec.attempt = 1
        /\ drow \in DeliveryRecord /\ drow.status = "PENDING" /\ drow.hook = h
    <3>1. drow \in DeliveryRecord /\ drow.status = "PENDING" /\ drow.hook = h
      BY <1>1 DEF DeliveryRecord
    <3>2. sender[s] \in SenderRecord /\ 1 \in 0..Attempts
      BY SenderTyped, SenderRecords DEF WebhooksInv
    <3>3. rec \in SenderRecord /\ rec.pc = "post" /\ rec.row = d /\ rec.attempt = 1
      BY <2>2, <3>2 DEF SenderRecord
    <3> QED
      BY <3>1, <3>3
  <2> HIDE DEF rec, drow
  <2>4. /\ sender'[s] = rec /\ \A q \in Sender \ {s} : sender'[q] = sender[q]
        /\ delivery'[d] = drow /\ \A x \in Delivery \ {d} : delivery'[x] = delivery[x]
        /\ sender' \in [Sender -> SenderRecord] /\ delivery' \in [Delivery -> DeliveryRecord]
    BY <2>1, <2>2, <2>3 DEF WebhooksInv, WebhooksTypeOK
  <2>5. \A q \in Sender : sender[q].row # d
    BY <2>2, WebhooksAssumption DEF WebhooksInv, SendersApart, Unused
  <2>6. SendersApart'
    BY <2>2, <2>3, <2>4, <2>5, SenderRecords DEF WebhooksInv, SendersApart, Busy
  <2>7. heard[d] = "nothing" /\ arrived[d] = 0
    BY <2>2 DEF WebhooksInv, UnusedIsFresh
  <2>8. SenderKnows'
    BY <1>1, <2>3, <2>4, <2>7 DEF WebhooksInv, SenderKnows
  <2>9. RowsHaveHooks' /\ UnusedIsFresh' /\ StatusMatchesAnswer'
    BY <1>1, <2>3, <2>4
       DEF WebhooksInv, RowsHaveHooks, UnusedIsFresh, StatusMatchesAnswer, Unused
  <2>10. PendingHasSender'
    <3> SUFFICES ASSUME NEW x \in Delivery, delivery'[x].status = "PENDING"
                 PROVE  x \in abandoned \/ \E q \in Sender : sender'[q].row = x
      BY <1>1 DEF PendingHasSender
    <3>1. CASE x = d
      BY <2>3, <2>4, <3>1
    <3>2. CASE x # d
      <4>1. sender[s].row = Nobody
        BY DEF InsertRow, WebhooksInv, SendersApart, Busy
      <4> QED
        BY <2>4, <3>2, <4>1, WebhooksAssumption DEF WebhooksInv, PendingHasSender
    <3> QED
      BY <3>1, <3>2
  <2> QED
    BY <1>1, <2>4, <2>6, <2>8, <2>9, <2>10 DEF WebhooksInv, WebhooksTypeOK, NoRepeat
<1>3. CASE ~Registered(h)
  <2>1. sender' = [sender EXCEPT ![s] = NoSender] /\ UNCHANGED delivery
        /\ sender[s].row = Nobody
    BY <1>3 DEF InsertRow, WebhooksInv, SendersApart, Busy
  <2>2. /\ sender'[s] = NoSender /\ \A q \in Sender \ {s} : sender'[q] = sender[q]
        /\ sender' \in [Sender -> SenderRecord] /\ \A q \in Sender : sender'[q].row = sender[q].row
    BY <2>1, SenderRecords DEF WebhooksInv, WebhooksTypeOK
  <2>3. SendersApart' /\ SenderKnows' /\ PendingHasSender'
    BY <1>1, <2>1, <2>2, SenderRecords
       DEF WebhooksInv, SendersApart, SenderKnows, PendingHasSender, Busy
  <2> QED
    BY <1>1, <2>1, <2>2, <2>3
       DEF WebhooksInv, WebhooksTypeOK, RowsHaveHooks, UnusedIsFresh, StatusMatchesAnswer,
           NoRepeat, Unused
<1> QED
  BY <1>2, <1>3

(* A step that keeps its row: what has to be shown of it alone.            *)
LEMMA SameRow ==
    ASSUME WebhooksInv, NEW s \in Sender, NEW rec \in SenderRecord,
           sender[s].pc \in Busy, rec.pc \in Busy, rec.row = sender[s].row,
           rec.attempt \in 1..Attempts,
           sender' = [sender EXCEPT ![s] = rec], UNCHANGED <<hook, delivery, abandoned>>,
           heard' \in [Delivery -> {"nothing", "accepted", "refused"}],
           arrived' \in [Delivery -> 0..Attempts],
           \A d \in Delivery \ {rec.row} : heard'[d] = heard[d] /\ arrived'[d] = arrived[d],
           /\ rec.pc \in {"post", "taken", "sleep"} => heard'[rec.row] = "nothing"
           /\ rec.pc = "final" => (rec.code = 200 <=> heard'[rec.row] = "accepted")
           /\ rec.pc = "sleep" => rec.attempt < Attempts
           /\ rec.pc = "post" => arrived'[rec.row] < rec.attempt
           /\ rec.pc \in {"taken", "sleep"} => arrived'[rec.row] <= rec.attempt
           /\ rec.pc = "taken" => arrived'[rec.row] > 0
    PROVE  WebhooksInv'
<1>1. /\ sender'[s] = rec /\ \A q \in Sender \ {s} : sender'[q] = sender[q]
      /\ sender' \in [Sender -> SenderRecord] /\ \A q \in Sender : sender'[q].row = sender[q].row
  BY DEF WebhooksInv, WebhooksTypeOK
<1>2. /\ rec.row \in Delivery /\ delivery[rec.row].status \in {"PENDING", "GONE"}
      /\ \A q \in Sender \ {s} : sender[q].row # rec.row
  BY DEF WebhooksInv, SendersApart
<1>3. SendersApart'
  BY <1>1, <1>2 DEF WebhooksInv, SendersApart, Busy
<1>4. SenderKnows'
  <2>1. ASSUME NEW q \in Sender \ {s}, sender[q].pc \in Busy
        PROVE  /\ heard'[sender[q].row] = heard[sender[q].row]
               /\ arrived'[sender[q].row] = arrived[sender[q].row]
    BY <1>2, <2>1 DEF WebhooksInv, SendersApart
  <2> QED
    BY <1>1, <2>1 DEF WebhooksInv, SenderKnows, Busy
<1>5. UnusedIsFresh' /\ StatusMatchesAnswer'
  BY <1>2 DEF WebhooksInv, UnusedIsFresh, StatusMatchesAnswer, Unused
<1>6. PendingHasSender' /\ RowsHaveHooks'
  BY <1>1 DEF WebhooksInv, PendingHasSender, RowsHaveHooks
<1>7. WebhooksTypeOK'
  BY <1>1 DEF WebhooksInv, WebhooksTypeOK
<1> QED
  BY <1>3, <1>4, <1>5, <1>6, <1>7 DEF WebhooksInv

LEMMA AttemptKeeps ==
    ASSUME WebhooksInv, NEW s \in Sender, AttemptArrives(s)
    PROVE  WebhooksInv' /\ NoRepeat
<1> DEFINE rec == [sender[s] EXCEPT !.pc = "taken"]
           d == sender[s].row
<1>1. /\ sender[s].pc = "post" /\ sender' = [sender EXCEPT ![s] = rec]
      /\ arrived' = [arrived EXCEPT ![d] = arrived[d] + 1]
      /\ UNCHANGED <<hook, delivery, heard, abandoned>>
  BY DEF AttemptArrives
<1>2. /\ rec \in SenderRecord /\ rec.pc = "taken" /\ rec.row = d
      /\ rec.attempt = sender[s].attempt
  BY SenderTyped DEF WebhooksInv, SenderRecord
<1>3. /\ d \in Delivery /\ heard[d] = "nothing" /\ sender[s].attempt \in 1..Attempts
      /\ arrived[d] < sender[s].attempt /\ arrived[d] \in 0..Attempts
  BY <1>1 DEF WebhooksInv, WebhooksTypeOK, SendersApart, SenderKnows, Busy
<1>4. /\ arrived[d] + 1 \in 0..Attempts /\ arrived[d] + 1 <= sender[s].attempt
      /\ arrived[d] + 1 > 0
  BY <1>3, SenderRecords
<1>5. /\ arrived' \in [Delivery -> 0..Attempts] /\ arrived'[d] = arrived[d] + 1
      /\ \A x \in Delivery \ {d} : arrived'[x] = arrived[x]
  BY <1>1, <1>3, <1>4 DEF WebhooksInv, WebhooksTypeOK
<1>6. heard' \in [Delivery -> {"nothing", "accepted", "refused"}]
  BY <1>1 DEF WebhooksInv, WebhooksTypeOK
<1> HIDE DEF rec, d
<1>7. WebhooksInv'
  BY <1>1, <1>2, <1>3, <1>4, <1>5, <1>6, SameRow DEF Busy, d
<1> QED
  BY <1>3, <1>5, <1>7 DEF NoRepeat

(* What an answer, or none, changes in a sender's record. *)
Answered(old, next, code) == [old EXCEPT !.pc = next, !.code = code]

LEMMA RecordAnswered ==
    ASSUME NEW old \in SenderRecord, NEW next \in {"sleep", "final"},
           NEW code \in Answers \cup {0}
    PROVE  /\ Answered(old, next, code) \in SenderRecord
           /\ Answered(old, next, code).pc = next
           /\ Answered(old, next, code).row = old.row
           /\ Answered(old, next, code).attempt = old.attempt
           /\ Answered(old, next, code).code = code
<1>1. [old EXCEPT !.pc = next, !.code = code] \in SenderRecord
  BY DEF SenderRecord
<1> QED
  BY <1>1 DEF SenderRecord, Answered

(* An answer, or none: the sender ends on 200 and 400, and after its last  *)
(* attempt.                                                                *)
LEMMA AnswerKeeps ==
    ASSUME WebhooksInv, NEW s \in Sender, NEW code \in Answers \cup {0},
           (code \in Answers /\ Answer(s, code)) \/ (code = 0 /\ NoAnswer(s))
    PROVE  WebhooksInv' /\ NoRepeat
<1> DEFINE next == After(s, code)
           rec == Answered(sender[s], next, code)
           d == sender[s].row
<1>1. /\ sender[s].pc \in {"post", "taken"} /\ sender' = [sender EXCEPT ![s] = rec]
      /\ UNCHANGED <<hook, delivery, arrived, abandoned>>
  BY DEF Answer, NoAnswer, Answered
<1>2. /\ d \in Delivery /\ heard[d] = "nothing" /\ sender[s].attempt \in 1..Attempts
      /\ arrived[d] <= sender[s].attempt /\ arrived[d] \in 0..Attempts
  BY <1>1, SenderRecords
     DEF WebhooksInv, WebhooksTypeOK, SendersApart, SenderKnows, Busy
<1>3. /\ next \in {"sleep", "final"}
      /\ next = "sleep" => code \notin {200, 400} /\ sender[s].attempt < Attempts
  BY DEF After
<1> HIDE DEF next
<1>4. /\ rec \in SenderRecord /\ rec.pc = next /\ rec.row = d
      /\ rec.attempt = sender[s].attempt /\ rec.code = code
  <2>1. sender[s] \in SenderRecord
    BY SenderTyped DEF WebhooksInv
  <2>2. next \in {"sleep", "final"}
    BY <1>3
  <2> QED
    BY <2>1, <2>2, RecordAnswered
<1>5. /\ heard' \in [Delivery -> {"nothing", "accepted", "refused"}]
      /\ heard'[d] = "accepted" <=> code = 200
      /\ heard'[d] = "nothing" <=> code \notin {200, 400}
      /\ \A x \in Delivery \ {d} : heard'[x] = heard[x]
  <2>1. CASE code \in Answers /\ Answer(s, code)
    BY <1>2, <2>1 DEF Answer, Answers, WebhooksInv, WebhooksTypeOK
  <2>2. CASE code = 0 /\ NoAnswer(s)
    BY <1>2, <2>2 DEF NoAnswer, WebhooksInv, WebhooksTypeOK
  <2> QED
    BY <2>1, <2>2
<1>6. arrived' \in [Delivery -> 0..Attempts]
  BY <1>1 DEF WebhooksInv, WebhooksTypeOK
<1>7. sender[s].pc \in Busy /\ rec.pc \in Busy
  BY <1>1, <1>3, <1>4 DEF Busy
<1>8. rec.row = sender[s].row
  BY <1>4
<1> HIDE DEF rec, d
<1>9. /\ rec.pc = "final" => (rec.code = 200 <=> heard'[rec.row] = "accepted")
      /\ rec.pc = "sleep" => heard'[rec.row] = "nothing" /\ rec.attempt < Attempts
      /\ arrived'[rec.row] <= rec.attempt
      /\ \A x \in Delivery \ {rec.row} : heard'[x] = heard[x] /\ arrived'[x] = arrived[x]
      /\ rec.attempt \in 1..Attempts /\ rec.pc \in {"sleep", "final"}
  BY <1>1, <1>2, <1>3, <1>4, <1>5
<1>10. WebhooksInv'
  <2>1. rec \in SenderRecord /\ sender' = [sender EXCEPT ![s] = rec]
    BY <1>1, <1>4
  <2>2. UNCHANGED <<hook, delivery, abandoned>>
    BY <1>1
  <2>3. \A x \in Delivery \ {rec.row} : heard'[x] = heard[x] /\ arrived'[x] = arrived[x]
    BY <1>9
  <2>4. /\ rec.pc \in {"post", "taken", "sleep"} => heard'[rec.row] = "nothing"
        /\ rec.pc = "final" => (rec.code = 200 <=> heard'[rec.row] = "accepted")
        /\ rec.pc = "sleep" => rec.attempt < Attempts
        /\ rec.pc = "post" => arrived'[rec.row] < rec.attempt
        /\ rec.pc \in {"taken", "sleep"} => arrived'[rec.row] <= rec.attempt
        /\ rec.pc = "taken" => arrived'[rec.row] > 0
    BY <1>9
  <2>5. rec.attempt \in 1..Attempts
    BY <1>9
  <2> QED
    BY <1>5, <1>6, <1>7, <1>8, <2>1, <2>2, <2>3, <2>4, <2>5, SameRow
<1> QED
  BY <1>1, <1>10 DEF NoRepeat

LEMMA WakeKeeps ==
    ASSUME WebhooksInv, NEW s \in Sender, Wake(s)
    PROVE  WebhooksInv' /\ NoRepeat
<1> DEFINE next == sender[s].attempt + 1
           rec == [sender[s] EXCEPT !.pc = "post", !.attempt = next]
           d == sender[s].row
<1>1. /\ sender[s].pc = "sleep" /\ sender' = [sender EXCEPT ![s] = rec]
      /\ UNCHANGED <<hook, delivery, arrived, heard, abandoned>>
  BY DEF Wake
<1>2. /\ d \in Delivery /\ heard[d] = "nothing" /\ sender[s].attempt \in 1..Attempts
      /\ arrived[d] <= sender[s].attempt /\ arrived[d] \in 0..Attempts
      /\ sender[s].attempt < Attempts
  BY <1>1 DEF WebhooksInv, WebhooksTypeOK, SendersApart, SenderKnows, Busy
<1>3. next \in 0..Attempts /\ next \in 1..Attempts /\ arrived[d] < next
  BY <1>2, SenderRecords
<1> HIDE DEF next
<1>4. rec \in SenderRecord /\ rec.pc = "post" /\ rec.row = d /\ rec.attempt = next
  BY <1>3, SenderTyped DEF WebhooksInv, SenderRecord
<1>5. /\ heard' \in [Delivery -> {"nothing", "accepted", "refused"}]
      /\ arrived' \in [Delivery -> 0..Attempts]
  BY <1>1 DEF WebhooksInv, WebhooksTypeOK
<1> HIDE DEF rec, d
<1>6. WebhooksInv'
  BY <1>1, <1>2, <1>3, <1>4, <1>5, SameRow DEF Busy, d
<1> QED
  BY <1>1, <1>6 DEF NoRepeat

(* A sender leaves: its row is written, or is given up.                    *)
LEMMA FinishKeeps ==
    ASSUME WebhooksInv, NEW s \in Sender, Finish(s) \/ FinishFails(s)
    PROVE  WebhooksInv' /\ NoRepeat
<1> DEFINE d == sender[s].row
<1>1. /\ sender[s].pc = "final" /\ sender' = [sender EXCEPT ![s] = NoSender]
      /\ UNCHANGED <<hook, arrived, heard>>
  BY DEF Finish, FinishFails
<1>2. /\ d \in Delivery /\ delivery[d].status \in {"PENDING", "GONE"}
      /\ \A q \in Sender \ {s} : sender[q].row # d
      /\ sender[s].code = 200 <=> heard[d] = "accepted"
  BY <1>1 DEF WebhooksInv, SendersApart, SenderKnows, Busy
<1>3. /\ sender'[s] = NoSender /\ \A q \in Sender \ {s} : sender'[q] = sender[q]
      /\ sender' \in [Sender -> SenderRecord]
  BY <1>1, SenderRecords DEF WebhooksInv, WebhooksTypeOK
<1> HIDE DEF d
<1>4. /\ delivery' \in [Delivery -> DeliveryRecord]
      /\ \A x \in Delivery \ {d} : delivery'[x] = delivery[x]
      /\ delivery'[d].hook = delivery[d].hook /\ delivery'[d].status # "UNUSED"
      /\ delivery'[d].status = "PENDING" => d \in abandoned'
      /\ delivery'[d].status = "SUCCESS" => heard[d] = "accepted"
      /\ delivery'[d].status = "FAILED" => heard[d] # "accepted"
      /\ abandoned \subseteq abandoned' /\ abandoned' \in SUBSET Delivery
  <2>1. CASE Finish(s)
    <3>1. /\ delivery' = IF delivery[d].status = "PENDING"
                         THEN [delivery EXCEPT ![d].status = Outcome(sender[s].code)]
                         ELSE delivery
          /\ UNCHANGED abandoned
      BY <2>1 DEF Finish, d
    <3>2. /\ Outcome(sender[s].code) \in {"SUCCESS", "FAILED"}
          /\ Outcome(sender[s].code) = "SUCCESS" <=> heard[d] = "accepted"
      BY <1>2 DEF Outcome
    <3> QED
      BY <1>2, <3>1, <3>2 DEF WebhooksInv, WebhooksTypeOK, DeliveryRecord
  <2>2. CASE FinishFails(s)
    BY <1>2, <2>2 DEF FinishFails, WebhooksInv, WebhooksTypeOK, d
  <2> QED
    BY <2>1, <2>2
<1>5. SendersApart' /\ SenderKnows'
  <2>1. ASSUME NEW q \in Sender, sender'[q].pc \in Busy
        PROVE  /\ q # s /\ sender'[q] = sender[q] /\ sender[q].row # d
               /\ delivery'[sender[q].row] = delivery[sender[q].row]
               /\ \A b \in Sender \ {q} : sender'[b].row # sender[q].row
    <3>1. q # s /\ sender'[q] = sender[q] /\ sender[q].row \in Delivery
      BY <1>3, <2>1, SenderRecords DEF WebhooksInv, SendersApart, Busy
    <3>2. \A b \in Sender \ {q} : sender[b].row # sender[q].row
      BY <2>1, <3>1 DEF WebhooksInv, SendersApart
    <3> QED
      BY <1>2, <1>3, <1>4, <3>1, <3>2, SenderRecords, WebhooksAssumption
  <2>2. \A q \in Sender : sender'[q].pc \notin Busy =>
           sender'[q].row = Nobody /\ (sender'[q].pc = "scheduled" => sender'[q].hook \in Hook)
    BY <1>3, SenderRecords DEF WebhooksInv, SendersApart
  <2>3. SendersApart'
    BY <2>1, <2>2 DEF WebhooksInv, SendersApart
  <2>4. SenderKnows'
    BY <1>1, <2>1 DEF WebhooksInv, SenderKnows, Busy
  <2> QED
    BY <2>3, <2>4
<1>6. RowsHaveHooks' /\ UnusedIsFresh' /\ StatusMatchesAnswer'
  BY <1>1, <1>2, <1>4
     DEF WebhooksInv, RowsHaveHooks, UnusedIsFresh, StatusMatchesAnswer, Unused
<1>7. PendingHasSender'
  <2> SUFFICES ASSUME NEW x \in Delivery, delivery'[x].status = "PENDING"
               PROVE  x \in abandoned' \/ \E q \in Sender : sender'[q].row = x
    BY DEF PendingHasSender
  <2>1. CASE x = d
    BY <1>4, <2>1
  <2>2. CASE x # d
    BY <1>3, <1>4, <2>2 DEF WebhooksInv, PendingHasSender, d
  <2> QED
    BY <2>1, <2>2
<1> QED
  BY <1>1, <1>3, <1>4, <1>5, <1>6, <1>7 DEF WebhooksInv, WebhooksTypeOK, NoRepeat

LEMMA SendersLostKeeps ==
    ASSUME WebhooksInv, SendersLost
    PROVE  WebhooksInv' /\ NoRepeat
<1>1. /\ sender' = [s \in Sender |-> NoSender]
      /\ abandoned' = abandoned
            \cup {sender[s].row : s \in {x \in Sender : sender[x].row # Nobody}}
      /\ UNCHANGED <<hook, delivery, arrived, heard>>
  BY DEF SendersLost
<1>2. abandoned' \in SUBSET Delivery
  BY <1>1, SenderTyped DEF WebhooksInv, WebhooksTypeOK
<1>3. WebhooksTypeOK' /\ SendersApart' /\ SenderKnows'
  BY <1>1, <1>2, SenderRecords
     DEF WebhooksInv, WebhooksTypeOK, SendersApart, SenderKnows, Busy
<1>4. PendingHasSender'
  BY <1>1, WebhooksAssumption DEF WebhooksInv, PendingHasSender
<1> QED
  BY <1>1, <1>3, <1>4
     DEF WebhooksInv, RowsHaveHooks, UnusedIsFresh, StatusMatchesAnswer, NoRepeat, Unused

LEMMA WebhooksStep ==
    ASSUME WebhooksInv, [WebhooksNext]_webhooksVars
    PROVE  WebhooksInv' /\ NoRepeat
<1>1. CASE UNCHANGED webhooksVars
  BY <1>1 DEF webhooksVars, WebhooksInv, WebhooksTypeOK, SendersApart, RowsHaveHooks,
              SenderKnows, UnusedIsFresh, StatusMatchesAnswer, PendingHasSender, Unused,
              NoRepeat
<1>2. ASSUME NEW h \in Hook,
             \/ \E wants \in BOOLEAN : CreateHook(h, wants) \/ UpdateHook(h, wants)
             \/ RotateSecret(h) \/ RemoveHook(h)
      PROVE  WebhooksInv' /\ NoRepeat
  BY <1>2, ManagersKeep DEF CreateHook, UpdateHook, RotateSecret, RemoveHook, NoRepeat
<1>3. CASE (\E h \in Hook : TestSend(h)) \/ Dispatch \/ \E d \in Delivery : RetryDelivery(d)
  BY <1>3, ScheduleKeeps DEF TestSend, Dispatch, RetryDelivery, NoRepeat
<1>4. ASSUME NEW s \in Sender, SenderStep(s) PROVE WebhooksInv' /\ NoRepeat
  <2>1. 0 \in Answers \cup {0} /\ Answers \subseteq Answers \cup {0}
    OBVIOUS
  <2> QED
    BY <1>4, <2>1, InsertRowKeeps, AttemptKeeps, AnswerKeeps, WakeKeeps, FinishKeeps
       DEF SenderStep
<1> QED
  BY <1>1, <1>2, <1>3, <1>4, SendersLostKeeps DEF WebhooksNext

LEMMA WebhooksInvHolds == WebhooksSpec => []WebhooksInv
<1>1. WebhooksInv /\ [WebhooksNext]_webhooksVars => WebhooksInv'
  BY WebhooksStep
<1> QED
  BY <1>1, WebhooksInvInit, PTL DEF WebhooksSpec

(* The status of a delivery is what the subscriber answered, and no final  *)
(* answer is followed by another attempt, for any number of deliveries at  *)
(* once and whatever the managers, the network and restarts do.            *)
THEOREM AnswersSafety == WebhooksSpec => AnswersRespected
<1>1. WebhooksInv /\ [WebhooksNext]_webhooksVars => [NoRepeat]_webhooksVars
  BY WebhooksStep
<1>2. WebhooksInv => StatusMatchesAnswer
  BY DEF WebhooksInv
<1> QED
  BY <1>1, <1>2, WebhooksInvHolds, PTL
     DEF WebhooksSpec, AnswersRespected, NoRepeatAfterAnswer, NoRepeat

(* A delivery that stays PENDING has a sender at work, or lost it to a     *)
(* restart or to a failed write.                                           *)
THEOREM PendingSafety == WebhooksSpec => []PendingHasSender
<1>1. WebhooksInv => PendingHasSender
  BY DEF WebhooksInv
<1> QED
  BY <1>1, WebhooksInvHolds, PTL

-----------------------------------------------------------------------------
(* The refinement of Deliveries.  A delivery is sent as long as a sender   *)
(* has its row.                                                            *)

ShownStatus == [d \in Delivery |-> delivery[d].status]
PromiseVars == <<ShownStatus, RowsAtWork, arrived, heard>>

LEMMA WorkMembers ==
    ASSUME NEW x
    PROVE  /\ x \in RowsAtWork <=> x # Nobody /\ \E s \in Sender : sender[s].row = x
           /\ x \in RowsAtWork' <=> x # Nobody /\ \E s \in Sender : sender'[s].row = x
BY DEF RowsAtWork

LEMMA WorkSame ==
    ASSUME \A s \in Sender : sender'[s].row = sender[s].row
    PROVE  RowsAtWork' = RowsAtWork
BY WorkMembers

LEMMA WorkEnds ==
    ASSUME WebhooksInv, NEW s \in Sender, sender' = [sender EXCEPT ![s] = NoSender]
    PROVE  RowsAtWork' = RowsAtWork \ {sender[s].row}
<1>1. sender'[s].row = Nobody /\ \A q \in Sender \ {s} : sender'[q] = sender[q]
  BY SenderRecords DEF WebhooksInv, WebhooksTypeOK
<1>2. \A q \in Sender \ {s} : sender[q].row = sender[s].row => sender[q].row = Nobody
  BY DEF WebhooksInv, SendersApart
<1> QED
  BY <1>1, <1>2, WorkMembers

LEMMA ScheduleRows ==
    ASSUME WebhooksInv,
           \/ \E h \in Hook : TestSend(h)
           \/ Dispatch
           \/ \E d \in Delivery : RetryDelivery(d)
    PROVE  UNCHANGED PromiseVars
<1>1. UNCHANGED <<delivery, arrived, heard>>
  BY DEF TestSend, Dispatch, RetryDelivery
<1>2. \A s \in Sender : Resting(s) => sender[s].row = Nobody
  BY DEF WebhooksInv, SendersApart, Resting, Busy
<1>3. \A h \in Hook \cup {Nobody} : Scheduled(h).row = Nobody
  BY DEF Scheduled, NoSender
<1>4. \A s \in Sender :
         \/ sender'[s] = sender[s]
         \/ Resting(s) /\ \E h \in Hook : sender'[s] = Scheduled(h)
  <2>1. CASE \E h \in Hook : TestSend(h)
    BY <2>1 DEF TestSend, WebhooksInv, WebhooksTypeOK
  <2>2. CASE \E d \in Delivery : RetryDelivery(d)
    <3>1. PICK d \in Delivery : RetryDelivery(d)
      BY <2>2
    <3>2. delivery[d].hook \in Hook
      BY <3>1 DEF RetryDelivery, WebhooksInv, RowsHaveHooks
    <3> QED
      BY <3>1, <3>2 DEF RetryDelivery, WebhooksInv, WebhooksTypeOK
  <2>3. CASE Dispatch
    <3>1. PICK f \in [Subscribers -> {s \in Sender : Resting(s)}] :
             sender' = [s \in Sender |->
                           IF \E h \in Subscribers : f[h] = s
                           THEN Scheduled(CHOOSE h \in Subscribers : f[h] = s)
                           ELSE sender[s]]
      BY <2>3 DEF Dispatch
    <3>2. ASSUME NEW s \in Sender, NEW h \in Subscribers, f[h] = s
          PROVE  Resting(s) /\ \E g \in Hook : sender'[s] = Scheduled(g)
      <4> DEFINE g == CHOOSE x \in Subscribers : f[x] = s
      <4>1. g \in Hook /\ Resting(s)
        BY <3>2 DEF Subscribers
      <4>2. sender'[s] = Scheduled(g)
        BY <3>1, <3>2
      <4> QED
        BY <4>1, <4>2
    <3> QED
      BY <3>1, <3>2
  <2> QED
    BY <2>1, <2>2, <2>3
<1>5. RowsAtWork' = RowsAtWork
  BY <1>2, <1>3, <1>4, WorkSame
<1> QED
  BY <1>1, <1>5 DEF PromiseVars, ShownStatus

LEMMA RemoveHookHides ==
    ASSUME WebhooksInv, NEW h \in Hook, RemoveHook(h),
           NEW S, S = {d \in Delivery : delivery[d].hook = h}
    PROVE  Promise!Remove(S)
<1>1. /\ delivery' = [d \in Delivery |->
                         IF delivery[d].hook = h
                         THEN [delivery[d] EXCEPT !.status = "GONE"]
                         ELSE delivery[d]]
      /\ UNCHANGED <<sender, arrived, heard>>
  BY DEF RemoveHook
<1>2. \A d \in Delivery : delivery[d] \in DeliveryRecord
  BY DEF WebhooksInv, WebhooksTypeOK
<1>3. ASSUME NEW d \in Delivery
      PROVE  delivery'[d].status = IF d \in S THEN "GONE" ELSE delivery[d].status
  BY <1>1, <1>2 DEF DeliveryRecord
<1>4. ShownStatus' = [d \in Delivery |-> IF d \in S THEN "GONE" ELSE ShownStatus[d]]
  BY <1>3 DEF ShownStatus
<1>5. RowsAtWork' = RowsAtWork
  BY <1>1, WorkSame
<1>6. \A d \in S : ShownStatus[d] # "UNUSED"
  BY WebhooksAssumption DEF ShownStatus, WebhooksInv, UnusedIsFresh, Unused
<1> QED
  BY <1>1, <1>4, <1>5, <1>6 DEF Promise!Remove, ShownStatus

LEMMA InsertRowBegins ==
    ASSUME WebhooksInv, NEW s \in Sender, InsertRow(s)
    PROVE  UNCHANGED PromiseVars \/ \E d \in Delivery : Promise!Begin(d)
<1> DEFINE d == CHOOSE x \in Delivery : Unused(x)
<1>1. /\ sender[s].pc = "scheduled" /\ sender[s].row = Nobody
      /\ UNCHANGED <<arrived, heard>>
  BY DEF InsertRow, WebhooksInv, SendersApart, Busy
<1>2. CASE Registered(sender[s].hook)
  <2> DEFINE rec == [sender[s] EXCEPT !.pc = "post", !.row = d, !.attempt = 1]
             drow == [status |-> "PENDING", hook |-> sender[s].hook]
  <2>1. /\ \E x \in Delivery : Unused(x)
        /\ delivery' = [delivery EXCEPT ![d] = drow]
        /\ sender' = [sender EXCEPT ![s] = rec]
    BY <1>2 DEF InsertRow
  <2>2. d \in Delivery /\ delivery[d].status = "UNUSED"
    BY <2>1 DEF Unused
  <2>3. rec.row = d
    BY SenderTyped DEF WebhooksInv, SenderRecord
  <2>4. drow.status = "PENDING"
    OBVIOUS
  <2> HIDE DEF d, rec, drow
  <2>5. /\ sender'[s].row = d /\ \A q \in Sender \ {s} : sender'[q] = sender[q]
        /\ \A x \in Delivery : delivery'[x].status = IF x = d THEN "PENDING" ELSE delivery[x].status
    BY <2>1, <2>2, <2>3, <2>4 DEF WebhooksInv, WebhooksTypeOK
  <2>6. RowsAtWork' = RowsAtWork \cup {d}
    BY <1>1, <2>2, <2>5, WorkMembers, WebhooksAssumption
  <2>7. ShownStatus' = [ShownStatus EXCEPT ![d] = "PENDING"]
    BY <2>2, <2>5 DEF ShownStatus
  <2>8. ShownStatus[d] = "UNUSED"
    BY <2>2 DEF ShownStatus
  <2> QED
    BY <1>1, <2>2, <2>6, <2>7, <2>8 DEF Promise!Begin, ShownStatus
<1>3. CASE ~Registered(sender[s].hook)
  <2>1. sender' = [sender EXCEPT ![s] = NoSender] /\ UNCHANGED delivery
    BY <1>3 DEF InsertRow
  <2>2. RowsAtWork' = RowsAtWork
    BY <1>1, <2>1, WorkEnds, WorkMembers
  <2> QED
    BY <1>1, <2>1, <2>2 DEF PromiseVars, ShownStatus
<1> QED
  BY <1>2, <1>3

(* A step that keeps the sender's row keeps what is at work.               *)
LEMMA WorkGoesOn ==
    ASSUME WebhooksInv, NEW s \in Sender, NEW rec, sender' = [sender EXCEPT ![s] = rec],
           rec.row = sender[s].row
    PROVE  RowsAtWork' = RowsAtWork
BY WorkSame DEF WebhooksInv, WebhooksTypeOK

LEMMA AtWork ==
    ASSUME WebhooksInv, NEW s \in Sender, sender[s].pc \in Busy
    PROVE  /\ sender[s].row \in Delivery /\ sender[s].row \in RowsAtWork
           /\ delivery[sender[s].row].status \in {"PENDING", "GONE"}
BY WorkMembers, WebhooksAssumption DEF WebhooksInv, SendersApart

LEMMA AttemptTries ==
    ASSUME WebhooksInv, WebhooksInv', NEW s \in Sender, AttemptArrives(s)
    PROVE  Promise!Try(sender[s].row)
<1> DEFINE d == sender[s].row
<1>1. /\ sender[s].pc = "post" /\ sender' = [sender EXCEPT ![s].pc = "taken"]
      /\ arrived' = [arrived EXCEPT ![d] = arrived[d] + 1]
      /\ UNCHANGED <<delivery, heard>>
  BY DEF AttemptArrives
<1>2. d \in Delivery /\ d \in RowsAtWork
  BY <1>1, AtWork DEF Busy
<1>3. heard[d] = "nothing" /\ arrived[d] \in Nat /\ arrived[d] + 1 <= Attempts
  <2>1. heard[d] = "nothing" /\ arrived[d] \in 0..Attempts
    BY <1>1, <1>2 DEF WebhooksInv, WebhooksTypeOK, SenderKnows
  <2>2. arrived'[d] = arrived[d] + 1 /\ arrived'[d] \in 0..Attempts
    BY <1>1, <1>2 DEF WebhooksInv, WebhooksTypeOK
  <2> QED
    BY <2>1, <2>2, SenderRecords
<1>4. RowsAtWork' = RowsAtWork
  <2>1. [sender[s] EXCEPT !.pc = "taken"].row = sender[s].row
    BY SenderTyped DEF WebhooksInv, SenderRecord
  <2> QED
    BY <1>1, <2>1, WorkGoesOn
<1>5. arrived[d] < Attempts
  BY <1>3, SenderRecords
<1> QED
  BY <1>1, <1>2, <1>3, <1>4, <1>5 DEF Promise!Try, Promise!Unanswered

LEMMA AnswerAnswers ==
    ASSUME WebhooksInv, NEW s \in Sender, NEW code \in Answers, Answer(s, code)
    PROVE  \/ UNCHANGED PromiseVars
           \/ \E a \in {"accepted", "refused"} : Promise!Answer(sender[s].row, a)
<1> DEFINE d == sender[s].row
           next == After(s, code)
<1>1. /\ sender[s].pc = "taken"
      /\ sender' = [sender EXCEPT ![s] = [sender[s] EXCEPT !.pc = next, !.code = code]]
      /\ UNCHANGED <<delivery, arrived>>
  BY DEF Answer
<1>2. d \in Delivery /\ d \in RowsAtWork
  BY <1>1, AtWork DEF Busy
<1>3. heard[d] = "nothing" /\ arrived[d] > 0
  BY <1>1 DEF WebhooksInv, SenderKnows
<1>4. RowsAtWork' = RowsAtWork
  <2> HIDE DEF next
  <2>1. [sender[s] EXCEPT !.pc = next, !.code = code].row = sender[s].row
    BY SenderTyped DEF WebhooksInv, SenderRecord
  <2> QED
    BY <1>1, <2>1, WorkGoesOn
<1>5. CASE code = 500
  <2>1. heard' = heard
    BY <1>2, <1>5 DEF Answer, WebhooksInv, WebhooksTypeOK
  <2> QED
    BY <1>1, <1>4, <2>1 DEF PromiseVars, ShownStatus
<1>6. ASSUME NEW a \in {"accepted", "refused"}, heard' = [heard EXCEPT ![d] = a]
      PROVE  Promise!Answer(d, a)
  BY <1>1, <1>2, <1>3, <1>4, <1>6 DEF Promise!Answer, Promise!Unanswered
<1>7. CASE code = 200
  BY <1>6, <1>7 DEF Answer
<1>8. CASE code = 400
  BY <1>6, <1>8 DEF Answer
<1> QED
  BY <1>5, <1>7, <1>8 DEF Answers

LEMMA QuietSenders ==
    ASSUME WebhooksInv, NEW s \in Sender, NoAnswer(s) \/ Wake(s)
    PROVE  UNCHANGED PromiseVars
<1>1. UNCHANGED <<delivery, arrived, heard>>
  BY DEF NoAnswer, Wake
<1>2. sender[s] \in SenderRecord
  BY SenderTyped DEF WebhooksInv
<1>3. CASE NoAnswer(s)
  <2> DEFINE rec == [sender[s] EXCEPT !.pc = After(s, 0), !.code = 0]
  <2>1. sender' = [sender EXCEPT ![s] = rec]
    BY <1>3 DEF NoAnswer
  <2>2. rec.row = sender[s].row
    BY <1>2 DEF SenderRecord
  <2> HIDE DEF rec
  <2>3. RowsAtWork' = RowsAtWork
    BY <2>1, <2>2, WorkGoesOn
  <2> QED
    BY <1>1, <2>3 DEF PromiseVars, ShownStatus
<1>4. CASE Wake(s)
  <2> DEFINE rec == [sender[s] EXCEPT !.pc = "post", !.attempt = sender[s].attempt + 1]
  <2>1. sender' = [sender EXCEPT ![s] = rec]
    BY <1>4 DEF Wake
  <2>2. rec.row = sender[s].row
    BY <1>2 DEF SenderRecord
  <2> HIDE DEF rec
  <2>3. RowsAtWork' = RowsAtWork
    BY <2>1, <2>2, WorkGoesOn
  <2> QED
    BY <1>1, <2>3 DEF PromiseVars, ShownStatus
<1> QED
  BY <1>3, <1>4

LEMMA FinishEnds ==
    ASSUME WebhooksInv, NEW s \in Sender, Finish(s) \/ FinishFails(s),
           NEW d \in Delivery, d = sender[s].row
    PROVE  Promise!End(d) \/ Promise!GiveUp({d})
<1>1. /\ sender[s].pc = "final" /\ sender' = [sender EXCEPT ![s] = NoSender]
      /\ UNCHANGED <<arrived, heard>>
  BY DEF Finish, FinishFails
<1>2. /\ d \in Delivery /\ d \in RowsAtWork
      /\ sender[s].code = 200 <=> heard[d] = "accepted"
  BY <1>1, AtWork DEF Busy, WebhooksInv, SenderKnows
<1>3. RowsAtWork' = RowsAtWork \ {d}
  BY <1>1, WorkEnds
<1>4. CASE UNCHANGED delivery
  BY <1>1, <1>3, <1>4 DEF Promise!GiveUp
<1>5. CASE Finish(s) /\ delivery[d].status = "PENDING"
  <2> DEFINE out == IF heard[d] = "accepted" THEN "SUCCESS" ELSE "FAILED"
  <2>1. delivery' = [delivery EXCEPT ![d].status = out]
    BY <1>2, <1>5 DEF Finish, Outcome
  <2> HIDE DEF out
  <2>2. \A x \in Delivery : delivery'[x].status = IF x = d THEN out ELSE delivery[x].status
    <3>1. /\ delivery \in [Delivery -> DeliveryRecord]
          /\ [delivery[d] EXCEPT !.status = out].status = out
      BY <1>2 DEF WebhooksInv, WebhooksTypeOK, DeliveryRecord
    <3> QED
      BY <1>2, <2>1, <3>1
  <2>3. ShownStatus' = [ShownStatus EXCEPT ![d] = out]
    <3>1. ShownStatus' = [x \in Delivery |-> IF x = d THEN out ELSE delivery[x].status]
      BY <2>2, Zenon DEF ShownStatus
    <3> QED
      BY <1>2, <3>1 DEF ShownStatus
  <2>4. ShownStatus[d] = "PENDING"
    BY <1>2, <1>5 DEF ShownStatus
  <2> QED
    BY <1>1, <1>2, <1>3, <2>3, <2>4 DEF Promise!End, ShownStatus, out
<1> QED
  BY <1>4, <1>5 DEF Finish, FinishFails

LEMMA LostGivesUp ==
    ASSUME SendersLost
    PROVE  Promise!GiveUp(RowsAtWork)
<1>1. /\ sender' = [s \in Sender |-> NoSender]
      /\ UNCHANGED <<delivery, arrived, heard>>
  BY DEF SendersLost
<1>2. RowsAtWork' = {}
  BY <1>1, SenderRecords, WorkMembers
<1> QED
  BY <1>1, <1>2 DEF Promise!GiveUp

LEMMA WebhooksPromise ==
    ASSUME WebhooksInv, WebhooksInv', [WebhooksNext]_webhooksVars
    PROVE  [Promise!Next]_PromiseVars
<1>1. CASE UNCHANGED webhooksVars
  BY <1>1 DEF webhooksVars, PromiseVars, ShownStatus, RowsAtWork
<1>2. ASSUME NEW h \in Hook,
             \/ \E wants \in BOOLEAN : CreateHook(h, wants) \/ UpdateHook(h, wants)
             \/ RotateSecret(h)
      PROVE  UNCHANGED PromiseVars
  BY <1>2 DEF CreateHook, UpdateHook, RotateSecret, PromiseVars, ShownStatus, RowsAtWork
<1>3. ASSUME NEW h \in Hook, RemoveHook(h) PROVE Promise!Next
  <2>1. PICK S \in SUBSET Delivery : S = {d \in Delivery : delivery[d].hook = h}
    OBVIOUS
  <2>2. Promise!Remove(S)
    BY <1>3, <2>1, RemoveHookHides
  <2> QED
    BY <2>2 DEF Promise!Next
<1>4. ASSUME NEW s \in Sender, SenderStep(s) PROVE [Promise!Next]_PromiseVars
  <2>1. CASE InsertRow(s)
    BY <2>1, InsertRowBegins DEF Promise!Next
  <2>2. CASE AttemptArrives(s)
    BY <2>2, AttemptTries, AtWork DEF Promise!Next, AttemptArrives, Busy
  <2>3. CASE \E code \in Answers : Answer(s, code)
    <3>1. sender[s].row \in Delivery
      BY <2>3, AtWork DEF Answer, Busy
    <3>2. \/ UNCHANGED PromiseVars
          \/ \E a \in {"accepted", "refused"} : Promise!Answer(sender[s].row, a)
      BY <2>3, AnswerAnswers
    <3> QED
      BY <3>1, <3>2 DEF Promise!Next
  <2>4. CASE NoAnswer(s) \/ Wake(s)
    BY <2>4, QuietSenders
  <2>5. CASE Finish(s) \/ FinishFails(s)
    <3>1. PICK d \in Delivery : d = sender[s].row
      BY <2>5, AtWork DEF Finish, FinishFails, Busy
    <3>2. Promise!End(d) \/ Promise!GiveUp({d})
      BY <2>5, <3>1, FinishEnds
    <3>3. {d} \in SUBSET Delivery
      OBVIOUS
    <3> QED
      BY <3>2, <3>3 DEF Promise!Next
  <2> QED
    BY <1>4, <2>1, <2>2, <2>3, <2>4, <2>5 DEF SenderStep
<1>5. CASE SendersLost
  <2>1. RowsAtWork \in SUBSET Delivery
    BY SenderTyped DEF RowsAtWork, WebhooksInv
  <2> QED
    BY <1>5, <2>1, LostGivesUp DEF Promise!Next
<1> QED
  BY <1>1, <1>2, <1>3, <1>4, <1>5, ScheduleRows DEF WebhooksNext

(* Deliveries keep what Deliveries promises, for any number of hooks, rows,*)
(* senders and attempts: the steps that schedule, wait, wake or get no     *)
(* final answer do not show; a removed hook hides its rows; a restart or a *)
(* write that fails gives up what was being sent, for good.                *)
THEOREM DeliveriesImplemented == WebhooksSpec => DeliveriesPromised
<1>1. WebhooksInit => Promise!Init
  <2>1. WebhooksInit => RowsAtWork = {}
    BY SenderRecords DEF WebhooksInit, RowsAtWork
  <2> QED
    BY <2>1 DEF WebhooksInit, Promise!Init
<1>2. WebhooksInv /\ WebhooksInv' /\ [WebhooksNext]_webhooksVars => [Promise!Next]_PromiseVars
  BY WebhooksPromise
<1> QED
  BY <1>1, <1>2, WebhooksInvHolds, PTL
     DEF WebhooksSpec, DeliveriesPromised, Promise!Spec, PromiseVars, ShownStatus

-----------------------------------------------------------------------------
(* Recurring *)

(* What the job holds while it is at work; that Current names one of them. *)
JobAtWork == job.pc # "idle" => job.todo # {}

TodoReal == \A r \in job.todo : rule[r].row # "UNUSED"

Tended(r) == job.pc \in {"advance", "rescue"} /\ r = Current

(* Before the job comes to a rule it has made an issue for every lapse at  *)
(* most.  It may be one ahead in the rule at hand, and in a rule that was  *)
(* deleted under it, to which it does not come back.                       *)
SlotsUsed ==
    \A r \in Rule :
        \/ slots[r].made <= slots[r].lapses
        \/ /\ slots[r].made <= slots[r].lapses + 1
           /\ Tended(r) \/ (rule[r].row = "GONE" /\ r \notin job.todo)

RecurringInv == RecurringTypeOK /\ JobAtWork /\ TodoReal /\ SlotsUsed

-----------------------------------------------------------------------------
LEMMA Plans ==
    /\ FirstPlan \in Plan
    /\ NoRule \in RuleRecord /\ NoRule.row = "UNUSED"
    /\ NoSlots \in [made: Nat, lapses: 0..MaxLapses]
    /\ NoSlots.made = 0 /\ NoSlots.lapses = 0
    /\ NoJob \in JobRecord /\ NoJob.pc = "idle" /\ NoJob.todo = {}
<1>1. (CHOOSE p \in Periods : TRUE) \in Periods
  BY RecurringAssumption
<1>2. 0 \in Hours
  BY RecurringAssumption DEF Hours
<1>3. FirstPlan \in Plan
  BY <1>1, <1>2 DEF FirstPlan, Plan, Templates
<1>4. NoRule \in RuleRecord /\ NoRule.row = "UNUSED"
  BY <1>3 DEF NoRule, RuleRecord
<1>5. /\ NoSlots \in [made: Nat, lapses: 0..MaxLapses]
      /\ NoSlots.made = 0 /\ NoSlots.lapses = 0
  BY RecurringAssumption DEF NoSlots
<1>6. NoJob \in JobRecord /\ NoJob.pc = "idle" /\ NoJob.todo = {}
  BY <1>3 DEF NoJob, JobRecord
<1> QED
  BY <1>3, <1>4, <1>5, <1>6

LEMMA ClockTyped == HoursPerYear \in Nat \ {0}
BY RecurringAssumption, SMTT(30) DEF HoursPerYear

(* A next run is some number of hours from now. *)
LEMMA NextRunTyped ==
    ASSUME RecurringTypeOK, NEW plan \in Plan, NEW advance \in BOOLEAN
    PROVE  NextRun(plan, advance) \in Int
<1> DEFINE past == clock % HoursPerDay
           length == plan.period * HoursPerDay
<1>1. /\ HoursPerDay \in Nat /\ HoursPerDay > 0
      /\ plan.hour \in Nat /\ plan.period \in Nat
  <2>1. plan.hour \in Hours /\ plan.period \in Periods
    BY DEF Plan
  <2>2. HoursPerDay \in Nat /\ HoursPerDay > 0
    BY RecurringAssumption
  <2>3. plan.hour \in Nat
    BY <2>1, <2>2 DEF Hours
  <2>4. plan.period \in Nat
    BY <2>1, RecurringAssumption
  <2> QED
    BY <2>2, <2>3, <2>4
<1>2. clock \in Nat
  BY ClockTyped DEF RecurringTypeOK
<1>3. past \in Nat
  BY <1>1, <1>2, SMTT(30)
<1>4. length \in Nat
  BY <1>1, SMTT(30)
<1>5. NextRun(plan, advance) \in {plan.hour - past, plan.hour - past + length}
  BY DEF NextRun
<1> HIDE DEF past, length
<1> QED
  BY <1>1, <1>3, <1>4, <1>5

LEMMA CurrentTyped ==
    ASSUME RecurringTypeOK, JobAtWork, job.pc # "idle"
    PROVE  Current \in job.todo /\ Current \in Rule
BY DEF RecurringTypeOK, JobAtWork, JobRecord, Current

LEMMA RecurringInvInit == RecurringInit => RecurringInv
<1> SUFFICES ASSUME RecurringInit PROVE RecurringInv
  OBVIOUS
<1>1. clock \in 0..HoursPerYear - 1
  BY ClockTyped DEF RecurringInit
<1>2. RecurringTypeOK
  BY <1>1, Plans DEF RecurringInit, RecurringTypeOK
<1> QED
  BY <1>2, Plans DEF RecurringInit, RecurringInv, JobAtWork, TodoReal, SlotsUsed

(* What an Advanced rule looks like. *)
LEMMA AdvancedTyped ==
    ASSUME RecurringTypeOK, NEW r \in Rule, NEW plan \in Plan, Advanced(r, plan)
    PROVE  /\ rule' \in [Rule -> RuleRecord]
           /\ \A x \in Rule : rule'[x].row = rule[x].row
           /\ slots' \in [Rule -> [made: Nat, lapses: 0..MaxLapses]]
           /\ slots'[r] = NoSlots /\ \A x \in Rule \ {r} : slots'[x] = slots[x]
<1>1. NextRun(plan, TRUE) \in Int
  BY NextRunTyped
<1> QED
  BY <1>1, Plans DEF Advanced, RecurringTypeOK, RuleRecord

(* The job goes on to another rule, or ends. *)
LEMMA NextRuleTyped ==
    ASSUME RecurringTypeOK, JobAtWork, job.pc # "idle", NextRule
    PROVE  /\ job' \in JobRecord /\ job'.pc \in {"idle", "spawn"}
           /\ job'.todo = job.todo \ {Current}
           /\ JobAtWork'
<1>1. Current \in job.todo /\ Current \in Rule
  BY CurrentTyped
<1>2. CASE job.todo = {Current}
  BY <1>1, <1>2, Plans DEF NextRule, JobAtWork
<1>3. CASE job.todo # {Current}
  <2> DEFINE c == Current
             seen1 == [job.seen EXCEPT ![c] = FirstPlan]
  <2>1. job' = [job EXCEPT !.pc = "spawn", !.todo = job.todo \ {c}, !.seen = seen1]
    BY <1>3 DEF NextRule
  <2>2. seen1 \in [Rule -> Plan] /\ job.todo \ {c} \in SUBSET Rule
    BY Plans DEF RecurringTypeOK, JobRecord
  <2> HIDE DEF seen1, c
  <2>3. job' \in JobRecord /\ job'.pc = "spawn" /\ job'.todo = job.todo \ {c}
    BY <2>1, <2>2 DEF RecurringTypeOK, JobRecord
  <2>4. job.todo \ {c} # {}
    BY <1>1, <1>3 DEF c
  <2> QED
    BY <2>3, <2>4 DEF JobAtWork, c
<1> QED
  BY <1>2, <1>3

LEMMA StepTyped ==
    ASSUME RecurringTypeOK, JobAtWork, job.pc # "idle",
           NEW pc \in {"advance", "rescue"}, Step(pc)
    PROVE  /\ job' \in JobRecord /\ job'.pc = pc /\ job'.todo = job.todo
           /\ JobAtWork' /\ Current' = Current /\ Tended(Current)'
BY DEF Step, RecurringTypeOK, JobRecord, JobAtWork, Current, Tended

-----------------------------------------------------------------------------
LEMMA ManagersOfRulesKeep ==
    ASSUME RecurringInv, NEW r \in Rule,
           \/ \E plan \in Plan : CreateRule(r, plan) \/ UpdatePlan(r, plan)
           \/ \E enabled \in BOOLEAN, t \in Templates : UpdateOther(r, enabled, t)
           \/ DeleteRule(r)
    PROVE  RecurringInv'
<1> USE DEF RecurringInv
<1>1. /\ UNCHANGED <<clock, tick, job>>
      /\ slots'[r] = slots[r] \/ slots'[r] = NoSlots
      /\ \A x \in Rule \ {r} : slots'[x] = slots[x]
      /\ slots' \in [Rule -> [made: Nat, lapses: 0..MaxLapses]]
  BY Plans DEF CreateRule, UpdatePlan, UpdateOther, DeleteRule, RecurringTypeOK
<1>2. /\ rule' \in [Rule -> RuleRecord]
      /\ \A x \in Rule : /\ rule[x].row = "GONE" => rule'[x].row = "GONE"
                         /\ rule[x].row # "UNUSED" => rule'[x].row # "UNUSED"
  <2>1. ASSUME NEW plan \in Plan, CreateRule(r, plan) \/ UpdatePlan(r, plan)
        PROVE  /\ rule' \in [Rule -> RuleRecord]
           /\ \A x \in Rule : /\ rule[x].row = "GONE" => rule'[x].row = "GONE"
                              /\ rule[x].row # "UNUSED" => rule'[x].row # "UNUSED"
    <3>1. NextRun(plan, FALSE) \in Int
      BY NextRunTyped
    <3>2. CASE CreateRule(r, plan)
      BY <3>1, <3>2 DEF CreateRule, RecurringTypeOK, RuleRecord
    <3>3. CASE UpdatePlan(r, plan)
      <4> DEFINE next == NextRun(plan, FALSE)
                 rec == [rule[r] EXCEPT !.plan = plan, !.next = next]
      <4>1. rule' = [rule EXCEPT ![r] = rec]
        BY <3>3 DEF UpdatePlan
      <4> HIDE DEF next
      <4>2. rec \in RuleRecord /\ rec.row = rule[r].row
        BY <3>1 DEF RecurringTypeOK, RuleRecord, next
      <4> HIDE DEF rec
      <4> QED
        BY <4>1, <4>2 DEF RecurringTypeOK
    <3> QED
      BY <2>1, <3>2, <3>3
  <2>2. ASSUME NEW enabled \in BOOLEAN, NEW t \in Templates, UpdateOther(r, enabled, t)
        PROVE  /\ rule' \in [Rule -> RuleRecord]
           /\ \A x \in Rule : /\ rule[x].row = "GONE" => rule'[x].row = "GONE"
                              /\ rule[x].row # "UNUSED" => rule'[x].row # "UNUSED"
    <3> DEFINE plan1 == [rule[r].plan EXCEPT !.template = t]
               rec == [rule[r] EXCEPT !.enabled = enabled, !.plan = plan1]
    <3>1. rule' = [rule EXCEPT ![r] = rec]
      BY <2>2 DEF UpdateOther
    <3>2. plan1 \in Plan
      BY DEF RecurringTypeOK, RuleRecord, Plan
    <3> HIDE DEF plan1
    <3>3. rec \in RuleRecord /\ rec.row = rule[r].row
      BY <3>2 DEF RecurringTypeOK, RuleRecord
    <3> HIDE DEF rec
    <3> QED
      BY <3>1, <3>3 DEF RecurringTypeOK
  <2>3. CASE DeleteRule(r)
    BY <2>3, Plans DEF DeleteRule, RecurringTypeOK, NoRule, RuleRecord
  <2> QED
    BY <2>1, <2>2, <2>3
<1>3. RecurringTypeOK' /\ JobAtWork'
  BY <1>1, <1>2 DEF RecurringTypeOK, JobAtWork
<1>4. SlotsUsed'
  <2>1. ASSUME NEW x \in Rule
        PROVE  \/ slots'[x] = slots[x] /\ (Tended(x) <=> Tended(x)')
               \/ slots'[x].made = 0 /\ slots'[x].lapses = 0
    BY <1>1, Plans DEF Tended, Current
  <2> QED
    BY <1>1, <1>2, <2>1 DEF SlotsUsed
<1>5. TodoReal'
  BY <1>1, <1>2 DEF TodoReal, RecurringTypeOK, JobRecord
<1> QED
  BY <1>3, <1>4, <1>5

LEMMA JobReadKeeps == RecurringInv /\ JobRead => RecurringInv'
<1> SUFFICES ASSUME RecurringInv, JobRead PROVE RecurringInv'
  OBVIOUS
<1>1. job.pc = "idle" /\ UNCHANGED <<clock, rule, slots>> /\ tick' = FALSE
  BY DEF JobRead
<1>2. PICK todo \in SUBSET Due :
          job' = IF todo = {} THEN NoJob
                 ELSE [pc |-> "spawn", todo |-> todo,
                       seen |-> [r \in Rule |-> IF r \in todo THEN rule[r].plan ELSE FirstPlan]]
  BY DEF JobRead
<1>3. [r \in Rule |-> IF r \in todo THEN rule[r].plan ELSE FirstPlan] \in [Rule -> Plan]
  BY Plans DEF RecurringInv, RecurringTypeOK, RuleRecord
<1>4. job' \in JobRecord /\ job'.todo = todo /\ job'.pc \in {"idle", "spawn"} /\ JobAtWork'
  BY <1>2, <1>3, Plans DEF JobRecord, JobAtWork, Due
<1>5. RecurringTypeOK'
  BY <1>1, <1>4 DEF RecurringInv, RecurringTypeOK
<1>6. \A r \in job'.todo : rule[r].row = "LIVE"
  BY <1>4 DEF Due, IsDue, LiveRule
<1>7. SlotsUsed' /\ TodoReal'
  <2>1. \A r \in Rule : ~Tended(r)
    BY <1>1 DEF Tended
  <2> QED
    BY <1>1, <1>6, <2>1 DEF RecurringInv, SlotsUsed, TodoReal
<1> QED
  BY <1>4, <1>5, <1>7 DEF RecurringInv

LEMMA JobSpawnKeeps ==
    ASSUME RecurringInv, JobSpawn \/ JobSpawnFails \/ JobAdvanceFails PROVE RecurringInv'
<1> DEFINE c == Current
<1>1. job.pc \in {"spawn", "advance"} /\ UNCHANGED <<clock, tick, rule>>
  BY DEF JobSpawn, JobSpawnFails, JobAdvanceFails
<1>2. c \in job.todo /\ c \in Rule
  BY <1>1, CurrentTyped DEF RecurringInv
<1>3. /\ job' \in JobRecord /\ job'.pc \in {"advance", "rescue"} /\ job'.todo = job.todo
      /\ JobAtWork' /\ Current' = Current /\ Tended(Current)'
  BY <1>1, StepTyped DEF JobSpawn, JobSpawnFails, JobAdvanceFails, RecurringInv
<1>4. /\ slots' \in [Rule -> [made: Nat, lapses: 0..MaxLapses]]
      /\ \A x \in Rule \ {c} : slots'[x] = slots[x]
      /\ slots'[c].lapses = slots[c].lapses
      /\ \/ slots'[c].made = slots[c].made
         \/ job.pc = "spawn" /\ slots'[c].made = slots[c].made + 1
  BY <1>2 DEF JobSpawn, JobSpawnFails, JobAdvanceFails, RecurringInv, RecurringTypeOK
<1>5. RecurringTypeOK'
  BY <1>1, <1>3, <1>4 DEF RecurringInv, RecurringTypeOK
<1>6. slots'[c].made <= slots'[c].lapses + 1
  BY <1>1, <1>2, <1>4, RecurringAssumption DEF RecurringInv, SlotsUsed, Tended, RecurringTypeOK
<1>7. ASSUME NEW r \in Rule, r # c
      PROVE  \/ slots'[r].made <= slots'[r].lapses
             \/ /\ slots'[r].made <= slots'[r].lapses + 1
                /\ rule'[r].row = "GONE" /\ r \notin job'.todo
  BY <1>1, <1>3, <1>4, <1>7 DEF RecurringInv, SlotsUsed, Tended
<1> HIDE DEF c
<1>8. SlotsUsed'
  BY <1>3, <1>6, <1>7 DEF SlotsUsed, c
<1> QED
  BY <1>1, <1>3, <1>5, <1>8 DEF RecurringInv, TodoReal

(* The rule at hand is settled: its next run was written, its lapse was    *)
(* counted, or it is gone.                                                 *)
LEMMA Settled ==
    ASSUME RecurringInv, RecurringTypeOK', JobAtWork', job.pc # "idle",
           job'.pc \in {"idle", "spawn"}, job'.todo \subseteq job.todo \ {Current},
           \A r \in Rule : rule'[r].row = rule[r].row,
           \A r \in Rule \ {Current} : slots'[r] = slots[r],
           \/ slots'[Current].made <= slots'[Current].lapses
           \/ /\ slots'[Current] = slots[Current]
              /\ rule[Current].row = "GONE"
    PROVE  RecurringInv'
<1> DEFINE c == Current
<1>1. c \in Rule
  BY CurrentTyped DEF RecurringInv
<1>2. \/ slots'[c].made <= slots'[c].lapses
      \/ /\ slots'[c].made <= slots'[c].lapses + 1
         /\ rule'[c].row = "GONE" /\ c \notin job'.todo
  BY <1>1, RecurringAssumption DEF RecurringInv, SlotsUsed, RecurringTypeOK
<1>3. ASSUME NEW r \in Rule, r # c
      PROVE  \/ slots'[r].made <= slots'[r].lapses
             \/ /\ slots'[r].made <= slots'[r].lapses + 1
                /\ rule'[r].row = "GONE" /\ r \notin job'.todo
  BY <1>3 DEF RecurringInv, SlotsUsed, Tended
<1> HIDE DEF c
<1>4. SlotsUsed'
  BY <1>2, <1>3 DEF SlotsUsed
<1>5. TodoReal'
  BY DEF RecurringInv, TodoReal, RecurringTypeOK, JobRecord
<1> QED
  BY <1>4, <1>5 DEF RecurringInv

LEMMA JobEndsRuleKeeps ==
    ASSUME RecurringInv, JobAdvance \/ JobRescue \/ JobRescueFails \/ JobCrash
    PROVE  RecurringInv'
<1> DEFINE c == Current
<1>1. job.pc # "idle" /\ UNCHANGED <<clock, tick>>
  BY DEF JobAdvance, JobRescue, JobRescueFails, JobCrash
<1>2. c \in job.todo /\ c \in Rule /\ job.seen[c] \in Plan
  BY <1>1, CurrentTyped DEF RecurringInv, RecurringTypeOK, JobRecord
<1>3. CASE LiveRule(c) /\ Advanced(c, job.seen[c]) /\ NextRule
  <2>1. /\ rule' \in [Rule -> RuleRecord]
        /\ \A x \in Rule : rule'[x].row = rule[x].row
        /\ slots' \in [Rule -> [made: Nat, lapses: 0..MaxLapses]]
        /\ slots'[c] = NoSlots /\ \A x \in Rule \ {c} : slots'[x] = slots[x]
    BY <1>2, <1>3, AdvancedTyped DEF RecurringInv
  <2>2. /\ job' \in JobRecord /\ job'.pc \in {"idle", "spawn"}
        /\ job'.todo = job.todo \ {c} /\ JobAtWork'
    BY <1>1, <1>3, NextRuleTyped DEF RecurringInv
  <2>3. RecurringTypeOK'
    BY <1>1, <2>1, <2>2 DEF RecurringInv, RecurringTypeOK
  <2> QED
    BY <1>1, <2>1, <2>2, <2>3, Settled, Plans
<1>4. CASE JobRescue /\ ~LiveRule(c)
  <2>1. UNCHANGED <<rule, slots>> /\ rule[c].row = "GONE"
    BY <1>2, <1>4 DEF JobRescue, LiveRule, RecurringInv, TodoReal, RecurringTypeOK, RuleRecord
  <2>2. /\ job' \in JobRecord /\ job'.pc \in {"idle", "spawn"}
        /\ job'.todo = job.todo \ {c} /\ JobAtWork'
    BY <1>1, <1>4, NextRuleTyped DEF RecurringInv, JobRescue
  <2>3. RecurringTypeOK'
    BY <1>1, <2>1, <2>2 DEF RecurringInv, RecurringTypeOK
  <2> QED
    BY <1>1, <2>1, <2>2, <2>3, Settled
<1>5. CASE JobAdvance /\ ~LiveRule(c)
  <2>1. /\ job' \in JobRecord /\ job'.pc = "rescue" /\ job'.todo = job.todo
        /\ JobAtWork' /\ Current' = c /\ job.pc = "advance" /\ UNCHANGED <<clock, tick, rule, slots>>
    BY <1>1, <1>5, StepTyped DEF JobAdvance, RecurringInv
  <2> QED
    BY <2>1 DEF RecurringInv, RecurringTypeOK, SlotsUsed, Tended, TodoReal
<1>6. CASE JobRescueFails \/ JobCrash
  <2>1. /\ job' \in JobRecord /\ job'.pc \in {"idle", "spawn"}
        /\ job'.todo \subseteq job.todo \ {c} /\ JobAtWork'
    <3>1. CASE JobCrash
      BY <3>1, Plans DEF JobCrash, JobAtWork
    <3>2. CASE JobRescueFails
      BY <1>1, <3>2, NextRuleTyped DEF RecurringInv, JobRescueFails
    <3> QED
      BY <1>6, <3>1, <3>2
  <2>2. /\ rule' = rule /\ slots[c].lapses < MaxLapses
        /\ slots' = [slots EXCEPT ![c].lapses = slots[c].lapses + 1]
    BY <1>6 DEF JobRescueFails, JobCrash
  <2>3. slots[c].made \in Nat /\ slots[c].lapses \in 0..MaxLapses /\ slots[c].made <= slots[c].lapses + 1
    BY <1>2, RecurringAssumption DEF RecurringInv, RecurringTypeOK, SlotsUsed
  <2>4. /\ slots' \in [Rule -> [made: Nat, lapses: 0..MaxLapses]]
        /\ slots'[c].made <= slots'[c].lapses
        /\ \A x \in Rule \ {c} : slots'[x] = slots[x]
    BY <1>2, <2>2, <2>3, RecurringAssumption DEF RecurringInv, RecurringTypeOK
  <2>5. RecurringTypeOK'
    BY <1>1, <2>1, <2>2, <2>4 DEF RecurringInv, RecurringTypeOK
  <2> QED
    BY <1>1, <2>1, <2>2, <2>4, <2>5, Settled
<1> QED
  BY <1>3, <1>4, <1>5, <1>6 DEF JobAdvance, JobRescue

LEMMA HourKeeps == RecurringInv /\ HourPasses => RecurringInv'
<1> SUFFICES ASSUME RecurringInv, HourPasses PROVE RecurringInv'
  OBVIOUS
<1>1. UNCHANGED <<job, slots>> /\ tick' \in BOOLEAN
  BY DEF HourPasses
<1>2. clock' \in 0..HoursPerYear - 1
  <2>1. clock \in Nat /\ clock' = (clock + 1) % HoursPerYear
    BY ClockTyped DEF RecurringInv, RecurringTypeOK, HourPasses
  <2>2. \A n \in Nat, m \in Nat \ {0} : n % m \in 0..m - 1
    BY SMTT(30)
  <2> QED
    BY <2>1, <2>2, ClockTyped
<1>3. \A r \in Rule : rule'[r] \in RuleRecord /\ rule'[r].row = rule[r].row
  <2> SUFFICES ASSUME NEW r \in Rule PROVE rule'[r] \in RuleRecord /\ rule'[r].row = rule[r].row
    OBVIOUS
  <2>1. rule[r] \in RuleRecord /\ rule[r].next - 1 \in Int
    BY DEF RecurringInv, RecurringTypeOK, RuleRecord
  <2>2. rule'[r] = rule[r] \/ rule'[r] = [rule[r] EXCEPT !.next = rule[r].next - 1]
    BY DEF HourPasses
  <2> QED
    BY <2>1, <2>2 DEF RuleRecord
<1>4. RecurringTypeOK'
  BY <1>1, <1>2, <1>3 DEF RecurringInv, RecurringTypeOK, HourPasses
<1>5. JobAtWork' /\ SlotsUsed' /\ TodoReal'
  BY <1>1, <1>3 DEF RecurringInv, RecurringTypeOK, JobRecord, JobAtWork, TodoReal, SlotsUsed,
     Tended, Current
<1> QED
  BY <1>4, <1>5 DEF RecurringInv

LEMMA RecurringInductive == RecurringInv /\ [RecurringNext]_recurringVars => RecurringInv'
<1> SUFFICES ASSUME RecurringInv, [RecurringNext]_recurringVars PROVE RecurringInv'
  OBVIOUS
<1>1. CASE UNCHANGED recurringVars
  BY <1>1 DEF recurringVars, RecurringInv, RecurringTypeOK, JobAtWork, TodoReal, SlotsUsed,
              Tended, Current
<1>2. CASE RecurringNext
  BY <1>2, ManagersOfRulesKeep, JobReadKeeps, JobSpawnKeeps, JobEndsRuleKeeps, HourKeeps
     DEF RecurringNext
<1> QED
  BY <1>1, <1>2

(* Between two writes of its next run a rule makes one issue, and one more *)
(* for every lapse only, for any number of rules that are created, changed *)
(* and deleted while the job is at work.                                   *)
THEOREM SlotsSafety == RecurringSpec => []OncePerSlot
<1>1. RecurringInv => OncePerSlot
  BY RecurringAssumption DEF RecurringInv, SlotsUsed, RecurringTypeOK, OncePerSlot
<1> QED
  BY <1>1, RecurringInvInit, RecurringInductive, PTL DEF RecurringSpec


-----------------------------------------------------------------------------
(* Copies in memory *)

LEMMA CopiesTyped ==
    /\ NoLoader \in LoaderRecord /\ NoChanger \in ChangerRecord
    /\ \A k \in Copy, l \in Loader, f \in [Loader -> LoaderRecord] :
          [f EXCEPT ![l] = [NoLoader EXCEPT !.pc = "read", !.copy = k]] \in [Loader -> LoaderRecord]
<1>1. AnyCopy \in Copy /\ 0 \in Versions
  BY CopiesAssumption DEF AnyCopy, Versions
<1>2. NoLoader \in LoaderRecord /\ NoChanger \in ChangerRecord
  BY <1>1 DEF NoLoader, NoChanger, LoaderRecord, ChangerRecord
<1>3. \A k \in Copy : [NoLoader EXCEPT !.pc = "read", !.copy = k] \in LoaderRecord
  BY <1>1 DEF NoLoader, LoaderRecord
<1> QED
  BY <1>2, <1>3

LEMMA CopiesTypeInit == CopiesInit => CopiesTypeOK
<1> SUFFICES ASSUME CopiesInit PROVE CopiesTypeOK
  OBVIOUS
<1>1. 0 \in Versions /\ \A k \in Copy : (k = "logging") \in BOOLEAN
  BY CopiesAssumption DEF Versions
<1>2. copy \in [Copy -> [version: Versions, inForce: BOOLEAN]]
  BY <1>1 DEF CopiesInit
<1> QED
  BY <1>1, <1>2, CopiesTyped DEF CopiesInit, CopiesTypeOK

LEMMA LoaderStepTyped ==
    ASSUME CopiesTypeOK, NEW l \in Loader, LoaderStep(l)
    PROVE  CopiesTypeOK'
<1>1. loader[l] \in LoaderRecord /\ loader[l].copy \in Copy /\ loader[l].version \in Versions
  BY DEF CopiesTypeOK, LoaderRecord
<1>2. CASE ReadTable(l)
  <2> DEFINE read == [loader[l] EXCEPT !.pc = "store", !.version = version[loader[l].copy]]
  <2>1. loader' = [loader EXCEPT ![l] = read] /\ UNCHANGED <<version, copy, changer>>
    BY <1>2 DEF ReadTable, CopiesTypeOK
  <2>2. read \in LoaderRecord
    BY <1>1 DEF LoaderRecord, CopiesTypeOK
  <2> HIDE DEF read
  <2> QED
    BY <2>1, <2>2 DEF CopiesTypeOK
<1>3. CASE ReadTableFails(l)
  <2> DEFINE k == loader[l].copy
             fallback == [copy[k] EXCEPT !.version = 0]
  <2>1. /\ loader' = [loader EXCEPT ![l] = NoLoader] /\ UNCHANGED <<version, changer>>
        /\ copy' = copy \/ copy' = [copy EXCEPT ![k] = fallback]
    BY <1>3 DEF ReadTableFails, CopiesTypeOK
  <2>2. fallback \in [version: Versions, inForce: BOOLEAN]
    BY <1>1, CopiesAssumption DEF CopiesTypeOK, Versions
  <2> HIDE DEF k, fallback
  <2> QED
    BY <2>1, <2>2, CopiesTyped DEF CopiesTypeOK
<1>4. CASE StoreCopy(l)
  BY <1>1, <1>4, CopiesTyped DEF StoreCopy, CopiesTypeOK
<1> QED
  BY <1>2, <1>3, <1>4 DEF LoaderStep

LEMMA CopyStepTyped ==
    ASSUME CopiesTypeOK, NEW k \in Copy, CopyRunsOut(k) \/ ChangeElsewhere(k)
    PROVE  CopiesTypeOK'
<1>1. CASE CopyRunsOut(k)
  <2>1. [copy[k] EXCEPT !.inForce = FALSE] \in [version: Versions, inForce: BOOLEAN]
    BY DEF CopiesTypeOK
  <2> QED
    BY <1>1, <2>1 DEF CopyRunsOut, CopiesTypeOK
<1>2. CASE ChangeElsewhere(k)
  BY <1>2, CopiesAssumption DEF ChangeElsewhere, CopiesTypeOK, Versions
<1> QED
  BY <1>1, <1>2

LEMMA ChangerStepTyped ==
    ASSUME CopiesTypeOK, NEW c \in Changer,
           (\E k \in Copy : Change(c, k)) \/ DropCopy(c) \/ (\E l \in Loader : RefreshCopy(c, l))
    PROVE  CopiesTypeOK'
<1>1. ASSUME NEW k \in Copy, Change(c, k) PROVE CopiesTypeOK'
  <2>1. version[k] + 1 \in Versions
    BY <1>1, CopiesAssumption DEF Change, CopiesTypeOK, Versions
  <2>2. [pc |-> "changed", copy |-> k] \in ChangerRecord
    BY DEF ChangerRecord
  <2> QED
    BY <1>1, <2>1, <2>2 DEF Change, CopiesTypeOK
<1>2. CASE DropCopy(c)
  <2>1. changer[c].copy \in Copy
    BY DEF CopiesTypeOK, ChangerRecord
  <2>2. [copy[changer[c].copy] EXCEPT !.inForce = FALSE] \in [version: Versions, inForce: BOOLEAN]
    BY <2>1 DEF CopiesTypeOK
  <2> QED
    BY <1>2, <2>1, <2>2, CopiesTyped DEF DropCopy, CopiesTypeOK
<1>3. ASSUME NEW l \in Loader, RefreshCopy(c, l) PROVE CopiesTypeOK'
  <2>1. "logging" \in Copy
    BY <1>3 DEF RefreshCopy, CopiesTypeOK, ChangerRecord
  <2> QED
    BY <1>3, <2>1, CopiesTyped DEF RefreshCopy, StartsLoad, CopiesTypeOK
<1> QED
  BY <1>1, <1>2, <1>3

LEMMA CopiesTypeInductive == CopiesTypeOK /\ [CopiesNext]_copiesVars => CopiesTypeOK'
<1> SUFFICES ASSUME CopiesTypeOK, [CopiesNext]_copiesVars PROVE CopiesTypeOK'
  OBVIOUS
<1>1. ASSUME NEW l \in Loader, NEW k \in Copy, LookUp(l, k) PROVE CopiesTypeOK'
  BY <1>1, CopiesTyped DEF LookUp, StartsLoad, CopiesTypeOK
<1>2. ASSUME NEW l \in Loader, RefreshHourly(l) PROVE CopiesTypeOK'
  BY <1>2, CopiesTyped DEF RefreshHourly, StartsLoad, CopiesTypeOK
<1>3. CASE UNCHANGED copiesVars
  BY <1>3 DEF copiesVars, CopiesTypeOK
<1> QED
  BY <1>1, <1>2, <1>3, LoaderStepTyped, CopyStepTyped, ChangerStepTyped DEF CopiesNext

-----------------------------------------------------------------------------
(* Uploads *)

USE UploadAssumption

(* What each kind of assignment to req does to a well-typed table. *)
LEMMA GoToTyped ==
    ASSUME TypeOK, NEW r \in Request, NEW pc \in PC, GoTo(r, pc)
    PROVE  /\ req' \in [Request -> RequestRecord]
           /\ req'[r].pc = pc
           /\ \A q \in Request \ {r} : req'[q] = req[q]
BY DEF TypeOK, GoTo, RequestRecord

LEMMA IdleTyped == Idle \in RequestRecord /\ Idle.pc = "idle"
BY DEF Idle, RequestRecord, PC, NoChunks, Chunk

LEMMA LeaveTyped ==
    ASSUME TypeOK, NEW r \in Request, Leave(r)
    PROVE  /\ req' \in [Request -> RequestRecord]
           /\ req'[r].pc = "idle"
           /\ \A q \in Request \ {r} : req'[q] = req[q]
BY IdleTyped DEF TypeOK, Leave

(* The program counters of a request before and after one of its steps.    *)
(* The invariants below look at nothing else in req.                       *)
Goes(r, from, to) ==
    /\ req[r].pc \in from /\ req'[r].pc \in to
    /\ req' \in [Request -> RequestRecord]
    /\ \A q \in Request \ {r} : req'[q] = req[q]

LEMMA GoToStep ==
    ASSUME TypeOK, NEW r \in Request, NEW from, NEW to, At(r, from), to \in PC, GoTo(r, to)
    PROVE  Goes(r, {from}, {to})
BY GoToTyped DEF Goes, At

LEMMA LeaveStep ==
    ASSUME TypeOK, NEW r \in Request, NEW from, At(r, from), Leave(r)
    PROVE  Goes(r, {from}, {"idle"})
BY LeaveTyped DEF Goes, At

LEMMA ReceivingTyped ==
    ASSUME NEW rec \in RequestRecord, NEW pc \in PC, NEW c \in Chunk, NEW seen \in BOOLEAN
    PROVE  [rec EXCEPT !.pc = pc, !.chunk = c, !.seen = seen] \in RequestRecord
BY Zenon DEF RequestRecord

(* Where each action takes its request. *)
LEMMA ArriveSteps ==
    ASSUME TypeOK, NEW r \in Request
    PROVE  /\ ReadExpired(r) => Goes(r, {"idle"}, {"lazyExpire"})
           /\ Claim(r) => Goes(r, {"idle"}, {"claimed"})
           /\ AbortRead(r) => Goes(r, {"idle"}, {"abort"})
           /\ \A c \in Chunk : ReceiveChunk(r, c) => Goes(r, {"idle"}, {"store"})
<1>1. {"lazyExpire", "claimed", "abort"} \subseteq PC
  BY DEF PC
<1>2. ReadExpired(r) => Goes(r, {"idle"}, {"lazyExpire"})
  BY <1>1, GoToStep DEF ReadExpired
<1>3. Claim(r) => Goes(r, {"idle"}, {"claimed"})
  BY <1>1, GoToStep DEF Claim
<1>4. AbortRead(r) => Goes(r, {"idle"}, {"abort"})
  BY <1>1, GoToStep DEF AbortRead
<1>5. ASSUME NEW c \in Chunk, ReceiveChunk(r, c) PROVE Goes(r, {"idle"}, {"store"})
  <2> DEFINE rec == [Idle EXCEPT !.pc = "store", !.chunk = c, !.seen = (received[c] > 0)]
  <2>0. (received[c] > 0) \in BOOLEAN /\ "store" \in PC
    BY DEF PC
  <2>1. rec \in RequestRecord /\ rec.pc = "store"
    <3>1. rec \in RequestRecord
      BY <2>0, IdleTyped, ReceivingTyped
    <3>2. rec.pc = "store"
      BY DEF Idle
    <3> QED
      BY <3>1, <3>2
  <2>2. req' = [req EXCEPT ![r] = rec] /\ req[r].pc = "idle"
    BY <1>5 DEF ReceiveChunk, At
  <2> HIDE DEF rec
  <2> QED
    BY <2>1, <2>2 DEF Goes, TypeOK
<1> QED
  BY <1>2, <1>3, <1>4, <1>5

LEMMA ProceedSteps ==
    ASSUME TypeOK, NEW r \in Request
    PROVE  /\ LazyExpire(r) => Goes(r, {"lazyExpire"}, {"idle"})
           /\ StoreChunk(r) => Goes(r, {"store"}, {"record", "idle"})
           /\ RecordChunk(r) => Goes(r, {"record"}, {"idle"})
           /\ ReadSession(r) => Goes(r, {"claimed"}, {"download"})
           /\ Download(r) => Goes(r, {"download"}, {"download", "upload", "forget"})
           /\ Forget(r) => Goes(r, {"forget"}, {"retry"})
           /\ Retry(r) => Goes(r, {"retry"}, {"idle"})
           /\ UploadFile(r) => \/ Goes(r, {"upload"}, {"persist"}) /\ files' = files + 1
                               \/ Goes(r, {"upload"}, {"fail"}) /\ files' = files
           /\ Announce(r) => Goes(r, {"announce"}, {"idle", "fail"})
           /\ Fail(r) => Goes(r, {"fail"}, {"idle"})
           /\ AbortWrite(r) => Goes(r, {"abort"}, {"idle"})
<1>1. {"record", "forget", "retry", "upload", "persist", "announce", "fail"} \subseteq PC
  BY DEF PC
<1>2. /\ LazyExpire(r) => Goes(r, {"lazyExpire"}, {"idle"})
      /\ RecordChunk(r) => Goes(r, {"record"}, {"idle"})
      /\ Retry(r) => Goes(r, {"retry"}, {"idle"})
      /\ Fail(r) => Goes(r, {"fail"}, {"idle"})
      /\ AbortWrite(r) => Goes(r, {"abort"}, {"idle"})
  BY LeaveStep DEF LazyExpire, RecordChunk, Retry, Fail, AbortWrite
<1>3. StoreChunk(r) => Goes(r, {"store"}, {"record", "idle"})
  <2>1. Goes(r, {"store"}, {"record"}) \/ Goes(r, {"store"}, {"idle"})
        => Goes(r, {"store"}, {"record", "idle"})
    BY DEF Goes
  <2> QED
    BY <1>1, <2>1, LeaveStep, GoToStep DEF StoreChunk
<1>4. ReadSession(r) => Goes(r, {"claimed"}, {"download"})
  <2> SUFFICES ASSUME ReadSession(r) PROVE Goes(r, {"claimed"}, {"download"})
    OBVIOUS
  <2> DEFINE rec == [Idle EXCEPT !.pc = "download", !.snapshot = received]
  <2>1. rec \in RequestRecord /\ rec.pc = "download"
    BY IdleTyped DEF Idle, RequestRecord, PC, TypeOK
  <2>2. req' = [req EXCEPT ![r] = rec] /\ req[r].pc = "claimed"
    BY DEF ReadSession, At
  <2> HIDE DEF rec
  <2> QED
    BY <2>1, <2>2 DEF Goes, TypeOK
<1>5. Download(r) => Goes(r, {"download"}, {"download", "upload", "forget"})
  <2> SUFFICES ASSUME Download(r) PROVE Goes(r, {"download"}, {"download", "upload", "forget"})
    OBVIOUS
  <2>1. CASE GoTo(r, "upload") \/ GoTo(r, "forget")
    <3>1. Goes(r, {"download"}, {"upload"}) \/ Goes(r, {"download"}, {"forget"})
      BY <1>1, <2>1, GoToStep DEF Download
    <3> QED
      BY <3>1 DEF Goes
  <2>2. CASE req[r].chunk + 1 # TotalChunks /\ req' = [req EXCEPT ![r].chunk = @ + 1]
    <3>1. req[r] \in RequestRecord /\ req[r].chunk + 1 \in Chunk
      BY <2>2 DEF TypeOK, RequestRecord, Chunk
    <3>2. /\ [req[r] EXCEPT !.chunk = req[r].chunk + 1] \in RequestRecord
          /\ [req[r] EXCEPT !.chunk = req[r].chunk + 1].pc = req[r].pc
      BY <3>1 DEF RequestRecord
    <3>3. req' = [req EXCEPT ![r] = [req[r] EXCEPT !.chunk = req[r].chunk + 1]]
      BY <2>2
    <3>4. req[r].pc = "download"
      BY DEF Download, At
    <3> QED
      BY <3>2, <3>3, <3>4 DEF Goes, TypeOK
  <2> QED
    BY <2>1, <2>2 DEF Download
<1>6. Forget(r) => Goes(r, {"forget"}, {"retry"})
  BY <1>1, GoToStep DEF Forget
<1>7. UploadFile(r) => \/ Goes(r, {"upload"}, {"persist"}) /\ files' = files + 1
                       \/ Goes(r, {"upload"}, {"fail"}) /\ files' = files
  BY <1>1, GoToStep DEF UploadFile
<1>8. Announce(r) => Goes(r, {"announce"}, {"idle", "fail"})
  <2>1. Goes(r, {"announce"}, {"idle"}) \/ Goes(r, {"announce"}, {"fail"})
        => Goes(r, {"announce"}, {"idle", "fail"})
    BY DEF Goes
  <2> QED
    BY <1>1, <2>1, LeaveStep, GoToStep DEF Announce
<1> QED
  BY <1>2, <1>3, <1>4, <1>5, <1>6, <1>7, <1>8

(* Persist commits, undoes the file, or does both. *)
Committed(r) ==
    /\ Goes(r, {"persist"}, {"announce"})
    /\ attachments' = attachments + 1 /\ status' = "COMPLETED"
    /\ UNCHANGED <<undo, unanswered, faults>>
RolledBack(r) ==
    /\ Goes(r, {"persist"}, {"fail"})
    /\ undo' = undo + 1 /\ UNCHANGED <<attachments, status, unanswered, faults>>
CommittedUnheard(r) ==
    /\ Goes(r, {"persist"}, {"fail"})
    /\ attachments' = attachments + 1 /\ status' = "COMPLETED" /\ undo' = undo + 1
    /\ unanswered' = unanswered + 1 /\ faults' = faults + 1

LEMMA PersistSteps ==
    ASSUME TypeOK, NEW r \in Request, Persist(r)
    PROVE  (Committed(r) \/ RolledBack(r) \/ CommittedUnheard(r)) /\ UNCHANGED files
<1>1. "announce" \in PC /\ "fail" \in PC
  BY DEF PC
<1>2. GoTo(r, "announce") => Goes(r, {"persist"}, {"announce"})
  BY <1>1, GoToStep DEF Persist
<1>3. GoTo(r, "fail") => Goes(r, {"persist"}, {"fail"})
  BY <1>1, GoToStep DEF Persist
<1> QED
  BY <1>2, <1>3 DEF Persist, Recorded, Refused, AnswerLost, Fault, Committed, RolledBack,
     CommittedUnheard

LEMMA FaultSteps ==
    ASSUME TypeOK, NEW r \in Request
    PROVE  /\ CallFails(r) =>
                Goes(r, {"lazyExpire", "record", "claimed", "retry", "fail", "abort"}, {"idle"})
           /\ ForgetFails(r) => Goes(r, {"forget"}, {"fail"})
<1>1. "fail" \in PC
  BY DEF PC
<1> QED
  BY <1>1, LeaveTyped, GoToStep DEF CallFails, ForgetFails, Goes

-----------------------------------------------------------------------------
(* Type correctness *)

LEMMA ProceedType ==
    ASSUME TypeOK, NEW r \in Request, Proceed(r)
    PROVE  TypeOK'
<1> USE DEF row, bucket, counters, TypeOK
<1>1. req' \in [Request -> RequestRecord]
  BY ProceedSteps, PersistSteps DEF Proceed, Goes, Committed, RolledBack, CommittedUnheard
<1>2. req[r].chunk \in Chunk /\ req[r].snapshot \in [Chunk -> Nat]
  BY DEF RequestRecord
<1>3. CASE LazyExpire(r) \/ ReadSession(r) \/ Download(r) \/ Retry(r) \/ Fail(r) \/ AbortWrite(r)
  BY <1>1, <1>3 DEF LazyExpire, ReadSession, Download, Retry, Fail, AbortWrite
<1>4. CASE StoreChunk(r)
  BY <1>1, <1>2, <1>4 DEF StoreChunk
<1>5. CASE RecordChunk(r)
  <2>1. received' \in [Chunk -> Nat]
    BY <1>2, <1>5 DEF RecordChunk
  <2> QED
    BY <1>1, <1>5, <2>1 DEF RecordChunk
<1>6. CASE Forget(r)
  <2>1. received' \in [Chunk -> Nat]
    BY <1>2, <1>6 DEF Forget
  <2> QED
    BY <1>1, <1>6, <2>1 DEF Forget
<1>7. CASE UploadFile(r)
  BY <1>1, <1>7 DEF UploadFile
<1>8. CASE Persist(r)
  <2>1. /\ attachments' \in Nat /\ undo' \in Nat /\ unanswered' \in Nat /\ faults' \in Nat
        /\ status' \in {status, "COMPLETED"}
    BY <1>8, PersistSteps DEF Committed, RolledBack, CommittedUnheard
  <2>2. cleanup' \in BOOLEAN
    BY <1>8, Zenon DEF Persist
  <2>3. UNCHANGED <<received, stored, files, expired, claims, sweep>>
    BY <1>8 DEF Persist
  <2> QED
    BY <1>1, <2>1, <2>2, <2>3
<1>9. CASE Announce(r)
  BY <1>1, <1>9 DEF Announce, Fault
<1> QED
  BY <1>3, <1>4, <1>5, <1>6, <1>7, <1>8, <1>9 DEF Proceed

LEMMA ArriveType ==
    ASSUME TypeOK, NEW r \in Request, Arrive(r)
    PROVE  TypeOK'
<1>1. req' \in [Request -> RequestRecord]
  BY ArriveSteps DEF Arrive, Goes
<1>2. /\ UNCHANGED <<expired, received, stored, files, cleanup, undo, attachments, faults,
                     unanswered, sweep>>
      /\ status' \in {status, "COMPLETING"}
      /\ claims' \in {claims, claims + 1}
  <2>1. CASE Claim(r)
    BY <2>1 DEF Claim, bucket
  <2>2. CASE ReadExpired(r) \/ AbortRead(r)
    BY <2>2 DEF ReadExpired, AbortRead, row, bucket, counters
  <2>3. ASSUME NEW c \in Chunk, ReceiveChunk(r, c)
        PROVE  UNCHANGED <<row, bucket, expired, attachments, counters, sweep>>
    BY <2>3 DEF ReceiveChunk
  <2> QED
    BY <2>1, <2>2, <2>3 DEF Arrive, row, bucket, counters
<1> QED
  BY <1>1, <1>2 DEF TypeOK

(* Only a commit can go unanswered. *)
FilesInv == FilesKept /\ unanswered <= attachments

(* UndoFile keeps the count of files a natural number because every file   *)
(* an undo deletes is one of the files.                                    *)
LEMMA BackgroundType ==
    ASSUME TypeOK, FilesInv, Background \/ Misfortune
    PROVE  TypeOK'
<1> USE DEF row, bucket, counters
<1>1. CASE SweepRead \/ SweepClean \/ SweepWrite \/ CleanUp \/ Expire
  BY <1>1 DEF SweepRead, SweepClean, SweepWrite, CleanUp, Expire, TypeOK
<1>2. CASE UndoFile
  <2>1. undo <= files
    BY DEF FilesInv, FilesKept, TypeOK
  <2> QED
    BY <1>2, <2>1 DEF UndoFile, UndoPending, TypeOK
<1>3. CASE Restart
  <2>1. req' \in [Request -> RequestRecord] /\ faults' \in Nat
    BY <1>3, IdleTyped DEF Restart, Fault, TypeOK
  <2>2. cleanup' = FALSE /\ undo' = 0 /\ sweep' = "idle"
        /\ UNCHANGED <<status, received, stored, files, expired, attachments, claims, unanswered>>
    BY <1>3 DEF Restart
  <2>3. cleanup' \in BOOLEAN /\ undo' \in Nat /\ sweep' \in {"idle", "clean", "write"}
    BY <2>2, Zenon
  <2> QED
    BY <2>1, <2>2, <2>3 DEF TypeOK
<1>4. ASSUME NEW r \in Request, CallFails(r) \/ ForgetFails(r)
      PROVE  TypeOK'
  <2>1. req' \in [Request -> RequestRecord]
    BY <1>4, FaultSteps DEF Goes
  <2> QED
    BY <1>4, <2>1 DEF CallFails, ForgetFails, Fault, TypeOK
<1> QED
  BY <1>1, <1>2, <1>3, <1>4 DEF Background, Misfortune

-----------------------------------------------------------------------------
(* The mutex *)

MutexInv == OneCompleter /\ OneAttachment /\ NothingLeftToAssemble

(* A request outside complete() cannot disturb it without writing PENDING. *)
LEMMA MutexOutside ==
    ASSUME TypeOK, MutexInv, NEW r \in Request, NEW from, NEW to, Goes(r, from, to),
           from \cap Completing = {}, to \cap Completing = {},
           status' = status \/ status' # "PENDING", UNCHANGED attachments
    PROVE  MutexInv'
BY DEF MutexInv, OneCompleter, OneAttachment, NothingLeftToAssemble, Holder, Goes, Completing

(* The holder goes on assembling, or stops without touching the row. *)
LEMMA MutexInside ==
    ASSUME TypeOK, MutexInv, NEW r \in Request, NEW from, NEW to, Goes(r, from, to),
           from \subseteq Completing, to \cap Assembling = {} \/ from \subseteq Assembling,
           status' = status \/ status' # "PENDING", UNCHANGED attachments
    PROVE  MutexInv'
BY DEF MutexInv, OneCompleter, OneAttachment, NothingLeftToAssemble, Holder, Goes, Completing

LEMMA MutexArrive ==
    ASSUME TypeOK, MutexInv, NEW r \in Request, Arrive(r)
    PROVE  MutexInv'
<1> USE DEF row
<1>1. CASE Claim(r)
  <2>1. Goes(r, {"idle"}, {"claimed"}) /\ status = "PENDING" /\ status' = "COMPLETING"
        /\ UNCHANGED attachments
    BY <1>1, ArriveSteps DEF Claim, Claimable
  <2> QED
    BY <2>1 DEF MutexInv, OneCompleter, OneAttachment, NothingLeftToAssemble, Holder, Goes, TypeOK
<1>2. ASSUME NEW to \in {"lazyExpire", "abort", "store"}, Goes(r, {"idle"}, {to}),
             UNCHANGED <<status, attachments>>
      PROVE  MutexInv'
  BY <1>2, MutexOutside DEF Completing, Assembling
<1>3. CASE ReadExpired(r)
  BY <1>2, <1>3, ArriveSteps DEF ReadExpired
<1>4. CASE AbortRead(r)
  BY <1>2, <1>4, ArriveSteps DEF AbortRead
<1>5. ASSUME NEW c \in Chunk, ReceiveChunk(r, c) PROVE MutexInv'
  BY <1>2, <1>5, ArriveSteps DEF ReceiveChunk
<1> QED
  BY <1>1, <1>3, <1>4, <1>5 DEF Arrive

LEMMA MutexProceed ==
    ASSUME TypeOK, MutexInv, NEW r \in Request, Proceed(r)
    PROVE  MutexInv'
<1> USE DEF row
<1>1. CASE LazyExpire(r) \/ StoreChunk(r) \/ RecordChunk(r) \/ AbortWrite(r)
  <2>1. PICK from \in {"lazyExpire", "store", "record", "abort"} : Goes(r, {from}, {"idle", "record"})
    BY <1>1, ProceedSteps DEF Goes
  <2>2. (status' = status \/ status' # "PENDING") /\ UNCHANGED attachments
    BY <1>1 DEF LazyExpire, StoreChunk, RecordChunk, AbortWrite
  <2> QED
    BY <2>1, <2>2, MutexOutside DEF Completing, Assembling
<1>2. CASE ReadSession(r) \/ Download(r) \/ Forget(r) \/ UploadFile(r)
  <2>1. PICK from \in {"claimed", "download", "forget", "upload"} : Goes(r, {from}, Completing)
    BY <1>2, ProceedSteps DEF Goes, Completing, Assembling
  <2>2. UNCHANGED <<status, attachments>>
    BY <1>2 DEF ReadSession, Download, Forget, UploadFile
  <2> QED
    BY <2>1, <2>2, MutexInside DEF Completing, Assembling
<1>3. CASE Retry(r)
  <2>1. Goes(r, {"retry"}, {"idle"}) /\ UNCHANGED attachments
    BY <1>3, ProceedSteps DEF Retry
  <2> QED
    BY <2>1 DEF MutexInv, OneCompleter, OneAttachment, NothingLeftToAssemble, Holder, Goes,
       Completing, Assembling, TypeOK
<1>4. CASE Persist(r)
  <2>1. CASE Committed(r)
    BY <2>1 DEF Committed, MutexInv, OneCompleter, OneAttachment, NothingLeftToAssemble, Holder,
       Goes, Completing, Assembling, TypeOK
  <2>2. CASE RolledBack(r)
    BY <2>2, MutexInside DEF RolledBack, Completing, Assembling
  <2>3. CASE CommittedUnheard(r)
    BY <2>3 DEF CommittedUnheard, MutexInv, OneCompleter, OneAttachment, NothingLeftToAssemble,
       Holder, Goes, Completing, Assembling, TypeOK
  <2> QED
    BY <1>4, <2>1, <2>2, <2>3, PersistSteps
<1>5. CASE Announce(r) \/ Fail(r)
  <2>1. PICK from \in {"announce", "fail"} : Goes(r, {from}, {"idle", "fail"})
    BY <1>5, ProceedSteps DEF Goes
  <2>2. (status' = status \/ status' # "PENDING") /\ UNCHANGED attachments
    BY <1>5 DEF Announce, Fail
  <2> QED
    BY <2>1, <2>2, MutexInside DEF Completing, Assembling
<1> QED
  BY <1>1, <1>2, <1>3, <1>4, <1>5 DEF Proceed

LEMMA MutexBackground ==
    ASSUME TypeOK, MutexInv, Background \/ Misfortune
    PROVE  MutexInv'
<1> USE DEF row
<1>1. CASE Background
  <2>1. UNCHANGED <<req, attachments>> /\ (status' = status \/ status' # "PENDING")
    BY <1>1 DEF Background, SweepRead, SweepClean, SweepWrite, CleanUp, UndoFile, Expire
  <2> QED
    BY <2>1 DEF MutexInv, OneCompleter, OneAttachment, NothingLeftToAssemble, Holder
<1>2. CASE Restart
  <2>1. UNCHANGED <<status, attachments>> /\ \A r \in Request : req'[r].pc = "idle"
    BY <1>2, IdleTyped DEF Restart
  <2> QED
    BY <2>1 DEF MutexInv, OneCompleter, OneAttachment, NothingLeftToAssemble, Holder, Completing,
       Assembling
<1>3. ASSUME NEW r \in Request, CallFails(r) PROVE MutexInv'
  <2>1. PICK from \in {"lazyExpire", "record", "claimed", "retry", "fail", "abort"} :
           Goes(r, {from}, {"idle"})
    BY <1>3, FaultSteps DEF Goes
  <2>2. UNCHANGED <<status, attachments>>
    BY <1>3 DEF CallFails
  <2> QED
    BY <2>1, <2>2, MutexInside, MutexOutside DEF Completing, Assembling
<1>4. ASSUME NEW r \in Request, ForgetFails(r) PROVE MutexInv'
  <2>1. Goes(r, {"forget"}, {"fail"}) /\ UNCHANGED <<status, attachments>>
    BY <1>4, FaultSteps DEF ForgetFails
  <2> QED
    BY <2>1, MutexInside DEF Completing, Assembling
<1> QED
  BY <1>1, <1>2, <1>3, <1>4 DEF Misfortune

-----------------------------------------------------------------------------
(* The assembled file *)

(* The account of files before and after an undo, and after a commit. *)
LEMMA UndoCounts ==
    ASSUME NEW a \in Nat, NEW u \in Nat, NEW n \in Nat, NEW f \in Nat, NEW p \in Nat,
           NEW g \in Int, a + u + p <= f + n, g >= f - 1
    PROVE  a + (u - 1) + p <= g + n
OBVIOUS

LEMMA CommitCounts ==
    ASSUME NEW a \in Nat, NEW u \in Nat, NEW n \in Nat, NEW f \in Nat, a + u + 1 <= f + n
    PROVE  /\ (a + 1) + u <= f + n
           /\ a + (u + 1) <= f + n
           /\ (a + 1) + (u + 1) <= f + (n + 1)
OBVIOUS

(* A step that keeps files and claims on them, and puts no request in      *)
(* front of the transaction.                                               *)
LEMMA FilesFrame ==
    ASSUME TypeOK, FilesInv, UNCHANGED <<files, attachments, undo, unanswered>>, Persisting' => Persisting
    PROVE  FilesInv'
BY DEF TypeOK, FilesInv, FilesKept, Persisting, At

LEMMA FilesStep ==
    ASSUME TypeOK, FilesInv, NEW r \in Request, NEW from, NEW to, Goes(r, from, to),
           "persist" \notin to, UNCHANGED <<files, attachments, undo, unanswered>>
    PROVE  FilesInv'
<1>1. Persisting' => Persisting
  BY DEF Persisting, At, Goes
<1> QED
  BY <1>1, FilesFrame

LEMMA FilesArrive ==
    ASSUME TypeOK, FilesInv, NEW r \in Request, Arrive(r)
    PROVE  FilesInv'
<1>1. PICK to \in {"lazyExpire", "claimed", "abort", "store"} : Goes(r, {"idle"}, {to})
  BY ArriveSteps DEF Arrive
<1>2. UNCHANGED <<files, attachments, undo, unanswered>>
  BY DEF Arrive, ReadExpired, Claim, AbortRead, ReceiveChunk, bucket, counters
<1> QED
  BY <1>1, <1>2, FilesStep

LEMMA FilesProceed ==
    ASSUME TypeOK, MutexInv, FilesInv, NEW r \in Request, Proceed(r)
    PROVE  FilesInv'
<1> USE DEF bucket, counters
<1>1. ASSUME Goes(r, PC, PC \ {"persist"}), UNCHANGED <<files, attachments, undo, unanswered>>
      PROVE  FilesInv'
  BY <1>1, FilesStep
<1>2. CASE LazyExpire(r) \/ StoreChunk(r) \/ RecordChunk(r) \/ ReadSession(r) \/ Download(r)
           \/ Forget(r) \/ Retry(r) \/ Announce(r) \/ Fail(r) \/ AbortWrite(r)
  <2>1. Goes(r, PC, PC \ {"persist"})
    BY <1>2, ProceedSteps DEF Goes, PC
  <2>2. UNCHANGED <<files, attachments, undo, unanswered>>
    BY <1>2 DEF LazyExpire, StoreChunk, RecordChunk, ReadSession, Download, Forget, Retry,
       Announce, Fail, AbortWrite
  <2> QED
    BY <1>1, <2>1, <2>2
<1>3. ASSUME At(r, "upload") \/ At(r, "persist"), NEW q \in Request, At(q, "persist")
      PROVE  q = r
  BY <1>3 DEF MutexInv, OneCompleter, Holder, At, Completing, Assembling
<1>4. CASE UploadFile(r)
  <2>1. UNCHANGED <<attachments, undo, unanswered>> /\ At(r, "upload")
    BY <1>4 DEF UploadFile
  <2>2. CASE Goes(r, {"upload"}, {"persist"}) /\ files' = files + 1
    <3>1. ~Persisting
      BY <1>3, <2>1 DEF Persisting, At
    <3> QED
      BY <2>1, <2>2, <3>1 DEF FilesInv, FilesKept, Persisting, TypeOK
  <2>3. CASE Goes(r, {"upload"}, {"fail"}) /\ files' = files
    BY <2>1, <2>3, FilesStep
  <2> QED
    BY <1>4, <2>2, <2>3, ProceedSteps
<1>5. CASE Persist(r)
  <2>1. Persisting /\ UNCHANGED files
    BY <1>5, PersistSteps DEF Persist, Persisting
  <2>2. ~Persisting'
    <3>1. req'[r].pc # "persist" /\ \A q \in Request \ {r} : req'[q] = req[q]
      BY <1>5, PersistSteps DEF Committed, RolledBack, CommittedUnheard, Goes
    <3>2. \A q \in Request \ {r} : ~At(q, "persist")
      BY <1>3, <1>5 DEF Persist
    <3> QED
      BY <3>1, <3>2 DEF Persisting, At
  <2>3. attachments \in Nat /\ undo \in Nat /\ unanswered \in Nat /\ files \in Nat
    BY DEF TypeOK
  <2>4. attachments + undo + 1 <= files + unanswered /\ unanswered <= attachments
    BY <2>1 DEF FilesInv, FilesKept
  <2>5. /\ attachments' + undo' <= files + unanswered'
        /\ attachments' \in Nat /\ undo' \in Nat /\ unanswered' \in Nat
        /\ unanswered' <= attachments'
    <3>1. /\ (attachments + 1) + undo <= files + unanswered
          /\ attachments + (undo + 1) <= files + unanswered
          /\ (attachments + 1) + (undo + 1) <= files + (unanswered + 1)
      BY <2>3, <2>4, CommitCounts
    <3>2. CASE Committed(r)
      BY <2>3, <2>4, <3>1, <3>2 DEF Committed
    <3>3. CASE RolledBack(r)
      BY <2>3, <2>4, <3>1, <3>3 DEF RolledBack
    <3>4. CASE CommittedUnheard(r)
      BY <2>3, <2>4, <3>1, <3>4 DEF CommittedUnheard
    <3> QED
      BY <1>5, <3>2, <3>3, <3>4, PersistSteps
  <2>6. attachments' + undo' + 0 = attachments' + undo' /\ files' = files
    BY <2>1, <2>5
  <2>7. FilesKept' <=> attachments' + undo' + 0 <= files' + unanswered'
    BY <2>2 DEF FilesKept
  <2>8. FilesKept'
    BY <2>5, <2>6, <2>7, Zenon
  <2> QED
    BY <2>5, <2>8 DEF FilesInv
<1> QED
  BY <1>2, <1>4, <1>5 DEF Proceed

LEMMA FilesBackground ==
    ASSUME TypeOK, FilesInv, Background \/ Misfortune
    PROVE  FilesInv'
<1> USE DEF bucket, counters
<1>1. CASE SweepRead \/ SweepClean \/ SweepWrite \/ CleanUp \/ Expire
  <2>1. UNCHANGED <<req, files, attachments, undo, unanswered>>
    BY <1>1 DEF SweepRead, SweepClean, SweepWrite, CleanUp, Expire
  <2> QED
    BY <2>1, FilesFrame DEF Persisting, At
<1>2. CASE UndoFile
  <2>1. UNCHANGED <<req, attachments, unanswered>> /\ undo' = undo - 1 /\ files' >= files - 1
        /\ undo > 0 /\ files' \in Int
    BY <1>2 DEF UndoFile, UndoPending, TypeOK
  <2>2. Persisting' <=> Persisting
    BY <2>1 DEF Persisting, At
  <2>3. attachments \in Nat /\ undo \in Nat /\ unanswered \in Nat /\ files \in Nat
    BY DEF TypeOK
  <2>4. CASE Persisting
    <3>1. attachments + undo + 1 <= files + unanswered
      BY <2>4 DEF FilesInv, FilesKept
    <3>2. attachments + (undo - 1) + 1 <= files' + unanswered
      BY <2>1, <2>3, <3>1, UndoCounts
    <3> QED
      BY <2>1, <2>2, <2>4, <3>2 DEF FilesInv, FilesKept
  <2>5. CASE ~Persisting
    <3>1. attachments + undo + 0 <= files + unanswered
      BY <2>5 DEF FilesInv, FilesKept
    <3>2. attachments + (undo - 1) + 0 <= files' + unanswered
      BY <2>1, <2>3, <3>1, UndoCounts
    <3> QED
      BY <2>1, <2>2, <2>5, <3>2 DEF FilesInv, FilesKept
  <2> QED
    BY <2>4, <2>5
<1>3. CASE Restart
  <2>1. UNCHANGED <<files, attachments, unanswered>> /\ undo' = 0 /\ \A r \in Request : req'[r].pc = "idle"
    BY <1>3, IdleTyped DEF Restart
  <2>2. ~Persisting'
    BY <2>1 DEF Persisting, At
  <2> QED
    BY <2>1, <2>2 DEF FilesInv, FilesKept, TypeOK
<1>4. ASSUME NEW r \in Request, CallFails(r) \/ ForgetFails(r) PROVE FilesInv'
  <2>1. PICK to \in {"idle", "fail"} : Goes(r, PC, {to})
    BY <1>4, FaultSteps DEF Goes, PC
  <2>2. UNCHANGED <<files, attachments, undo, unanswered>>
    BY <1>4 DEF CallFails, ForgetFails
  <2> QED
    BY <2>1, <2>2, FilesStep
<1> QED
  BY <1>1, <1>2, <1>3, <1>4 DEF Background, Misfortune

-----------------------------------------------------------------------------
(* Theorems *)

UploadInv == TypeOK /\ MutexInv /\ FilesInv

LEMMA UploadInit == Init => UploadInv
<1> SUFFICES ASSUME Init PROVE UploadInv
  OBVIOUS
<1>1. TypeOK
  <2>1. expired \in BOOLEAN /\ cleanup \in BOOLEAN
    BY Zenon DEF Init
  <2>2. received \in [Chunk -> Nat] /\ req \in [Request -> RequestRecord]
    BY IdleTyped DEF Init, NoChunks
  <2> QED
    BY <2>1, <2>2 DEF Init, TypeOK
<1>2. \A r \in Request : req[r].pc = "idle"
  BY IdleTyped DEF Init
<1>3. MutexInv
  BY <1>2 DEF Init, MutexInv, OneCompleter, OneAttachment, NothingLeftToAssemble, Holder, Completing,
     Assembling
<1>4. ~Persisting
  BY <1>2 DEF Persisting, At
<1>5. FilesInv
  BY <1>4 DEF Init, FilesInv, FilesKept
<1> QED
  BY <1>1, <1>3, <1>5 DEF UploadInv

LEMMA UploadInductive == UploadInv /\ [Next]_vars => UploadInv'
<1> SUFFICES ASSUME UploadInv, [Next]_vars PROVE UploadInv'
  OBVIOUS
<1>1. TypeOK /\ MutexInv /\ FilesInv
  BY DEF UploadInv
<1>2. CASE UNCHANGED vars
  <2>1. TypeOK' /\ MutexInv'
    BY <1>1, <1>2 DEF vars, row, bucket, counters, TypeOK, MutexInv, OneCompleter,
       OneAttachment, NothingLeftToAssemble, Holder
  <2>2. UNCHANGED <<files, attachments, undo, unanswered>> /\ (Persisting' => Persisting)
    BY <1>2 DEF vars, bucket, counters, Persisting, At
  <2> QED
    BY <1>1, <2>1, <2>2, FilesFrame DEF UploadInv
<1>3. CASE Background \/ Misfortune
  BY <1>1, <1>3, BackgroundType, MutexBackground, FilesBackground DEF UploadInv
<1>4. ASSUME NEW r \in Request, Arrive(r) PROVE UploadInv'
  BY <1>1, <1>4, ArriveType, MutexArrive, FilesArrive DEF UploadInv
<1>5. ASSUME NEW r \in Request, Proceed(r) PROVE UploadInv'
  BY <1>1, <1>5, ProceedType, MutexProceed, FilesProceed DEF UploadInv
<1> QED
  BY <1>2, <1>3, <1>4, <1>5 DEF Next

THEOREM UploadInvHolds == Spec => []UploadInv
BY UploadInit, UploadInductive, PTL DEF Spec

(* The row and what every request remembers keep their types; in           *)
(* particular no undo deletes a file that is not there.                    *)
THEOREM UploadTypeCorrect == Spec => []TypeOK
BY UploadInvHolds, PTL DEF UploadInv

(* complete()'s conditional update is a mutex: whatever aborts, lazy       *)
(* expiries, sweeps, crashes and refused calls do, one request assembles   *)
(* at a time.                                                              *)
THEOREM CompleterMutex == Spec => []OneCompleter
BY UploadInvHolds, PTL DEF UploadInv, MutexInv

(* A session gives at most one Attachment row, for any number of           *)
(* complete() calls and retries.                                           *)
THEOREM AtMostOneAttachment == Spec => []OneAttachment
BY UploadInvHolds, PTL DEF UploadInv, MutexInv

(* The file of a committed row is deleted only when the answer of its own  *)
(* commit was lost: no undo of a retried or abandoned assembly takes it.   *)
THEOREM AttachmentKeepsFile == Spec => []FilesKept
BY UploadInvHolds, PTL DEF UploadInv, FilesInv

(* While a request assembles, the session row names it alone, and an       *)
(* assembly that ended with the attachment leaves nothing for a second one *)
(* to assemble: the three parts of OneAssembly together.                   *)
THEOREM AssemblySafety == Spec => []OneAssembly
BY UploadInvHolds, PTL DEF UploadInv, MutexInv, OneAssembly

-----------------------------------------------------------------------------
(* The session as Assembly sees it *)

Holders == {r \in Request : Holder(r)}
AssemblyVars == <<Holders, status = "PENDING", attachments>>

LEMMA HoldersSame ==
    ASSUME NEW r \in Request, NEW from, NEW to, Goes(r, from, to),
           \/ from \cap Completing = {} /\ to \cap Completing = {}
           \/ from \subseteq Completing /\ to \subseteq Completing
    PROVE  Holders' = Holders
<1>1. \A q \in Request : Holder(q)' <=> Holder(q)
  BY DEF Holder, Goes
<1> QED
  BY <1>1 DEF Holders

LEMMA HolderLeaves ==
    ASSUME OneCompleter, NEW r \in Request, NEW from, NEW to, Goes(r, from, to),
           from \subseteq Completing, to \cap Completing = {}
    PROVE  Holders = {r} /\ Holders' = {}
<1>1. Holder(r) /\ ~Holder(r)' /\ \A q \in Request \ {r} : Holder(q)' <=> Holder(q)
  BY DEF Holder, Goes
<1>2. \A q \in Request \ {r} : ~Holder(q)
  BY <1>1 DEF OneCompleter
<1> QED
  BY <1>1, <1>2 DEF Holders

(* A step that leaves the holder and the attachment can only withdraw it. *)
LEMMA Withdraws ==
    ASSUME Holders' = Holders, UNCHANGED attachments, status' = status \/ status' # "PENDING"
    PROVE  [Assembler!Next]_AssemblyVars
<1>1. CASE status' = status
  BY <1>1 DEF AssemblyVars
<1>2. CASE status' # "PENDING"
  BY <1>2 DEF Assembler!Next, Assembler!Withdraw, Holders
<1> QED
  BY <1>1, <1>2

(* The holder goes without handing back. *)
LEMMA Drops ==
    ASSUME OneCompleter, NEW r \in Request, NEW from, NEW to, Goes(r, from, to),
           from \subseteq Completing, to \cap Completing = {},
           UNCHANGED attachments, status' = status \/ status' # "PENDING"
    PROVE  Assembler!Next
<1>1. Holders = {r} /\ Holders' = {}
  BY HolderLeaves
<1>2. Holder(r)
  BY <1>1 DEF Holders
<1>3. status # "PENDING"
  BY <1>2 DEF OneCompleter
<1>4. Assembler!Drop
  BY <1>1, <1>3 DEF Assembler!Drop, Holders
<1> QED
  BY <1>4 DEF Assembler!Next

LEMMA ArriveAssembles ==
    ASSUME TypeOK, MutexInv, NEW r \in Request, Arrive(r)
    PROVE  [Assembler!Next]_AssemblyVars
<1> USE DEF row
<1>1. CASE Claim(r)
  <2>1. /\ Goes(r, {"idle"}, {"claimed"}) /\ status = "PENDING" /\ status' = "COMPLETING"
        /\ UNCHANGED attachments
    BY <1>1, ArriveSteps DEF Claim, Claimable
  <2>2. \A q \in Request : ~Holder(q)
    BY <2>1 DEF MutexInv, OneCompleter
  <2>3. Holders = {}
    BY <2>2 DEF Holders
  <2>4. \A q \in Request : Holder(q)' <=> q = r
    BY <2>1, <2>2 DEF Goes, Holder, Completing, Assembling
  <2>5. Holders' = {r}
    BY <2>4 DEF Holders
  <2>6. attachments = 0
    BY <2>1 DEF MutexInv, NothingLeftToAssemble, TypeOK
  <2>7. Assembler!Take(r)
    BY <2>1, <2>3, <2>5, <2>6 DEF Assembler!Take, Holders
  <2> QED
    BY <2>7 DEF Assembler!Next
<1>2. ASSUME NEW to \in {"lazyExpire", "abort", "store"}, Goes(r, {"idle"}, {to}),
             UNCHANGED <<status, attachments>>
      PROVE  [Assembler!Next]_AssemblyVars
  <2>1. Holders' = Holders
    BY <1>2, HoldersSame DEF Completing, Assembling
  <2> QED
    BY <1>2, <2>1, Withdraws
<1>3. CASE ReadExpired(r)
  BY <1>2, <1>3, ArriveSteps DEF ReadExpired
<1>4. CASE AbortRead(r)
  BY <1>2, <1>4, ArriveSteps DEF AbortRead
<1>5. ASSUME NEW c \in Chunk, ReceiveChunk(r, c) PROVE [Assembler!Next]_AssemblyVars
  BY <1>2, <1>5, ArriveSteps DEF ReceiveChunk
<1> QED
  BY <1>1, <1>3, <1>4, <1>5 DEF Arrive

LEMMA ProceedAssembles ==
    ASSUME TypeOK, MutexInv, NEW r \in Request, Proceed(r)
    PROVE  [Assembler!Next]_AssemblyVars
<1> USE DEF row
<1>0. OneCompleter
  BY DEF MutexInv
<1>1. CASE LazyExpire(r) \/ StoreChunk(r) \/ RecordChunk(r) \/ AbortWrite(r)
  <2>1. PICK from \in {"lazyExpire", "store", "record", "abort"} : Goes(r, {from}, {"idle", "record"})
    BY <1>1, ProceedSteps DEF Goes
  <2>2. (status' = status \/ status' # "PENDING") /\ UNCHANGED attachments
    BY <1>1 DEF LazyExpire, StoreChunk, RecordChunk, AbortWrite
  <2>3. Holders' = Holders
    BY <2>1, HoldersSame DEF Completing, Assembling
  <2> QED
    BY <2>2, <2>3, Withdraws
<1>2. CASE ReadSession(r) \/ Download(r) \/ Forget(r) \/ UploadFile(r)
  <2>1. PICK from \in {"claimed", "download", "forget", "upload"} : Goes(r, {from}, Completing)
    BY <1>2, ProceedSteps DEF Goes, Completing, Assembling
  <2>2. UNCHANGED <<status, attachments>>
    BY <1>2 DEF ReadSession, Download, Forget, UploadFile
  <2>3. Holders' = Holders
    BY <2>1, HoldersSame DEF Completing, Assembling
  <2> QED
    BY <2>2, <2>3, Withdraws
<1>3. CASE Retry(r)
  <2>1. Goes(r, {"retry"}, {"idle"}) /\ UNCHANGED attachments /\ status' = "PENDING"
    BY <1>3, ProceedSteps DEF Retry
  <2>2. Holders = {r} /\ Holders' = {}
    BY <1>0, <2>1, HolderLeaves DEF Completing, Assembling
  <2>3. attachments = 0
    BY <2>1 DEF MutexInv, NothingLeftToAssemble, TypeOK, Goes, Assembling
  <2>4. Assembler!HandBack
    BY <2>1, <2>2, <2>3 DEF Assembler!HandBack, Holders
  <2> QED
    BY <2>4 DEF Assembler!Next
<1>4. CASE Persist(r)
  <2>1. CASE Committed(r)
    <3>1. Goes(r, {"persist"}, {"announce"}) /\ attachments' = attachments + 1 /\ status' = "COMPLETED"
      BY <2>1 DEF Committed
    <3>2. Holders' = Holders
      BY <3>1, HoldersSame DEF Completing, Assembling
    <3>3. attachments = 0
      BY <3>1 DEF MutexInv, NothingLeftToAssemble, TypeOK, Goes, Assembling
    <3>4. Holder(r)
      BY <3>1 DEF Goes, Holder, Completing, Assembling
    <3>5. Holders # {} /\ status # "PENDING"
      BY <1>0, <3>4 DEF Holders, OneCompleter
    <3>6. Assembler!Make
      BY <3>1, <3>2, <3>3, <3>5 DEF Assembler!Make, Holders
    <3> QED
      BY <3>6 DEF Assembler!Next
  <2>2. CASE RolledBack(r)
    <3>1. Holders' = Holders
      BY <2>2, HoldersSame DEF RolledBack, Completing, Assembling
    <3> QED
      BY <2>2, <3>1, Withdraws DEF RolledBack
  <2>3. CASE CommittedUnheard(r)
    <3>1. Goes(r, {"persist"}, {"fail"}) /\ attachments' = attachments + 1 /\ status' = "COMPLETED"
      BY <2>3 DEF CommittedUnheard
    <3>2. Holders' = Holders
      BY <3>1, HoldersSame DEF Completing, Assembling
    <3>3. attachments = 0
      BY <3>1 DEF MutexInv, NothingLeftToAssemble, TypeOK, Goes, Assembling
    <3>4. Holder(r)
      BY <3>1 DEF Goes, Holder, Completing, Assembling
    <3>5. Holders # {} /\ status # "PENDING"
      BY <1>0, <3>4 DEF Holders, OneCompleter
    <3>6. Assembler!Make
      BY <3>1, <3>2, <3>3, <3>5 DEF Assembler!Make, Holders
    <3> QED
      BY <3>6 DEF Assembler!Next
  <2> QED
    BY <1>4, <2>1, <2>2, <2>3, PersistSteps
<1>5. CASE Announce(r) \/ Fail(r)
  <2>1. PICK from \in {"announce", "fail"}, to \in {"idle", "fail"} : Goes(r, {from}, {to})
    BY <1>5, ProceedSteps DEF Goes
  <2>2. (status' = status \/ status' # "PENDING") /\ UNCHANGED attachments
    BY <1>5 DEF Announce, Fail
  <2>3. CASE to = "idle"
    BY <1>0, <2>1, <2>2, <2>3, Drops DEF Completing, Assembling
  <2>4. CASE to = "fail"
    <3>1. Holders' = Holders
      BY <2>1, <2>4, HoldersSame DEF Completing, Assembling
    <3> QED
      BY <2>2, <3>1, Withdraws
  <2> QED
    BY <2>1, <2>3, <2>4
<1> QED
  BY <1>1, <1>2, <1>3, <1>4, <1>5 DEF Proceed

LEMMA BackgroundAssembles ==
    ASSUME TypeOK, MutexInv, Background \/ Misfortune
    PROVE  [Assembler!Next]_AssemblyVars
<1> USE DEF row
<1>0. OneCompleter
  BY DEF MutexInv
<1>1. CASE Background
  <2>1. UNCHANGED <<req, attachments>> /\ (status' = status \/ status' # "PENDING")
    BY <1>1 DEF Background, SweepRead, SweepClean, SweepWrite, CleanUp, UndoFile, Expire
  <2>2. Holders' = Holders
    BY <2>1 DEF Holders, Holder
  <2> QED
    BY <2>1, <2>2, Withdraws
<1>2. CASE Restart
  <2>1. UNCHANGED <<status, attachments>> /\ \A r \in Request : req'[r].pc = "idle"
    BY <1>2, IdleTyped DEF Restart
  <2>2. Holders' = {}
    BY <2>1 DEF Holders, Holder, Completing, Assembling
  <2>3. CASE Holders = {}
    BY <2>1, <2>2, <2>3, Withdraws
  <2>4. CASE Holders # {}
    <3>1. PICK r \in Request : Holder(r)
      BY <2>4 DEF Holders
    <3>2. status # "PENDING"
      BY <1>0, <3>1 DEF OneCompleter
    <3>3. Assembler!Drop
      BY <2>1, <2>2, <2>4, <3>2 DEF Assembler!Drop, Holders
    <3> QED
      BY <3>3 DEF Assembler!Next
  <2> QED
    BY <2>3, <2>4
<1>3. ASSUME NEW r \in Request, CallFails(r) PROVE [Assembler!Next]_AssemblyVars
  <2>1. PICK from \in {"lazyExpire", "record", "claimed", "retry", "fail", "abort"} :
           Goes(r, {from}, {"idle"})
    BY <1>3, FaultSteps DEF Goes
  <2>2. UNCHANGED <<status, attachments>>
    BY <1>3 DEF CallFails
  <2>3. CASE from \in Completing
    BY <1>0, <2>1, <2>2, <2>3, Drops DEF Completing, Assembling
  <2>4. CASE from \notin Completing
    <3>1. Holders' = Holders
      BY <2>1, <2>4, HoldersSame DEF Completing, Assembling
    <3> QED
      BY <2>2, <3>1, Withdraws
  <2> QED
    BY <2>3, <2>4
<1>4. ASSUME NEW r \in Request, ForgetFails(r) PROVE [Assembler!Next]_AssemblyVars
  <2>1. Goes(r, {"forget"}, {"fail"}) /\ UNCHANGED <<status, attachments>>
    BY <1>4, FaultSteps DEF ForgetFails
  <2>2. Holders' = Holders
    BY <2>1, HoldersSame DEF Completing, Assembling
  <2> QED
    BY <2>1, <2>2, Withdraws
<1> QED
  BY <1>1, <1>2, <1>3, <1>4 DEF Misfortune

LEMMA StepAssembles ==
    ASSUME UploadInv, [Next]_vars
    PROVE  [Assembler!Next]_AssemblyVars
<1>1. TypeOK /\ MutexInv
  BY DEF UploadInv
<1>2. CASE UNCHANGED vars
  <2>1. UNCHANGED <<req, status, attachments>>
    BY <1>2 DEF vars, row
  <2>2. Holders' = Holders
    BY <2>1 DEF Holders, Holder
  <2> QED
    BY <2>1, <2>2, Withdraws
<1>3. CASE Next
  BY <1>1, <1>3, BackgroundAssembles, ArriveAssembles, ProceedAssembles DEF Next
<1> QED
  BY <1>2, <1>3

(* complete() keeps what Assembly promises, for any number of requests,    *)
(* chunks, claims and faults: whatever the aborts, the expiries, the sweep *)
(* and the deletions write, the session is handed back by its holder only, *)
(* and never once the attachment exists.                                   *)
THEOREM AssemblyImplemented == Spec => AssemblyPromised
<1>1. Init => Assembler!Init
  <2> SUFFICES ASSUME Init PROVE Assembler!Init
    OBVIOUS
  <2>1. \A r \in Request : req[r].pc = "idle"
    BY IdleTyped DEF Init
  <2>2. {r \in Request : Holder(r)} = {}
    BY <2>1 DEF Holder, Completing, Assembling
  <2> QED
    BY <2>2 DEF Init, Assembler!Init
<1>2. UploadInv /\ [Next]_vars => [Assembler!Next]_AssemblyVars
  BY StepAssembles
<1> QED
  BY <1>1, <1>2, UploadInvHolds, PTL
     DEF Spec, AssemblyPromised, Assembler!Spec, AssemblyVars, Holders

-----------------------------------------------------------------------------
(* COMPLETED and COMPLETING: who may still change the status *)

Attached == attachments > 0

(* What a request at this point of its way can rely on. *)
LateInv(r) ==
    /\ At(r, "lazyExpire") => expired
    /\ At(r, "fail") /\ Attached => faults > 0
    /\ At(r, "announce") => Attached
    /\ At(r, "abort") /\ status = "COMPLETED" => \E q \in Request : q # r

StatusInv ==
    /\ status = "COMPLETED" => Attached
    /\ Attached => status # "COMPLETING"
    /\ sweep # "idle" => expired

(* A session that is COMPLETING is being completed, unless a crash or a    *)
(* refused call came in between.                                           *)
CompletingHeld == status = "COMPLETING" => (\E r \in Request : Holder(r)) \/ faults > 0

FinalInv == StatusInv /\ CompletingHeld /\ \A r \in Request : LateInv(r)

(* A session that is COMPLETED loses that to something late only: the      *)
(* expiry of a session that was not swept, a failure, or an abort that     *)
(* another request read the row for before.                                *)
LosesByLate ==
    status = "COMPLETED" /\ status' # "COMPLETED" =>
        expired \/ faults > 0 \/ \E q, r \in Request : q # r /\ At(r, "abort")

(* Steps of one request that make no attachment. *)
LEMMA QuietFinal ==
    ASSUME FinalInv, NEW r \in Request, NEW from, NEW to, Goes(r, from, to), LateInv(r)',
           UNCHANGED <<attachments, expired, sweep>>, faults > 0 => faults' > 0,
           status' = status \/ status' \notin {"COMPLETED", "COMPLETING"},
           \/ from \cap Completing = {} \/ to \subseteq Completing
           \/ status' # "COMPLETING" \/ faults' > 0
    PROVE  FinalInv'
<1>1. StatusInv'
  BY DEF FinalInv, StatusInv, Attached
<1>2. CompletingHeld'
  <2>1. CASE status' # "COMPLETING" \/ faults' > 0
    BY <2>1 DEF CompletingHeld
  <2>2. CASE status' = "COMPLETING" /\ ~(faults' > 0)
    <3>1. PICK q \in Request : Holder(q)
      BY <2>2 DEF FinalInv, CompletingHeld
    <3>2. Holder(q)'
      BY <2>2, <3>1 DEF Goes, Holder
    <3> QED
      BY <3>2 DEF CompletingHeld
  <2> QED
    BY <2>1, <2>2
<1>3. ASSUME NEW q \in Request \ {r} PROVE LateInv(q)'
  <2>1. req'[q] = req[q] /\ LateInv(q)
    BY DEF Goes, FinalInv
  <2> QED
    BY <2>1 DEF LateInv, At, Attached
<1> QED
  BY <1>1, <1>2, <1>3 DEF FinalInv

LEMMA ArriveFinal ==
    ASSUME TypeOK, MutexInv, FinalInv, NEW r \in Request, Arrive(r)
    PROVE  FinalInv' /\ LosesByLate
<1> USE DEF row, counters
<1>1. CASE Claim(r)
  <2>1. /\ Goes(r, {"idle"}, {"claimed"}) /\ status = "PENDING" /\ status' = "COMPLETING"
        /\ UNCHANGED <<attachments, expired, sweep, faults>>
    BY <1>1, ArriveSteps DEF Claim, Claimable
  <2>2. ~Attached
    BY <2>1 DEF Attached, MutexInv, NothingLeftToAssemble
  <2>3. StatusInv'
    BY <2>1, <2>2 DEF FinalInv, StatusInv, Attached
  <2>4. Holder(r)'
    BY <2>1 DEF Goes, Holder, Completing, Assembling
  <2>5. ASSUME NEW q \in Request PROVE LateInv(q)'
    <3>1. CASE q = r
      BY <2>1, <3>1 DEF Goes, LateInv, At
    <3>2. CASE q # r
      <4>1. req'[q] = req[q] /\ LateInv(q)
        BY <2>1, <3>2 DEF Goes, FinalInv
      <4> QED
        BY <2>1, <4>1 DEF LateInv, At, Attached
    <3> QED
      BY <3>1, <3>2
  <2> QED
    BY <2>1, <2>3, <2>4, <2>5 DEF FinalInv, CompletingHeld, LosesByLate
<1>2. ASSUME NEW to \in {"lazyExpire", "abort", "store"}, Goes(r, {"idle"}, {to}),
             to = "lazyExpire" => expired, to = "abort" => status # "COMPLETED",
             UNCHANGED <<status, attachments, expired, sweep, faults>>
      PROVE  FinalInv' /\ LosesByLate
  <2>1. LateInv(r)'
    BY <1>2 DEF LateInv, At, Goes
  <2>2. {"idle"} \cap Completing = {}
    BY DEF Completing, Assembling
  <2> QED
    BY <1>2, <2>1, <2>2, QuietFinal DEF LosesByLate
<1>3. CASE ReadExpired(r)
  BY <1>2, <1>3, ArriveSteps DEF ReadExpired
<1>4. CASE AbortRead(r)
  BY <1>2, <1>4, ArriveSteps DEF AbortRead
<1>5. ASSUME NEW c \in Chunk, ReceiveChunk(r, c) PROVE FinalInv' /\ LosesByLate
  BY <1>2, <1>5, ArriveSteps DEF ReceiveChunk
<1> QED
  BY <1>1, <1>3, <1>4, <1>5 DEF Arrive

LEMMA ProceedFinal ==
    ASSUME TypeOK, MutexInv, FinalInv, NEW r \in Request, Proceed(r)
    PROVE  FinalInv' /\ LosesByLate
<1> USE DEF row, counters
<1>1. CASE LazyExpire(r) \/ StoreChunk(r) \/ RecordChunk(r) \/ AbortWrite(r)
  <2>1. PICK from \in {"lazyExpire", "store", "record", "abort"} :
            /\ Goes(r, {from}, {"idle", "record"})
            /\ status' # status => from \in {"lazyExpire", "abort"} /\ status' = "ABORTED"
    BY <1>1, ProceedSteps DEF Goes, LazyExpire, StoreChunk, RecordChunk, AbortWrite
  <2>2. UNCHANGED <<attachments, expired, sweep, faults>>
    BY <1>1 DEF LazyExpire, StoreChunk, RecordChunk, AbortWrite
  <2>3. LateInv(r)'
    BY <2>1 DEF LateInv, At, Goes
  <2>4. {from} \cap Completing = {}
    BY DEF Completing, Assembling
  <2>5. FinalInv'
    BY <2>1, <2>2, <2>3, <2>4, QuietFinal
  <2>6. LateInv(r) /\ req[r].pc = from
    BY <2>1 DEF FinalInv, Goes
  <2>7. LosesByLate
    BY <2>1, <2>6 DEF LosesByLate, LateInv, At
  <2> QED
    BY <2>5, <2>7
<1>2. CASE ReadSession(r) \/ Download(r) \/ Forget(r) \/ UploadFile(r)
  <2>1. PICK from \in {"claimed", "download", "forget", "upload"} :
            Goes(r, {from}, {"download", "upload", "forget", "retry", "persist", "fail"})
    BY <1>2, ProceedSteps DEF Goes
  <2>2. UNCHANGED <<status, attachments, expired, sweep, faults>>
    BY <1>2 DEF ReadSession, Download, Forget, UploadFile
  <2>3. ~Attached
    BY <2>1 DEF Attached, MutexInv, NothingLeftToAssemble, Goes, Assembling
  <2>4. LateInv(r)'
    BY <2>1, <2>2, <2>3 DEF LateInv, At, Goes, Attached
  <2>5. {"download", "upload", "forget", "retry", "persist", "fail"} \subseteq Completing
    BY DEF Completing, Assembling
  <2> QED
    BY <2>1, <2>2, <2>4, <2>5, QuietFinal DEF LosesByLate
<1>3. CASE Retry(r)
  <2>1. Goes(r, {"retry"}, {"idle"}) /\ UNCHANGED <<attachments, expired, sweep, faults>>
        /\ status' = "PENDING"
    BY <1>3, ProceedSteps DEF Retry
  <2>2. ~Attached
    BY <2>1 DEF Attached, MutexInv, NothingLeftToAssemble, Goes, Assembling
  <2>3. LateInv(r)'
    BY <2>1 DEF LateInv, At, Goes
  <2>4. status # "COMPLETED"
    BY <2>2 DEF FinalInv, StatusInv
  <2> QED
    BY <2>1, <2>3, <2>4, QuietFinal DEF LosesByLate
<1>4. CASE Persist(r)
  <2>0. UNCHANGED <<expired, sweep>> /\ req[r].pc = "persist"
    BY <1>4 DEF Persist, At
  <2>1. ~Attached /\ Holder(r)
    BY <2>0 DEF Attached, MutexInv, NothingLeftToAssemble, Assembling, Holder, Completing
  <2>2. status # "COMPLETED"
    BY <2>1 DEF FinalInv, StatusInv
  <2>3. CASE Committed(r) \/ CommittedUnheard(r)
    <3>1. /\ Goes(r, {"persist"}, {"announce", "fail"})
          /\ attachments' = attachments + 1 /\ status' = "COMPLETED"
          /\ (faults' = faults \/ faults' = faults + 1)
          /\ req'[r].pc = "fail" => faults' > 0
      BY <2>3 DEF Committed, CommittedUnheard, Goes, TypeOK
    <3>2. Attached'
      BY <3>1 DEF Attached, TypeOK
    <3>3. LateInv(r)'
      BY <3>1, <3>2 DEF LateInv, At, Goes
    <3>4. ASSUME NEW q \in Request, q # r PROVE LateInv(q)'
      <4>1. ~Holder(q) /\ req'[q] = req[q] /\ LateInv(q)
        BY <2>1, <3>1, <3>4 DEF MutexInv, OneCompleter, Goes, FinalInv
      <4>2. ~At(q, "fail") /\ ~At(q, "announce")
        BY <4>1 DEF Holder, At, Completing
      <4> QED
        BY <2>0, <3>4, <4>1, <4>2 DEF LateInv, At
    <3>5. StatusInv'
      BY <2>0, <3>1, <3>2 DEF FinalInv, StatusInv
    <3> QED
      BY <2>2, <3>1, <3>3, <3>4, <3>5 DEF FinalInv, CompletingHeld, LosesByLate
  <2>4. CASE RolledBack(r)
    <3>1. Goes(r, {"persist"}, {"fail"}) /\ UNCHANGED <<attachments, status, faults>>
      BY <2>4 DEF RolledBack
    <3>2. LateInv(r)'
      BY <2>1, <3>1 DEF LateInv, At, Goes, Attached
    <3>3. {"fail"} \subseteq Completing
      BY DEF Completing
    <3> QED
      BY <2>0, <3>1, <3>2, <3>3, QuietFinal DEF LosesByLate
  <2> QED
    BY <1>4, <2>3, <2>4, PersistSteps
<1>5. CASE Announce(r)
  <2>1. PICK to \in {"idle", "fail"} : Goes(r, {"announce"}, {to})
    BY <1>5, ProceedSteps DEF Goes
  <2>2. /\ UNCHANGED <<status, attachments, expired, sweep>>
        /\ faults > 0 => faults' > 0
        /\ req'[r].pc = "fail" => faults' > 0
    <3>1. faults' = faults \/ faults' = faults + 1
      BY <1>5 DEF Announce, Fault
    <3>2. Leave(r) => req'[r].pc = "idle"
      BY LeaveTyped
    <3> QED
      BY <1>5, <3>1, <3>2 DEF Announce, Fault, TypeOK
  <2>3. LateInv(r)'
    BY <2>1, <2>2 DEF LateInv, At, Goes
  <2>4. LateInv(r) /\ At(r, "announce")
    BY <2>1 DEF FinalInv, At, Goes
  <2>5. status # "COMPLETING"
    BY <2>4 DEF LateInv, FinalInv, StatusInv
  <2> QED
    BY <2>1, <2>2, <2>3, <2>5, QuietFinal DEF LosesByLate
<1>6. CASE Fail(r)
  <2>1. Goes(r, {"fail"}, {"idle"}) /\ status' = "FAILED"
        /\ UNCHANGED <<attachments, expired, sweep, faults>>
    BY <1>6, ProceedSteps DEF Fail
  <2>2. LateInv(r)'
    BY <2>1 DEF LateInv, At, Goes
  <2>3. FinalInv'
    BY <2>1, <2>2, QuietFinal
  <2>4. LateInv(r) /\ At(r, "fail")
    BY <2>1 DEF FinalInv, At, Goes
  <2>5. status = "COMPLETED" => faults > 0
    BY <2>4 DEF LateInv, FinalInv, StatusInv
  <2> QED
    BY <2>3, <2>5 DEF LosesByLate
<1> QED
  BY <1>1, <1>2, <1>3, <1>4, <1>5, <1>6 DEF Proceed

LEMMA BackgroundFinal ==
    ASSUME TypeOK, FinalInv, Background \/ Misfortune
    PROVE  FinalInv' /\ LosesByLate
<1> USE DEF row, counters
<1>1. CASE Background
  <2>1. /\ UNCHANGED <<req, attachments, faults>>
        /\ status' = status \/ (status' = "ABORTED" /\ sweep # "idle")
        /\ (expired => expired') /\ (sweep' # "idle" => expired \/ sweep # "idle")
    BY <1>1 DEF Background, SweepRead, SweepClean, SweepWrite, CleanUp, UndoFile, Expire
  <2>2. StatusInv'
    BY <2>1 DEF FinalInv, StatusInv, Attached
  <2>3. CompletingHeld'
    BY <2>1 DEF FinalInv, CompletingHeld, Holder
  <2>4. ASSUME NEW r \in Request PROVE LateInv(r)'
    BY <2>1 DEF FinalInv, LateInv, At, Attached
  <2>5. LosesByLate
    BY <2>1 DEF LosesByLate, FinalInv, StatusInv
  <2> QED
    BY <2>2, <2>3, <2>4, <2>5 DEF FinalInv
<1>2. CASE Restart
  <2>1. UNCHANGED <<status, attachments, expired>> /\ sweep' = "idle" /\ faults' > 0
    BY <1>2 DEF Restart, Fault, TypeOK
  <2>2. \A r \in Request : req'[r].pc = "idle"
    BY <1>2, IdleTyped DEF Restart
  <2>3. StatusInv'
    BY <2>1 DEF FinalInv, StatusInv, Attached
  <2>4. ASSUME NEW r \in Request PROVE LateInv(r)'
    BY <2>2 DEF LateInv, At
  <2> QED
    BY <2>1, <2>3, <2>4 DEF FinalInv, CompletingHeld, LosesByLate
<1>3. ASSUME NEW r \in Request, CallFails(r) \/ ForgetFails(r) PROVE FinalInv' /\ LosesByLate
  <2>1. PICK to \in {"idle", "fail"} : Goes(r, PC, {to})
    BY <1>3, FaultSteps DEF Goes, PC
  <2>2. UNCHANGED <<status, attachments, expired, sweep>> /\ faults' > 0
    BY <1>3 DEF CallFails, ForgetFails, Fault, TypeOK
  <2>3. LateInv(r)'
    BY <2>1, <2>2 DEF LateInv, At, Goes
  <2> QED
    BY <2>1, <2>2, <2>3, QuietFinal DEF LosesByLate
<1> QED
  BY <1>1, <1>2, <1>3 DEF Misfortune

LEMMA FinalInit == Init => FinalInv
<1> SUFFICES ASSUME Init PROVE FinalInv
  OBVIOUS
<1>1. \A r \in Request : req[r].pc = "idle"
  BY IdleTyped DEF Init
<1>2. \A r \in Request : LateInv(r)
  BY <1>1 DEF LateInv, At
<1> QED
  BY <1>2 DEF Init, FinalInv, StatusInv, CompletingHeld, Attached

LEMMA FinalInductive == UploadInv /\ FinalInv /\ [Next]_vars => FinalInv' /\ LosesByLate
<1> SUFFICES ASSUME UploadInv, FinalInv, [Next]_vars PROVE FinalInv' /\ LosesByLate
  OBVIOUS
<1>1. TypeOK /\ MutexInv
  BY DEF UploadInv
<1>2. CASE UNCHANGED vars
  <2>1. UNCHANGED <<req, status, attachments, expired, sweep, faults>>
    BY <1>2 DEF vars, row, counters
  <2> QED
    BY <2>1 DEF FinalInv, StatusInv, CompletingHeld, LateInv, At, Holder, Attached, LosesByLate
<1>3. CASE Next
  BY <1>1, <1>3, BackgroundFinal, ArriveFinal, ProceedFinal DEF Next
<1> QED
  BY <1>2, <1>3

LEMMA FinalInvHolds == Spec => []FinalInv
BY FinalInit, FinalInductive, UploadInvHolds, PTL DEF Spec

(* COMPLETED is final ("Lets a duplicate /complete call return the         *)
(* original instead of redoing") but for the causes LosesByLate names: in  *)
(* a session that has not expired, whose calls do not overlap and do not   *)
(* fail, nothing takes COMPLETED back.                                     *)
THEOREM CompletedLostByLate == Spec => [][LosesByLate]_vars
BY FinalInductive, FinalInvHolds, UploadInvHolds, PTL DEF Spec

(* A session is never left COMPLETING by what the requests, the cron and   *)
(* the deletions do to each other: only a crash or a refused call leaves   *)
(* it so.                                                                  *)
THEOREM CompletingIsHeld == Spec => []CompletingHeld
BY FinalInvHolds, PTL DEF FinalInv

-----------------------------------------------------------------------------
(* Calls of one upload that do not overtake one another: what              *)
(* receivedChunks says is there once, and in the bucket.                   *)

ChunksHeld == Usable => ~cleanup /\ \A c \in Chunk : received[c] > 0 => c \in stored
SweepsExpired == sweep # "idle" => expired

RowHonest == ReceivedOnce /\ ChunksHeld /\ SweepsExpired
HonestInv == TypeOK /\ RowHonest /\ \A r \in Request : StillSo(r)

Reading == {"lazyExpire", "store", "record"} \cup Assembling

LEMMA ElsewhereSo ==
    ASSUME NEW r \in Request, req'[r].pc \notin Reading
    PROVE  StillSo(r)'
BY DEF StillSo, At, Reading, Assembling

(* A step that neither counts a chunk nor loses one keeps the row honest.  *)
LEMMA RowKept ==
    ASSUME RowHonest, UNCHANGED received, stored \subseteq stored',
           Usable' => Usable, Usable' /\ cleanup' => cleanup, sweep' # "idle" => expired'
    PROVE  RowHonest'
BY DEF RowHonest, ReceivedOnce, ChunksHeld, SweepsExpired

LEMMA GoToKeeps ==
    ASSUME TypeOK, NEW r \in Request, NEW pc \in PC, GoTo(r, pc)
    PROVE  /\ req'[r].pc = pc /\ req'[r].chunk = req[r].chunk
           /\ req'[r].seen = req[r].seen /\ req'[r].snapshot = req[r].snapshot
<1>1. req[r] \in RequestRecord /\ req'[r] = [req[r] EXCEPT !.pc = pc]
  BY DEF TypeOK, GoTo
<1> QED
  BY <1>1 DEF RequestRecord

LEMMA LeaveSo ==
    ASSUME TypeOK, NEW r \in Request, Leave(r)
    PROVE  StillSo(r)'
BY LeaveTyped, ElsewhereSo DEF Reading, Assembling

LEMMA ArriveHonest ==
    ASSUME HonestInv, NEW r \in Request, Arrive(r)
    PROVE  RowHonest' /\ StillSo(r)'
<1> USE DEF row, bucket, counters
<1>1. TypeOK /\ RowHonest
  BY DEF HonestInv
<1>2. {"lazyExpire", "claimed", "abort"} \subseteq PC
  BY DEF PC
<1>3. CASE ReadExpired(r)
  <2>1. req'[r].pc = "lazyExpire" /\ expired'
    BY <1>1, <1>2, <1>3, GoToKeeps DEF ReadExpired
  <2>2. StillSo(r)'
    BY <2>1 DEF StillSo, At, Assembling
  <2>3. RowHonest'
    BY <1>1, <1>3 DEF ReadExpired, RowHonest, ReceivedOnce, ChunksHeld, SweepsExpired, Usable
  <2> QED
    BY <2>2, <2>3
<1>4. CASE AbortRead(r)
  <2>1. req'[r].pc = "abort"
    BY <1>1, <1>2, <1>4, GoToKeeps DEF AbortRead
  <2>2. StillSo(r)'
    BY <2>1, ElsewhereSo DEF Reading, Assembling
  <2>3. RowHonest'
    BY <1>1, <1>4 DEF AbortRead, RowHonest, ReceivedOnce, ChunksHeld, SweepsExpired, Usable
  <2> QED
    BY <2>2, <2>3
<1>5. CASE Claim(r)
  <2>1. req'[r].pc = "claimed" /\ status' = "COMPLETING"
    BY <1>1, <1>2, <1>5, GoToKeeps DEF Claim
  <2>2. StillSo(r)'
    BY <2>1 DEF StillSo, At
  <2>3. RowHonest'
    BY <1>1, <1>5 DEF Claim, Claimable, RowHonest, ReceivedOnce, ChunksHeld, SweepsExpired, Usable
  <2> QED
    BY <2>2, <2>3
<1>6. ASSUME NEW c \in Chunk, ReceiveChunk(r, c) PROVE RowHonest' /\ StillSo(r)'
  <2> DEFINE rec == [Idle EXCEPT !.pc = "store", !.chunk = c, !.seen = (received[c] > 0)]
  <2>1. rec.pc = "store" /\ rec.chunk = c /\ rec.seen = (received[c] > 0)
    BY DEF Idle
  <2>2. req' = [req EXCEPT ![r] = rec] /\ UNCHANGED received
    BY <1>6 DEF ReceiveChunk
  <2> HIDE DEF rec
  <2>3. req'[r] = rec
    BY <1>1, <2>2 DEF TypeOK
  <2>4. StillSo(r)'
    BY <2>1, <2>2, <2>3 DEF StillSo, At, Assembling
  <2>5. RowHonest'
    BY <1>1, <1>6 DEF ReceiveChunk, RowHonest, ReceivedOnce, ChunksHeld, SweepsExpired, Usable
  <2> QED
    BY <2>4, <2>5
<1> QED
  BY <1>3, <1>4, <1>5, <1>6 DEF Arrive

(* receiveChunk and the lazy expiry *)
LEMMA ChunkHonest ==
    ASSUME HonestInv, NEW r \in Request, LazyExpire(r) \/ StoreChunk(r) \/ RecordChunk(r)
    PROVE  RowHonest' /\ StillSo(r)'
<1> USE DEF row, bucket, counters
<1>1. TypeOK /\ RowHonest /\ StillSo(r)
  BY DEF HonestInv
<1>2. CASE LazyExpire(r)
  <2>1. ~Usable'
    BY <1>2 DEF LazyExpire, Usable
  <2>2. RowHonest'
    BY <1>1, <1>2, <2>1, RowKept DEF LazyExpire, RowHonest, SweepsExpired
  <2> QED
    BY <1>1, <1>2, <2>2, LeaveSo DEF LazyExpire
<1>3. CASE StoreChunk(r)
  <2>1. RowHonest'
    <3>1. stored \subseteq stored' /\ (Usable' => Usable) /\ UNCHANGED <<received, cleanup, sweep, expired>>
      BY <1>3 DEF StoreChunk, Usable
    <3> QED
      BY <1>1, <3>1, RowKept DEF RowHonest, SweepsExpired
  <2>2. CASE Leave(r)
    BY <1>1, <2>1, <2>2, LeaveSo
  <2>3. CASE stored' = stored \cup {req[r].chunk} /\ GoTo(r, "record")
    <3>1. /\ req'[r].pc = "record" /\ req'[r].chunk = req[r].chunk /\ req'[r].seen = req[r].seen
      BY <1>1, <2>3, GoToKeeps DEF PC
    <3>2. UNCHANGED received /\ At(r, "store")
      BY <1>3 DEF StoreChunk
    <3>3. req[r].seen <=> received[req[r].chunk] > 0
      BY <1>1, <3>2 DEF StillSo, At
    <3> QED
      BY <2>1, <2>3, <3>1, <3>2, <3>3 DEF StillSo, At, Assembling
  <2> QED
    BY <1>3, <2>2, <2>3 DEF StoreChunk
<1>4. CASE RecordChunk(r)
  <2>1. /\ req[r].seen <=> received[req[r].chunk] > 0
        /\ Usable => req[r].chunk \in stored
    BY <1>1, <1>4 DEF RecordChunk, StillSo, At
  <2>2. req[r].chunk \in Chunk /\ received \in [Chunk -> Nat]
    BY <1>1 DEF TypeOK, RequestRecord
  <2>3. received' = [received EXCEPT ![req[r].chunk] = IF Uncounted(r) THEN @ + 1 ELSE @]
        /\ UNCHANGED <<status, expired, stored, cleanup, sweep>>
    BY <1>4 DEF RecordChunk
  <2>4. \A c \in Chunk : c # req[r].chunk => received'[c] = received[c]
    BY <2>2, <2>3
  <2>5. received'[req[r].chunk] = IF req[r].seen THEN received[req[r].chunk] ELSE 1
    <3>1. ~req[r].seen => received[req[r].chunk] = 0
      BY <2>1, <2>2
    <3>2. received'[req[r].chunk] = IF Uncounted(r) THEN received[req[r].chunk] + 1
                                    ELSE received[req[r].chunk]
      BY <2>2, <2>3
    <3> QED
      BY <3>1, <3>2 DEF Uncounted
  <2>6. ReceivedOnce'
    BY <1>1, <2>2, <2>4, <2>5 DEF RowHonest, ReceivedOnce
  <2>7. ChunksHeld' /\ SweepsExpired'
    BY <1>1, <2>1, <2>3, <2>4 DEF RowHonest, ChunksHeld, SweepsExpired, Usable
  <2> QED
    BY <1>1, <1>4, <2>6, <2>7, LeaveSo DEF RecordChunk, RowHonest
<1> QED
  BY <1>2, <1>3, <1>4

(* complete: reading the session and its chunks *)
LEMMA AssemblyHonest ==
    ASSUME HonestInv, NEW r \in Request, ReadSession(r) \/ Download(r) \/ Forget(r) \/ Retry(r)
    PROVE  RowHonest' /\ StillSo(r)'
<1> USE DEF row, bucket, counters
<1>1. TypeOK /\ RowHonest /\ StillSo(r)
  BY DEF HonestInv
<1>2. status = "COMPLETING" \/ expired
  BY <1>1 DEF ReadSession, Download, Forget, Retry, StillSo, At, Assembling
<1>3. CASE ReadSession(r)
  <2> DEFINE rec == [Idle EXCEPT !.pc = "download", !.snapshot = received]
  <2>1. rec.pc = "download" /\ rec.snapshot = received
    BY DEF Idle
  <2>2. req' = [req EXCEPT ![r] = rec] /\ UNCHANGED <<status, expired, received>>
    BY <1>3 DEF ReadSession
  <2> HIDE DEF rec
  <2>3. req'[r] = rec
    BY <1>1, <2>2 DEF TypeOK
  <2>4. StillSo(r)'
    BY <1>2, <2>1, <2>2, <2>3 DEF StillSo, At, Assembling
  <2>5. RowHonest'
    BY <1>1, <1>3 DEF ReadSession, RowHonest, ReceivedOnce, ChunksHeld, SweepsExpired, Usable
  <2> QED
    BY <2>4, <2>5
<1>4. CASE Download(r)
  <2>1. /\ req'[r].pc \in {"download", "upload", "forget"}
        /\ req'[r].snapshot = req[r].snapshot
    <3>1. CASE GoTo(r, "upload") \/ GoTo(r, "forget")
      BY <1>1, <3>1, GoToKeeps DEF PC
    <3>2. CASE req' = [req EXCEPT ![r].chunk = @ + 1]
      <4>1. req[r] \in RequestRecord /\ req'[r] = [req[r] EXCEPT !.chunk = req[r].chunk + 1]
        BY <1>1, <3>2 DEF TypeOK
      <4>2. req[r].pc = "download"
        BY <1>4 DEF Download, At
      <4> QED
        BY <4>1, <4>2 DEF RequestRecord
    <3> QED
      BY <1>4, <3>1, <3>2 DEF Download
  <2>2. UNCHANGED <<status, expired, received>> /\ req[r].snapshot = received
    BY <1>1, <1>4 DEF Download, StillSo, At
  <2>3. StillSo(r)'
    BY <1>2, <2>1, <2>2 DEF StillSo, At
  <2>4. RowHonest'
    BY <1>1, <1>4 DEF Download, RowHonest, ReceivedOnce, ChunksHeld, SweepsExpired, Usable
  <2> QED
    BY <2>3, <2>4
<1>5. CASE Forget(r)
  <2>1. req[r].snapshot = received /\ req[r].chunk \in Chunk /\ received \in [Chunk -> Nat]
    BY <1>1, <1>5 DEF Forget, StillSo, At, TypeOK, RequestRecord
  <2>2. received' = [received EXCEPT ![req[r].chunk] = 0]
        /\ UNCHANGED <<status, expired, stored, cleanup, sweep>> /\ GoTo(r, "retry")
    BY <1>5, <2>1 DEF Forget
  <2>3. \A c \in Chunk : received'[c] = received[c] \/ received'[c] = 0
    BY <2>1, <2>2
  <2>4. RowHonest'
    BY <1>1, <2>2, <2>3 DEF RowHonest, ReceivedOnce, ChunksHeld, SweepsExpired, Usable
  <2>5. req'[r].pc = "retry"
    BY <1>1, <2>2, GoToKeeps DEF PC
  <2>6. StillSo(r)'
    BY <1>2, <2>2, <2>5 DEF StillSo, At
  <2> QED
    BY <2>4, <2>6
<1>6. CASE Retry(r)
  <2>1. Usable' => Usable
    BY <1>2, <1>6 DEF Retry, Usable
  <2>2. RowHonest'
    BY <1>1, <1>6, <2>1, RowKept DEF Retry, RowHonest, SweepsExpired
  <2> QED
    BY <1>1, <1>6, <2>2, LeaveSo DEF Retry
<1> QED
  BY <1>3, <1>4, <1>5, <1>6

(* complete: making the file and the row; abort *)
LEMMA EndingHonest ==
    ASSUME HonestInv, NEW r \in Request,
           UploadFile(r) \/ Persist(r) \/ Announce(r) \/ Fail(r) \/ AbortWrite(r)
    PROVE  RowHonest' /\ StillSo(r)'
<1> USE DEF row, bucket, counters
<1>1. TypeOK /\ RowHonest /\ StillSo(r)
  BY DEF HonestInv
<1>2. {"persist", "announce", "fail"} \subseteq PC
  BY DEF PC
<1>3. CASE UploadFile(r)
  <2>1. req'[r].pc \in {"persist", "fail"}
    BY <1>1, <1>2, <1>3, GoToKeeps DEF UploadFile
  <2>2. (status = "COMPLETING" \/ expired) /\ UNCHANGED <<status, expired>>
    BY <1>1, <1>3 DEF UploadFile, StillSo, At, Assembling
  <2>3. StillSo(r)'
    BY <2>1, <2>2 DEF StillSo, At
  <2>4. RowHonest'
    BY <1>1, <1>3 DEF UploadFile, RowHonest, ReceivedOnce, ChunksHeld, SweepsExpired, Usable
  <2> QED
    BY <2>3, <2>4
<1>4. CASE Persist(r)
  <2>1. req'[r].pc \in {"announce", "fail"}
    BY <1>1, <1>2, <1>4, GoToKeeps DEF Persist
  <2>2. StillSo(r)'
    BY <2>1, ElsewhereSo DEF Reading, Assembling
  <2>3. (Usable' => Usable) /\ (Usable' /\ cleanup' => cleanup)
        /\ UNCHANGED <<received, stored, sweep, expired>>
    BY <1>4 DEF Persist, Recorded, Refused, AnswerLost, Usable
  <2>4. RowHonest'
    BY <1>1, <2>3, RowKept DEF RowHonest, SweepsExpired
  <2> QED
    BY <2>2, <2>4
<1>5. CASE Announce(r)
  <2>1. StillSo(r)'
    <3>1. CASE Leave(r)
      BY <1>1, <3>1, LeaveSo
    <3>2. CASE GoTo(r, "fail")
      <4>1. req'[r].pc = "fail"
        BY <1>1, <1>2, <3>2, GoToKeeps
      <4> QED
        BY <4>1, ElsewhereSo DEF Reading, Assembling
    <3> QED
      BY <1>5, <3>1, <3>2 DEF Announce
  <2>2. RowHonest'
    BY <1>1, <1>5 DEF Announce, RowHonest, ReceivedOnce, ChunksHeld, SweepsExpired, Usable
  <2> QED
    BY <2>1, <2>2
<1>6. CASE Fail(r) \/ AbortWrite(r)
  <2>1. ~Usable' /\ UNCHANGED <<received, stored, sweep, expired>>
    BY <1>6 DEF Fail, AbortWrite, Usable
  <2>2. RowHonest'
    BY <1>1, <2>1, RowKept DEF RowHonest, SweepsExpired
  <2> QED
    BY <1>1, <1>6, <2>2, LeaveSo DEF Fail, AbortWrite
<1> QED
  BY <1>3, <1>4, <1>5, <1>6

(* A background step that changes no request; the session may end by it.   *)
LEMMA OthersSo ==
    ASSUME \A r \in Request : StillSo(r), UNCHANGED <<received, req>>,
           Usable' => Usable /\ stored \subseteq stored',
           expired \/ status = "COMPLETING" => expired' \/ status' = "COMPLETING",
           expired => expired'
    PROVE  \A r \in Request : StillSo(r)'
BY DEF StillSo, At

LEMMA BackgroundHonest ==
    ASSUME HonestInv, Background
    PROVE  RowHonest' /\ \A r \in Request : StillSo(r)'
<1> USE DEF row, bucket, counters
<1>1. TypeOK /\ RowHonest /\ \A r \in Request : StillSo(r)
  BY DEF HonestInv
<1>2. CASE SweepRead \/ SweepClean \/ SweepWrite
  <2>1. expired /\ expired' /\ UNCHANGED <<received, req>>
    BY <1>1, <1>2 DEF SweepRead, SweepClean, SweepWrite, RowHonest, SweepsExpired
  <2>2. ~Usable' /\ SweepsExpired'
    BY <2>1 DEF Usable, SweepsExpired
  <2>3. RowHonest'
    BY <1>1, <2>1, <2>2 DEF RowHonest, ReceivedOnce, ChunksHeld
  <2> QED
    BY <1>1, <2>1, <2>2, <2>3, OthersSo
<1>3. CASE CleanUp
  <2>1. ~Usable /\ UNCHANGED <<status, expired, received, req, sweep>>
    BY <1>1, <1>3 DEF CleanUp, RowHonest, ChunksHeld
  <2>2. ~Usable'
    BY <2>1 DEF Usable
  <2>3. RowHonest'
    BY <1>1, <2>1, <2>2 DEF RowHonest, ReceivedOnce, ChunksHeld, SweepsExpired
  <2> QED
    BY <1>1, <2>1, <2>2, <2>3, OthersSo
<1>4. CASE UndoFile
  <2>1. UNCHANGED <<status, expired, received, req, sweep, stored, cleanup>>
    BY <1>4 DEF UndoFile
  <2>2. RowHonest'
    BY <1>1, <2>1 DEF RowHonest, ReceivedOnce, ChunksHeld, SweepsExpired, Usable
  <2> QED
    BY <1>1, <2>1, <2>2, OthersSo DEF Usable
<1>5. CASE Expire
  <2>1. expired' /\ UNCHANGED <<status, received, req, sweep, stored, cleanup>>
    BY <1>5 DEF Expire
  <2>2. ~Usable'
    BY <2>1 DEF Usable
  <2>3. RowHonest'
    BY <1>1, <2>1, <2>2 DEF RowHonest, ReceivedOnce, ChunksHeld, SweepsExpired
  <2> QED
    BY <1>1, <2>1, <2>2, <2>3, OthersSo
<1> QED
  BY <1>2, <1>3, <1>4, <1>5 DEF Background

(* A restart or a refused call drops what the call had read. *)
LEMMA FaultRow ==
    ASSUME TypeOK, RowHonest, Misfortune
    PROVE  RowHonest'
<1> USE DEF row, bucket, counters
<1>1. UNCHANGED <<received, stored, status, expired>> /\ (cleanup' => cleanup)
      /\ (sweep' = sweep \/ sweep' = "idle")
  BY DEF Misfortune, Restart, CallFails, ForgetFails
<1>2. Usable' => Usable
  BY <1>1 DEF Usable
<1>3. sweep' # "idle" => expired'
  BY <1>1 DEF RowHonest, SweepsExpired
<1> QED
  BY <1>1, <1>2, <1>3, RowKept

LEMMA RefusedSo ==
    ASSUME TypeOK, NEW r \in Request, CallFails(r) \/ ForgetFails(r)
    PROVE  StillSo(r)'
<1>1. req'[r].pc \in {"idle", "fail"}
  BY LeaveTyped, GoToKeeps DEF CallFails, ForgetFails, PC
<1> QED
  BY <1>1, ElsewhereSo DEF Reading, Assembling

LEMMA RestartSo ==
    ASSUME Restart
    PROVE  \A r \in Request : StillSo(r)'
<1>1. \A r \in Request : req'[r].pc = "idle"
  BY IdleTyped DEF Restart
<1> QED
  BY <1>1, ElsewhereSo DEF Reading, Assembling

LEMMA HonestInit == Init => HonestInv
<1> SUFFICES ASSUME Init PROVE HonestInv
  OBVIOUS
<1>1. TypeOK
  BY UploadInit DEF UploadInv
<1>2. \A c \in Chunk : received[c] = 0
  BY DEF Init, NoChunks
<1>3. RowHonest
  BY <1>2 DEF Init, RowHonest, ReceivedOnce, ChunksHeld, SweepsExpired
<1>4. \A r \in Request : StillSo(r)
  <2>1. \A r \in Request : req[r].pc = "idle"
    BY IdleTyped DEF Init
  <2> QED
    BY <2>1 DEF StillSo, At, Assembling
<1> QED
  BY <1>1, <1>3, <1>4 DEF HonestInv

(* A step of one request leaves what the others remember alone. *)
LEMMA OthersUnmoved ==
    ASSUME TypeOK, NEW r \in Request, Arrive(r) \/ Proceed(r) \/ CallFails(r) \/ ForgetFails(r)
    PROVE  \A q \in Request \ {r} : req'[q] = req[q]
<1>1. CASE Arrive(r)
  BY <1>1, ArriveSteps DEF Arrive, Goes
<1>2. CASE Proceed(r)
  <2>1. CASE Persist(r)
    BY <2>1, PersistSteps DEF Committed, RolledBack, CommittedUnheard, Goes
  <2> QED
    BY <1>2, <2>1, ProceedSteps DEF Proceed, Goes
<1>3. CASE CallFails(r) \/ ForgetFails(r)
  BY <1>3, FaultSteps DEF Goes
<1> QED
  BY <1>1, <1>2, <1>3

LEMMA HonestInductive == UploadInv /\ HonestInv /\ [Next /\ ~Overtaken]_vars => HonestInv'
<1> SUFFICES ASSUME UploadInv, HonestInv, [Next /\ ~Overtaken]_vars PROVE HonestInv'
  OBVIOUS
<1>1. TypeOK'
  BY UploadInductive DEF UploadInv
<1>2. CASE UNCHANGED vars
  <2>1. RowHonest'
    BY <1>2 DEF vars, row, bucket, HonestInv, RowHonest, ReceivedOnce, ChunksHeld, SweepsExpired, Usable
  <2>2. \A r \in Request : StillSo(r)'
    BY <1>2 DEF vars, row, bucket, HonestInv, StillSo, At, Usable
  <2> QED
    BY <1>1, <2>1, <2>2 DEF HonestInv
<1>3. TypeOK /\ RowHonest
  BY DEF HonestInv
<1>4. ASSUME NEW r \in Request, StillSo(r)', ~Overtaken,
             Arrive(r) \/ Proceed(r) \/ CallFails(r) \/ ForgetFails(r)
      PROVE  \A q \in Request : StillSo(q)'
  <2>1. ASSUME NEW q \in Request, q # r PROVE StillSo(q)'
    <3>1. req'[q] = req[q] /\ StillSo(q)
      BY <1>3, <1>4, <2>1, OthersUnmoved DEF HonestInv
    <3> QED
      BY <1>4, <3>1 DEF Overtaken
  <2> QED
    BY <1>4, <2>1
<1>5. ASSUME NEW r \in Request, ~Overtaken, Arrive(r) \/ Proceed(r) PROVE HonestInv'
  <2>0. \A q \in Request : StillSo(r)' => StillSo(q)'
    BY <1>4, <1>5
  <2>1. CASE Persist(r) \/ UploadFile(r) \/ Announce(r) \/ Fail(r) \/ AbortWrite(r)
    BY <1>1, <2>0, <2>1, EndingHonest DEF HonestInv
  <2>2. CASE LazyExpire(r) \/ StoreChunk(r) \/ RecordChunk(r)
    BY <1>1, <2>0, <2>2, ChunkHonest DEF HonestInv
  <2>3. CASE ReadSession(r) \/ Download(r) \/ Forget(r) \/ Retry(r)
    BY <1>1, <2>0, <2>3, AssemblyHonest DEF HonestInv
  <2>4. CASE Arrive(r)
    BY <1>1, <2>0, <2>4, ArriveHonest DEF HonestInv
  <2> QED
    BY <1>5, <2>1, <2>2, <2>3, <2>4 DEF Proceed
<1>6. CASE Background
  BY <1>1, <1>6, BackgroundHonest DEF HonestInv
<1>7. CASE Misfortune /\ ~Overtaken
  <2>1. RowHonest'
    BY <1>3, <1>7, FaultRow
  <2>2. ASSUME NEW r \in Request, CallFails(r) \/ ForgetFails(r)
        PROVE  \A q \in Request : StillSo(q)'
    BY <1>3, <1>4, <1>7, <2>2, RefusedSo
  <2>3. \A r \in Request : StillSo(r)'
    BY <1>7, <2>2, RestartSo DEF Misfortune
  <2> QED
    BY <1>1, <2>1, <2>3 DEF HonestInv
<1> QED
  BY <1>2, <1>5, <1>6, <1>7 DEF Next

(* Calls of one upload leave receivedChunks honest, in any number and over *)
(* retries, aborts, expiry, sweeps, background deletions, restarts and     *)
(* refused calls, as long as none overtakes another: a chunk counts once   *)
(* (RecordChunk sees what receiveChunk read), and one that getStatus tells *)
(* a client to skip is in the bucket.                                      *)
THEOREM HonestProgress == WatchedSpec => []HonestUnlessOvertaken
<1> DEFINE HonestSoFar == ~overtaken => HonestInv
<1>1. Init /\ overtaken = FALSE => UploadInv /\ HonestSoFar
  BY HonestInit, UploadInit
<1>2. UploadInv /\ HonestSoFar /\ [WatchedNext]_watchedVars => UploadInv' /\ HonestSoFar'
  <2> SUFFICES ASSUME UploadInv, HonestSoFar, [WatchedNext]_watchedVars
               PROVE  UploadInv' /\ HonestSoFar'
    OBVIOUS
  <2>1. [Next]_vars
    BY DEF WatchedNext, watchedVars
  <2>2. UploadInv'
    BY <2>1, UploadInductive
  <2>3. ASSUME ~overtaken' PROVE ~overtaken /\ [Next /\ ~Overtaken]_vars
    <3>1. CASE WatchedNext
      BY <2>3, <3>1 DEF WatchedNext
    <3>2. CASE UNCHANGED watchedVars
      BY <2>3, <3>2 DEF watchedVars
    <3> QED
      BY <3>1, <3>2
  <2>4. ASSUME ~overtaken' PROVE HonestInv'
    <3>1. HonestInv /\ [Next /\ ~Overtaken]_vars
      BY <2>3, <2>4
    <3> QED
      BY <3>1, HonestInductive
  <2> QED
    BY <2>2, <2>4
<1>3. HonestSoFar => HonestUnlessOvertaken
  BY DEF HonestInv, RowHonest, ChunksHeld, Usable, HonestUnlessOvertaken, ProgressHonest, ReceivedIsStored
<1> QED
  BY <1>1, <1>2, <1>3, PTL DEF WatchedSpec, WatchedInit

-----------------------------------------------------------------------------
LEMMA JobsStep ==
    ASSUME [JobsNext]_jobsVars
    PROVE  /\ [Next]_vars
           /\ [WebhooksNext]_webhooksVars
           /\ [RecurringNext]_recurringVars
           /\ [CopiesNext]_copiesVars
<1>0. CASE UNCHANGED jobsVars
  BY <1>0 DEF jobsVars
<1>1. CASE UploadsPart
  BY <1>1 DEF UploadsPart
<1>2. CASE WebhooksPart
  BY <1>2 DEF WebhooksPart
<1>3. CASE RecurringPart
  BY <1>3 DEF RecurringPart
<1>4. CASE CopiesPart
  BY <1>4 DEF CopiesPart
<1> QED
  BY <1>0, <1>1, <1>2, <1>3, <1>4 DEF JobsNext

(* The jobs go on next to one another as each does alone, so what is       *)
(* proved of uploads and of webhooks holds beside the others.              *)
THEOREM JobsImplement ==
    JobsSpec => Spec /\ WebhooksSpec /\ RecurringSpec /\ CopiesSpec
<1>1. JobsInit => Init /\ WebhooksInit /\ RecurringInit /\ CopiesInit
  BY DEF JobsInit
<1> QED
  BY <1>1, JobsStep, PTL DEF JobsSpec, Spec, WebhooksSpec, RecurringSpec, CopiesSpec

(* Every state that a job reaches is well-typed, whichever job it is.      *)
PartTyped == part \in Parts

THEOREM JobsTyped == JobsSpec => []JobsTypeOK
<1>1. JobsInit => PartTyped
  BY DEF JobsInit, PartTyped
<1>2. PartTyped /\ [JobsNext]_jobsVars => PartTyped'
  BY DEF PartTyped, JobsNext, UploadsPart, WebhooksPart, RecurringPart, CopiesPart, jobsVars
<1>3. JobsSpec => []PartTyped
  BY <1>1, <1>2, PTL DEF JobsSpec
<1>4. RecurringSpec => []RecurringInv
  BY RecurringInvInit, RecurringInductive, PTL DEF RecurringSpec
<1>5. CopiesSpec => []CopiesTypeOK
  BY CopiesTypeInit, CopiesTypeInductive, PTL DEF CopiesSpec
<1>6. /\ WebhooksInv => WebhooksTypeOK
      /\ RecurringInv => RecurringTypeOK
      /\ PartTyped /\ TypeOK /\ WebhooksTypeOK /\ RecurringTypeOK /\ CopiesTypeOK => JobsTypeOK
  BY DEF WebhooksInv, RecurringInv, JobsTypeOK, PartTyped
<1> QED
  BY <1>3, <1>4, <1>5, <1>6, JobsImplement, UploadTypeCorrect, WebhooksInvHolds, PTL
=============================================================================
