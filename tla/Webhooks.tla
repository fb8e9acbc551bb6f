------------------------------ MODULE Webhooks ------------------------------
(***************************************************************************)
(* WebhooksService: the hooks of one workspace, the delivery rows kept for *)
(* them, and the senders, which run outside any request.  A sender is one  *)
(* call of runDelivery between its setImmediate and its last write; what   *)
(* it sends, to whom and under which secret is fixed when it is scheduled. *)
(* The network and the subscriber are nondeterministic: an attempt arrives *)
(* or not, and its answer comes or not.  An attempt that gets no answer    *)
(* ends by AbortSignal.timeout, whether or not it arrived.                 *)
(***************************************************************************)
EXTENDS FiniteSets, Naturals

CONSTANTS
    Hook,        \* webhook row ids
    Delivery,    \* delivery row ids
    Sender,      \* deliveries under way at the same time
    RetryDelays, \* RETRY_DELAYS_MS.length, which is 3; bound: fewer in a run
    LastSecret,  \* bound: secrets are numbered 0..LastSecret
    Nobody       \* no hook, no row

ASSUME WebhooksAssumption ==
    /\ RetryDelays \in Nat
    /\ LastSecret \in Nat
    /\ Nobody \notin Hook \cup Delivery

VARIABLES
    hook,       \* hook[h]: a Webhook row
    delivery,   \* delivery[d]: a WebhookDelivery row
    sender,     \* sender[s]: where that call of runDelivery is
    arrived,    \* arrived[d]: how many attempts of d the subscriber received
    heard,      \* heard[d]: the final answer to d that came back, if one did
    abandoned   \* rows whose sender died with the process or failed to write

webhooksVars == <<hook, delivery, sender, arrived, heard, abandoned>>

-----------------------------------------------------------------------------
(* wants: enabled, and subscribed to the event that is dispatched *)
HookRecord == [row: {"UNUSED", "LIVE", "GONE"}, wants: BOOLEAN, secret: 0..LastSecret]

DeliveryRecord ==
    [status: {"UNUSED", "PENDING", "SUCCESS", "FAILED", "GONE"},
     hook: Hook \cup {Nobody}]

Attempts == RetryDelays + 1

(* 200 stands for every 2xx, 400 for every 4xx, 500 for every other answer, *)
(* 0 for none                                                               *)
Answers == {200, 400, 500}

SenderRecord ==
    [pc: {"idle", "scheduled", "post", "taken", "sleep", "final"},
     hook: Hook \cup {Nobody}, secret: 0..LastSecret,
     row: Delivery \cup {Nobody}, attempt: 0..Attempts, code: Answers \cup {0}]

NoSender == [pc |-> "idle", hook |-> Nobody, secret |-> 0,
             row |-> Nobody, attempt |-> 0, code |-> 0]

WebhooksTypeOK ==
    /\ hook \in [Hook -> HookRecord]
    /\ delivery \in [Delivery -> DeliveryRecord]
    /\ sender \in [Sender -> SenderRecord]
    /\ arrived \in [Delivery -> 0..Attempts]
    /\ heard \in [Delivery -> {"nothing", "accepted", "refused"}]
    /\ abandoned \in SUBSET Delivery

WebhooksInit ==
    /\ hook = [h \in Hook |-> [row |-> "UNUSED", wants |-> FALSE, secret |-> 0]]
    /\ delivery = [d \in Delivery |-> [status |-> "UNUSED", hook |-> Nobody]]
    /\ sender = [s \in Sender |-> NoSender]
    /\ arrived = [d \in Delivery |-> 0]
    /\ heard = [d \in Delivery |-> "nothing"]
    /\ abandoned = {}

Registered(h) == hook[h].row = "LIVE"
Resting(s) == sender[s].pc = "idle"
Unused(d) == delivery[d].status = "UNUSED"

(* Bound: no more senders are scheduled than there are row ids left. *)
RoomFor(n) ==
    Cardinality({s \in Sender : sender[s].pc = "scheduled"}) + n
        <= Cardinality({d \in Delivery : Unused(d)})

-----------------------------------------------------------------------------
(* The operations of the managers *)

CreateHook(h, wants) ==
    /\ hook[h].row = "UNUSED"
    /\ hook' = [hook EXCEPT ![h] = [row |-> "LIVE", wants |-> wants, secret |-> 0]]
    /\ UNCHANGED <<delivery, sender, arrived, heard, abandoned>>

UpdateHook(h, wants) ==
    /\ Registered(h)
    /\ hook' = [hook EXCEPT ![h].wants = wants]
    /\ UNCHANGED <<delivery, sender, arrived, heard, abandoned>>

RotateSecret(h) ==
    /\ Registered(h)
    /\ hook[h].secret < LastSecret
    /\ hook' = [hook EXCEPT ![h].secret = @ + 1]
    /\ UNCHANGED <<delivery, sender, arrived, heard, abandoned>>

(* Its delivery rows are deleted with it, while senders may be at work. *)
RemoveHook(h) ==
    /\ Registered(h)
    /\ hook' = [hook EXCEPT ![h].row = "GONE", ![h].wants = FALSE]
    /\ delivery' = [d \in Delivery |->
                       IF delivery[d].hook = h
                       THEN [delivery[d] EXCEPT !.status = "GONE"]
                       ELSE delivery[d]]
    /\ UNCHANGED <<sender, arrived, heard, abandoned>>

-----------------------------------------------------------------------------
(* What schedules a delivery: the hook's row is captured as it is now *)

Scheduled(h) == [NoSender EXCEPT !.pc = "scheduled", !.hook = h, !.secret = hook[h].secret]

TestSend(h) ==
    \E s \in Sender :
        /\ Registered(h)
        /\ Resting(s)
        /\ RoomFor(1)
        /\ sender' = [sender EXCEPT ![s] = Scheduled(h)]
        /\ UNCHANGED <<hook, delivery, arrived, heard, abandoned>>

(* dispatch: a sender for every hook that wants the event *)
Subscribers == {h \in Hook : Registered(h) /\ hook[h].wants}

Dispatch ==
    /\ Subscribers # {}
    /\ RoomFor(Cardinality(Subscribers))
    /\ \E f \in [Subscribers -> {s \in Sender : Resting(s)}] :
          /\ \A g, h \in Subscribers : f[g] = f[h] => g = h
          /\ sender' = [s \in Sender |->
                           IF \E h \in Subscribers : f[h] = s
                           THEN Scheduled(CHOOSE h \in Subscribers : f[h] = s)
                           ELSE sender[s]]
    /\ UNCHANGED <<hook, delivery, arrived, heard, abandoned>>

(* An admin sends an ended delivery again: a row of its own, to its hook. *)
RetryDelivery(d) ==
    \E s \in Sender :
        /\ delivery[d].status \in {"SUCCESS", "FAILED"}
        /\ Resting(s)
        /\ RoomFor(1)
        /\ sender' = [sender EXCEPT ![s] = Scheduled(delivery[d].hook)]
        /\ UNCHANGED <<hook, delivery, arrived, heard, abandoned>>

-----------------------------------------------------------------------------
(* runDelivery *)

(* The insert of the PENDING row, which fails when the hook was removed: *)
(* then nothing is sent.  RoomFor sees to it that there is a row id.     *)
InsertRow(s) ==
    LET h == sender[s].hook
        d == CHOOSE x \in Delivery : Unused(x)
    IN  /\ sender[s].pc = "scheduled"
        /\ IF Registered(h)
           THEN /\ \E x \in Delivery : Unused(x)
                /\ delivery' = [delivery EXCEPT ![d] = [status |-> "PENDING", hook |-> h]]
                /\ sender' = [sender EXCEPT ![s].pc = "post", ![s].row = d, ![s].attempt = 1]
           ELSE /\ sender' = [sender EXCEPT ![s] = NoSender]
                /\ UNCHANGED delivery
    /\ UNCHANGED <<hook, arrived, heard, abandoned>>

AttemptArrives(s) ==
    /\ sender[s].pc = "post"
    /\ sender' = [sender EXCEPT ![s].pc = "taken"]
    /\ arrived' = [arrived EXCEPT ![sender[s].row] = @ + 1]
    /\ UNCHANGED <<hook, delivery, heard, abandoned>>

(* Where the loop goes after an attempt with that code. *)
AfterRepeating(s, code) ==
    IF code # 200 /\ sender[s].attempt < Attempts THEN "sleep" ELSE "final"
AfterForEver(s, code) ==
    IF code \notin {200, 400} THEN "sleep" ELSE "final"
After(s, code) ==
    IF code \notin {200, 400} /\ sender[s].attempt < Attempts THEN "sleep" ELSE "final"

Answer(s, code) ==
    LET d == sender[s].row
    IN  /\ sender[s].pc = "taken"
        /\ sender' = [sender EXCEPT ![s].pc = After(s, code), ![s].code = code]
        /\ heard' = [heard EXCEPT ![d] = CASE code = 200 -> "accepted"
                                           [] code = 400 -> "refused"
                                           [] OTHER -> @]
        /\ UNCHANGED <<hook, delivery, arrived, abandoned>>

NoAnswer(s) ==
    /\ sender[s].pc \in {"post", "taken"}
    /\ sender' = [sender EXCEPT ![s].pc = After(s, 0), ![s].code = 0]
    /\ UNCHANGED <<hook, delivery, arrived, heard, abandoned>>

Wake(s) ==
    /\ sender[s].pc = "sleep"
    /\ sender' = [sender EXCEPT ![s].pc = "post", ![s].attempt = @ + 1]
    /\ UNCHANGED <<hook, delivery, arrived, heard, abandoned>>

(* The last write; of a row that is gone it fails, and is caught. *)
Outcome(code) == IF code = 200 THEN "SUCCESS" ELSE "FAILED"

FinishSuccess(s) ==
    LET d == sender[s].row
    IN  /\ sender[s].pc = "final"
        /\ delivery' = IF delivery[d].status = "PENDING" /\ sender[s].code = 200
                       THEN [delivery EXCEPT ![d].status = "SUCCESS"]
                       ELSE delivery
        /\ sender' = [sender EXCEPT ![s] = NoSender]
        /\ UNCHANGED <<hook, arrived, heard, abandoned>>

Finish(s) ==
    LET d == sender[s].row
    IN  /\ sender[s].pc = "final"
        /\ delivery' = IF delivery[d].status = "PENDING"
                       THEN [delivery EXCEPT ![d].status = Outcome(sender[s].code)]
                       ELSE delivery
        /\ sender' = [sender EXCEPT ![s] = NoSender]
        /\ UNCHANGED <<hook, arrived, heard, abandoned>>

FinishFails(s) ==
    /\ sender[s].pc = "final"
    /\ sender' = [sender EXCEPT ![s] = NoSender]
    /\ abandoned' = abandoned \cup {sender[s].row}
    /\ UNCHANGED <<hook, delivery, arrived, heard>>

(* The process ends: the senders were in its memory only. *)
SendersLost ==
    /\ \E s \in Sender : ~Resting(s)
    /\ sender' = [s \in Sender |-> NoSender]
    /\ abandoned' = abandoned \cup {sender[s].row : s \in {x \in Sender : sender[x].row # Nobody}}
    /\ UNCHANGED <<hook, delivery, arrived, heard>>

-----------------------------------------------------------------------------
SenderStep(s) ==
    \/ InsertRow(s)
    \/ AttemptArrives(s)
    \/ \E code \in Answers : Answer(s, code)
    \/ NoAnswer(s)
    \/ Wake(s)
    \/ Finish(s)
    \/ FinishFails(s)

WebhooksNext ==
    \/ \E h \in Hook :
          \/ \E wants \in BOOLEAN : CreateHook(h, wants) \/ UpdateHook(h, wants)
          \/ RotateSecret(h)
          \/ RemoveHook(h)
          \/ TestSend(h)
    \/ Dispatch
    \/ \E d \in Delivery : RetryDelivery(d)
    \/ \E s \in Sender : SenderStep(s)
    \/ SendersLost

WebhooksSpec == WebhooksInit /\ [][WebhooksNext]_webhooksVars

-----------------------------------------------------------------------------
(* A delivery is listed as SUCCESS only when the subscriber's 2xx came     *)
(* back, and as FAILED only when none did.  (A subscriber whose 2xx was    *)
(* lost has the event and is listed as FAILED.)                            *)
StatusMatchesAnswer ==
    \A d \in Delivery :
        /\ delivery[d].status = "SUCCESS" => heard[d] = "accepted"
        /\ delivery[d].status = "FAILED" => heard[d] # "accepted"

(* Once a final answer to a delivery came back, 2xx or 4xx, no attempt of  *)
(* it reaches the subscriber again; repeats come from lost answers and     *)
(* from other statuses only.                                               *)
NoRepeatAfterAnswer ==
    [][\A d \in Delivery : heard[d] # "nothing" => arrived'[d] = arrived[d]]_webhooksVars

(* What the subscriber answered is what the row says, and is the end of it. *)
AnswersRespected == []StatusMatchesAnswer /\ NoRepeatAfterAnswer

(* Each row is a delivery of Deliveries, and is being sent while a sender  *)
(* has it: no attempt after a final answer or after the row says how it    *)
(* ended, the row says what was answered and keeps saying it, and what was *)
(* given up by a restart or a failed write is not sent again.              *)
RowsAtWork == {sender[s].row : s \in Sender} \ {Nobody}
Promise == INSTANCE Deliveries
               WITH DeliveryId <- Delivery, MaxTries <- Attempts,
                    shown <- [d \in Delivery |-> delivery[d].status],
                    sending <- RowsAtWork, tries <- arrived, answer <- heard
DeliveriesPromised == Promise!Spec

(* A PENDING row has a sender that is still at work on it, or its sender   *)
(* died with the process or could not write: nothing else leaves the row   *)
(* PENDING, and retryDelivery refuses it for ever.                         *)
PendingHasSender ==
    \A d \in Delivery :
        delivery[d].status = "PENDING" =>
            d \in abandoned \/ \E s \in Sender : sender[s].row = d

(* Every delivery ends, unless its sender was lost. *)
DeliveryEnds ==
    \A d \in Delivery :
        (delivery[d].status = "PENDING") ~> (delivery[d].status # "PENDING" \/ d \in abandoned)
=============================================================================
