------------------------------- MODULE Pushes -------------------------------
(***************************************************************************)
(* PushService: a row per endpoint of a browser, and deliveries in the     *)
(* background that read the rows of a user once and then go through them,  *)
(* while browsers subscribe, change their user and unsubscribe.            *)
(***************************************************************************)
CONSTANTS
    Subscriber,   \* users
    Endpoint,     \* what push services hand out, one per browser
    PushRow,      \* row ids of PushSubscription
    Delivery,     \* calls of sendToUser under way
    Nobody

ASSUME PushesAssumption == Nobody \notin Subscriber \cup Endpoint \cup PushRow

VARIABLES
    pushRow,      \* pushRow[p]: the row
    delivery,     \* delivery[d]: where deliver is
    expired,      \* endpoints the push service has given up
    wanted        \* wanted[e]: who the last answered call subscribed e for

pushesVars == <<pushRow, delivery, expired, wanted>>

-----------------------------------------------------------------------------
PushRowRecord ==
    [state: {"UNUSED", "LIVE", "GONE"}, endpoint: Endpoint \cup {Nobody},
     user: Subscriber \cup {Nobody}]
NoPushRow == [state |-> "UNUSED", endpoint |-> Nobody, user |-> Nobody]

DeliveryRecord ==
    [pc: {"idle", "send", "prune"}, user: Subscriber \cup {Nobody}, rows: SUBSET PushRow,
     pruned: PushRow \cup {Nobody}]
NoDelivery == [pc |-> "idle", user |-> Nobody, rows |-> {}, pruned |-> Nobody]

PushesTypeOK ==
    /\ pushRow \in [PushRow -> PushRowRecord]
    /\ delivery \in [Delivery -> DeliveryRecord]
    /\ expired \in SUBSET Endpoint
    /\ wanted \in [Endpoint -> Subscriber \cup {Nobody}]

PushesInit ==
    /\ pushRow = [p \in PushRow |-> NoPushRow]
    /\ delivery = [d \in Delivery |-> NoDelivery]
    /\ expired = {}
    /\ wanted = [e \in Endpoint |-> Nobody]

LivePush(p) == pushRow[p].state = "LIVE"
RowsOf(u) == {p \in PushRow : LivePush(p) /\ pushRow[p].user = u}
EndPush(p) == [pushRow EXCEPT ![p].state = "GONE"]

-----------------------------------------------------------------------------
(* subscribe: the row of the endpoint changes hands, or a new one is made. *)
Subscribe(u, e, p) ==
    /\ e \notin expired
    /\ IF \E q \in PushRow : LivePush(q) /\ pushRow[q].endpoint = e
       THEN LivePush(p) /\ pushRow[p].endpoint = e
       ELSE pushRow[p].state = "UNUSED"
    /\ pushRow' = [pushRow EXCEPT ![p] = [state |-> "LIVE", endpoint |-> e, user |-> u]]
    /\ wanted' = [wanted EXCEPT ![e] = u]
    /\ UNCHANGED <<delivery, expired>>

(* unsubscribe: deleteMany of the caller's rows with the endpoint *)
Unsubscribe(u, e) ==
    /\ \E p \in RowsOf(u) : pushRow[p].endpoint = e /\ pushRow' = EndPush(p)
    /\ wanted' = [wanted EXCEPT ![e] = Nobody]
    /\ UNCHANGED <<delivery, expired>>

(* The push service: a browser gives up its endpoint, for good. *)
EndpointExpires(e) ==
    /\ expired' = expired \cup {e}
    /\ UNCHANGED <<pushRow, delivery, wanted>>

-----------------------------------------------------------------------------
(* deliver reads the rows of the user. *)
DeliverRead(d, u) ==
    /\ delivery[d].pc = "idle"
    /\ RowsOf(u) # {}
    /\ delivery' = [delivery EXCEPT ![d] =
                       [NoDelivery EXCEPT !.pc = "send", !.user = u, !.rows = RowsOf(u)]]
    /\ UNCHANGED <<pushRow, expired, wanted>>

Sending(d, p) == delivery[d].pc = "send" /\ p \in delivery[d].rows
Rest(d, p) ==
    LET rows == delivery[d].rows \ {p} IN
        IF rows = {} THEN NoDelivery
        ELSE [delivery[d] EXCEPT !.pc = "send", !.rows = rows, !.pruned = Nobody]

(* The payload goes to the endpoint that was read, whosever it is now. *)
SendArrives(d, p) ==
    /\ Sending(d, p)
    /\ pushRow[p].endpoint \notin expired
    /\ delivery' = [delivery EXCEPT ![d] = Rest(d, p)]
    /\ UNCHANGED <<pushRow, expired, wanted>>

(* 404 or 410: the row is deleted by its id, if it is still there. *)
SendExpired(d, p) ==
    /\ Sending(d, p)
    /\ pushRow[p].endpoint \in expired
    /\ delivery' = [delivery EXCEPT ![d].pc = "prune", ![d].pruned = p]
    /\ UNCHANGED <<pushRow, expired, wanted>>

(* Any other failure leaves the row. *)
SendErrorPrunes(d, p) ==
    /\ Sending(d, p)
    /\ delivery' = [delivery EXCEPT ![d].pc = "prune", ![d].pruned = p]
    /\ UNCHANGED <<pushRow, expired, wanted>>

SendError(d, p) ==
    /\ Sending(d, p)
    /\ delivery' = [delivery EXCEPT ![d] = Rest(d, p)]
    /\ UNCHANGED <<pushRow, expired, wanted>>

Prune(d) ==
    /\ delivery[d].pc = "prune"
    /\ LET p == delivery[d].pruned IN
          /\ pushRow' = IF LivePush(p) THEN EndPush(p) ELSE pushRow
          /\ delivery' = [delivery EXCEPT ![d] = Rest(d, p)]
    /\ UNCHANGED <<expired, wanted>>

PruneFails(d) ==
    /\ delivery[d].pc = "prune"
    /\ delivery' = [delivery EXCEPT ![d] = Rest(d, delivery[d].pruned)]
    /\ UNCHANGED <<pushRow, expired, wanted>>

(* The process ends with what it was sending. *)
DeliveryDies(d) ==
    /\ delivery[d].pc # "idle"
    /\ delivery' = [delivery EXCEPT ![d] = NoDelivery]
    /\ UNCHANGED <<pushRow, expired, wanted>>

PushesNext ==
    \/ \E u \in Subscriber, e \in Endpoint :
          \/ \E p \in PushRow : Subscribe(u, e, p)
          \/ Unsubscribe(u, e)
    \/ \E e \in Endpoint : EndpointExpires(e)
    \/ \E d \in Delivery :
          \/ \E u \in Subscriber : DeliverRead(d, u)
          \/ \E p \in PushRow : SendArrives(d, p) \/ SendExpired(d, p) \/ SendError(d, p)
          \/ Prune(d)
          \/ PruneFails(d)
          \/ DeliveryDies(d)

PushesSpec == PushesInit /\ [][PushesNext]_pushesVars

-----------------------------------------------------------------------------
(* An endpoint that still works is subscribed for whoever asked last, in   *)
(* one row, and for nobody after it was unsubscribed, whatever deliveries  *)
(* that read the rows earlier do ("410/404 responses (expired) prune the   *)
(* row"): a delivery prunes only what its push service gave up.            *)
SubscriptionsKept ==
    \A e \in Endpoint \ expired :
        {<<pushRow[p].user, p>> : p \in {q \in PushRow : LivePush(q) /\ pushRow[q].endpoint = e}}
            \in IF wanted[e] = Nobody THEN {{}} ELSE {{<<wanted[e], p>>} : p \in PushRow}
=============================================================================
