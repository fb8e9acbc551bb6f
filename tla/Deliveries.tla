----------------------------- MODULE Deliveries -----------------------------
(***************************************************************************)
(* What a webhook delivery promises the two sides.  The subscriber gets it *)
(* a bounded number of times, never after he answered for good, and never  *)
(* after its row says how it ended.  The workspace sees in that row what   *)
(* he answered, and it does not change but that the row may go.  A         *)
(* delivery that is given up is not taken up again.                        *)
(***************************************************************************)
EXTENDS Naturals

CONSTANTS DeliveryId, MaxTries

VARIABLES
    shown,    \* shown[d]: what the row of d says
    sending,  \* deliveries that are being sent
    tries,    \* tries[d]: how often the subscriber got d
    answer    \* answer[d]: what he answered for good

TypeOK ==
    /\ shown \in [DeliveryId -> {"UNUSED", "PENDING", "SUCCESS", "FAILED", "GONE"}]
    /\ sending \in SUBSET DeliveryId
    /\ tries \in [DeliveryId -> 0..MaxTries]
    /\ answer \in [DeliveryId -> {"nothing", "accepted", "refused"}]

Init ==
    /\ shown = [d \in DeliveryId |-> "UNUSED"]
    /\ sending = {}
    /\ tries = [d \in DeliveryId |-> 0]
    /\ answer = [d \in DeliveryId |-> "nothing"]

Begin(d) ==
    /\ shown[d] = "UNUSED"
    /\ shown' = [shown EXCEPT ![d] = "PENDING"]
    /\ sending' = sending \cup {d}
    /\ UNCHANGED <<tries, answer>>

Unanswered(d) == d \in sending /\ answer[d] = "nothing"

Try(d) ==
    /\ Unanswered(d)
    /\ tries[d] < MaxTries
    /\ tries' = [tries EXCEPT ![d] = @ + 1]
    /\ UNCHANGED <<shown, sending, answer>>

Answer(d, a) ==
    /\ Unanswered(d)
    /\ tries[d] > 0
    /\ answer' = [answer EXCEPT ![d] = a]
    /\ UNCHANGED <<shown, sending, tries>>

End(d) ==
    /\ d \in sending
    /\ shown[d] = "PENDING"
    /\ shown' = [shown EXCEPT ![d] = IF answer[d] = "accepted" THEN "SUCCESS" ELSE "FAILED"]
    /\ sending' = sending \ {d}
    /\ UNCHANGED <<tries, answer>>

GiveUp(S) ==
    /\ sending' = sending \ S
    /\ UNCHANGED <<shown, tries, answer>>

Remove(S) ==
    /\ \A d \in S : shown[d] # "UNUSED"
    /\ shown' = [d \in DeliveryId |-> IF d \in S THEN "GONE" ELSE shown[d]]
    /\ UNCHANGED <<sending, tries, answer>>

Next ==
    \/ \E d \in DeliveryId :
          \/ Begin(d) \/ Try(d) \/ End(d)
          \/ \E a \in {"accepted", "refused"} : Answer(d, a)
    \/ \E S \in SUBSET DeliveryId : GiveUp(S) \/ Remove(S)

Spec == Init /\ [][Next]_<<shown, sending, tries, answer>>
=============================================================================
