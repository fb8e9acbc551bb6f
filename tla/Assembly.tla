----------------------------- MODULE Assembly -----------------------------
(***************************************************************************)
(* What complete() promises of one upload: the session is taken by one     *)
(* caller at a time, who alone may make the attachment, once.  The session *)
(* can be taken again only when that caller hands it back, and he does not *)
(* once the attachment is made; a caller that dies hands nothing back.     *)
(***************************************************************************)
EXTENDS Naturals

CONSTANT Caller

VARIABLES
    worker,     \* the caller that has the session, if any
    claimable,  \* a caller may take it
    made        \* attachments made

TypeOK ==
    /\ worker \in SUBSET Caller
    /\ claimable \in BOOLEAN
    /\ made \in 0..1

Init == worker = {} /\ claimable = TRUE /\ made = 0

Take(w) ==
    /\ claimable /\ worker = {} /\ made = 0
    /\ worker' = {w} /\ claimable' = FALSE
    /\ UNCHANGED made

Make ==
    /\ worker # {} /\ made = 0
    /\ made' = 1
    /\ UNCHANGED <<worker, claimable>>

HandBack ==
    /\ worker # {} /\ made = 0
    /\ worker' = {} /\ claimable' = TRUE
    /\ UNCHANGED made

(* The assembly ended, well or badly, or its caller died. *)
Drop ==
    /\ worker # {}
    /\ worker' = {}
    /\ UNCHANGED <<claimable, made>>

(* abort, expiry or the sweep *)
Withdraw ==
    /\ claimable' = FALSE
    /\ UNCHANGED <<worker, made>>

Next == (\E w \in Caller : Take(w)) \/ Make \/ HandBack \/ Drop \/ Withdraw

Spec == Init /\ [][Next]_<<worker, claimable, made>>

=============================================================================
