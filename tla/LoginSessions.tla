--------------------------- MODULE LoginSessions ---------------------------
(***************************************************************************)
(* What the refresh tokens promise the user: a login opens a session, the  *)
(* session stays open, over any number of rotations, until something ends  *)
(* it, and then it stays ended.                                            *)
(***************************************************************************)
CONSTANT LoginId

VARIABLES open, ended

TypeOK == open \subseteq LoginId /\ ended \subseteq LoginId

Init == open = {} /\ ended = {}

Open(l) ==
    /\ l \notin open \cup ended
    /\ open' = open \cup {l}
    /\ UNCHANGED ended

(* logout, a revocation, expiry, or the account is deleted *)
Close(S) ==
    /\ S # {} /\ S \subseteq open
    /\ open' = open \ S
    /\ ended' = ended \cup S

Next == (\E l \in LoginId : Open(l)) \/ (\E S \in SUBSET open : Close(S))

Spec == Init /\ [][Next]_<<open, ended>>

=============================================================================
