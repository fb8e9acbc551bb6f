------------------------------- MODULE Quotas -------------------------------
(***************************************************************************)
(* One limit that a workspace is held to: on its projects, its members, or *)
(* the storage of its attachments.  All three are checked in the same way: *)
(* the quota is read, what is there is counted, and the insert comes in a  *)
(* later call that looks at neither again; for an upload in chunks it may  *)
(* come a day later.  Members that join by a link are not checked.         *)
(***************************************************************************)
EXTENDS Naturals

CONSTANTS
    Sizes,    \* sizes of one request: 1, and for storage a number of bytes
    Claim,    \* requests between reading the quota and their insert
    MaxUse    \* bound on the limit, on what is in use and on what came late

ASSUME QuotasAssumption == Sizes \subseteq Nat \ {0} /\ Sizes # {} /\ MaxUse \in Nat

VARIABLES
    limit,   \* the app.quotas setting; 0 is unlimited
    inUse,   \* the rows that are there, or the sum of their sizes
    claim    \* claim[c]: where request c is

quotasVars == <<limit, inUse, claim>>

-----------------------------------------------------------------------------
(* cap: the limit the request read.  late: what others inserted since it   *)
(* counted.                                                                *)
ClaimRecord ==
    [pc: {"idle", "read", "admitted"}, size: Sizes, cap: 0..MaxUse, late: 0..MaxUse]

NoClaim == [pc |-> "idle", size |-> CHOOSE n \in Sizes : TRUE, cap |-> 0, late |-> 0]

QuotasTypeOK ==
    /\ limit \in 0..MaxUse
    /\ inUse \in 0..MaxUse
    /\ claim \in [Claim -> ClaimRecord]

QuotasInit ==
    /\ limit = 0
    /\ inUse = 0
    /\ claim = [c \in Claim |-> NoClaim]

FitsWithoutRequest(cap, n) == cap = 0 \/ inUse <= cap
Fits(cap, n) == cap = 0 \/ inUse + n <= cap

(* Rows of size n are inserted: those in C that have counted did not see them. *)
Inserted(n, C) ==
    /\ inUse + n <= MaxUse
    /\ \A c \in C : claim[c].pc = "admitted" => claim[c].late + n <= MaxUse
    /\ inUse' = inUse + n
    /\ claim' = [c \in Claim |->
                    CASE c \notin C -> NoClaim
                      [] c \in C /\ claim[c].pc = "admitted" -> [claim[c] EXCEPT !.late = @ + n]
                      [] OTHER -> claim[c]]
    /\ UNCHANGED limit

-----------------------------------------------------------------------------
SetQuota(n) ==
    /\ limit' = n
    /\ UNCHANGED <<inUse, claim>>

ReadQuota(c, n) ==
    /\ claim[c].pc = "idle"
    /\ claim' = [claim EXCEPT ![c] = [pc |-> "read", size |-> n, cap |-> limit, late |-> 0]]
    /\ UNCHANGED <<limit, inUse>>

CheckQuota(c) ==
    /\ claim[c].pc = "read"
    /\ Fits(claim[c].cap, claim[c].size)
    /\ claim' = [claim EXCEPT ![c].pc = "admitted"]
    /\ UNCHANGED <<limit, inUse>>

InsertClaimed(c) ==
    /\ claim[c].pc = "admitted"
    /\ Inserted(claim[c].size, Claim \ {c})

(* The request is refused or fails, or the upload is aborted or swept. *)
DropClaim(c) ==
    /\ claim[c].pc # "idle"
    /\ claim' = [claim EXCEPT ![c] = NoClaim]
    /\ UNCHANGED <<limit, inUse>>

JoinUnchecked == Inserted(1, Claim)

(* Rows are deleted, of whatever size. *)
Shrink(n) ==
    /\ n <= inUse
    /\ inUse' = inUse - n
    /\ UNCHANGED <<limit, claim>>

-----------------------------------------------------------------------------
QuotasNext ==
    \/ \E n \in 0..MaxUse : SetQuota(n)
    \/ \E c \in Claim, n \in Sizes : ReadQuota(c, n)
    \/ \E c \in Claim : CheckQuota(c) \/ InsertClaimed(c) \/ DropClaim(c)
    \/ JoinUnchecked
    \/ \E n \in Sizes : Shrink(n)

QuotasSpec == QuotasInit /\ [][QuotasNext]_quotasVars

-----------------------------------------------------------------------------
(* A request that was let through ends above the limit it read by no more  *)
(* than what others inserted between its count and its insert: the quota   *)
(* is overshot by requests that overlap, by joins through a link, and by   *)
(* nothing else.                                                           *)
QuotaOvershoot ==
    [][\A c \in Claim :
          /\ claim[c].pc = "admitted" /\ claim[c].cap # 0
          /\ claim'[c].pc = "idle" /\ inUse' > inUse
          => inUse' <= claim[c].cap + claim[c].late]_quotasVars
=============================================================================
