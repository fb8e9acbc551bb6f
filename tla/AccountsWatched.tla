-------------------------- MODULE AccountsWatched --------------------------
(***************************************************************************)
(* Accounts beside a witness of its overlaps: overtaken remembers that an  *)
(* account was verified, kept or left with one provider less between the   *)
(* read and the write of a request that is to delete it or a provider.     *)
(***************************************************************************)
EXTENDS Accounts

VARIABLE overtaken

watchedVars == <<vars, overtaken>>

WatchedNext == Next /\ overtaken' = (overtaken \/ Overtaken)
WatchedInit == Init /\ overtaken = FALSE
WatchedSpec == WatchedInit /\ [][WatchedNext]_watchedVars

(* Until one overtakes another, requests take from nobody an account he    *)
(* keeps (register() deletes unverified ones, the nightly job those whose  *)
(* owner asked for it), nor his last way to sign in ("Refuse the unlink if *)
(* the user would otherwise be locked out").                               *)
NobodyLockedOut ==
    [][~overtaken' => \A u \in User : ~LosesKept(u) /\ ~LosesLogin(u)]_watchedVars

=============================================================================
