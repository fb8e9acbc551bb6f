--------------------------- MODULE UploadWatched ---------------------------
(***************************************************************************)
(* UploadSession beside a witness of its overlaps: overtaken remembers     *)
(* that one request has taken from another what this one had read.         *)
(***************************************************************************)
EXTENDS UploadSession

VARIABLE overtaken

watchedVars == <<vars, overtaken>>

WatchedNext == Next /\ overtaken' = (overtaken \/ Overtaken)
WatchedInit == Init /\ overtaken = FALSE
WatchedSpec == WatchedInit /\ [][WatchedNext]_watchedVars

(* Progress is honest, over overlaps, retries, crashes and refused calls,  *)
(* until one call overtakes another: then a chunk may count twice, or count *)
(* and not be there.                                                       *)
HonestUnlessOvertaken == ~overtaken => ProgressHonest

=============================================================================
