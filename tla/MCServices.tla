----------------------------- MODULE MCServices -----------------------------
(* One small instance of each service. *)
EXTENDS Services

(* Names of one part, so that projects and workspaces ask for the same. *)
OneBase == {<<"m">>}

(* Each row has a route of its own, so that the routes shown are cut. *)
OwnRoute(r) == r
=============================================================================
