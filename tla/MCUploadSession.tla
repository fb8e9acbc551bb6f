-------------------------- MODULE MCUploadSession --------------------------
(* Small instances of UploadSession: requests are interchangeable.         *)
EXTENDS UploadWatched, TLC

Symmetry == Permutations(Request)

=============================================================================
