---------------------------- MODULE MCMembership ----------------------------
(* Small instances of Membership: every link takes one use.                *)
EXTENDS Membership, TLC

OneUse == [l \in Link |-> 1]
Symmetry == Permutations(Request \ Manager) \cup Permutations(User \ {Creator})

=============================================================================
