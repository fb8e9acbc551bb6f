----------------------------- MODULE MCAccounts -----------------------------
(* Small instances of Accounts: ids of one kind are interchangeable.       *)
EXTENDS AccountsWatched, TLC

Symmetry == Permutations(User) \cup Permutations(Provider) \cup Permutations(Token)
            \cup Permutations(Request)

=============================================================================
