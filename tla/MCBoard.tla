------------------------------ MODULE MCBoard ------------------------------
(* Small instances of Board.  p1 and p2 are projects; the functions below  *)
(* give each row id the project it is born in.                             *)
EXTENDS Board, TLC

CONSTANTS p1, p2, c1, i2

Projects == {p1, p2}

(* i2 beside the sprint and the column of p1, every other issue in p2 *)
IssueSplit == (i2 :> p1) @@ [i \in Issue |-> p2]
NoColumn == [c \in Column |-> "UNUSED"]
Symmetry == Permutations(Request)
ScopeSymmetry == Permutations(Request) \cup Permutations(Issue \ {i2})

(* everything in one project *)
SprintOne == [s \in Sprint |-> p1]
ColumnOne == [c \in Column |-> p1]
IssueOne == [i \in Issue |-> p1]
TodoFirst == (c1 :> "TODO") @@ [c \in Column |-> "UNUSED"]

=============================================================================
