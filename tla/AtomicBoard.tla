---------------------------- MODULE AtomicBoard ----------------------------
(***************************************************************************)
(* The board as its callers think of it: each operation looks at the rows  *)
(* and writes them at once.  There are no requests, nothing is read before *)
(* it is used, no write is refused, and no foreign key has to clear a      *)
(* reference behind a row that went.                                       *)
(***************************************************************************)
CONSTANTS Sprint, Column, Issue, Category,
          SprintProject, ColumnProject, IssueProject, DefaultCategory, NULL, KEEP

VARIABLES sprint, column, issue

board == <<sprint, column, issue>>

SprintRow(s) == sprint[s] \in {"PLANNING", "ACTIVE", "COMPLETED"}
Live(i) == issue[i].row = "LIVE"
OnBoard(c, p) == column[c] \in Category /\ ColumnProject[c] = p

(* A reference the caller gives, leaves as it was (KEEP) or clears. *)
SprintGiven(s, p) == s \notin {NULL, KEEP} => SprintRow(s) /\ SprintProject[s] = p
IssueGiven(i, p) == i \notin {NULL, KEEP} => Live(i) /\ IssueProject[i] = p
Set(ref, old) == IF ref = KEEP THEN old ELSE ref
Forget(S, ref) == IF ref \in S THEN NULL ELSE ref

Nothing(state) == [row |-> state, column |-> NULL, sprint |-> NULL,
                   parent |-> NULL, epic |-> NULL, completed |-> FALSE]

Init ==
    /\ sprint = [s \in Sprint |-> "UNUSED"]
    /\ column = DefaultCategory
    /\ issue = [i \in Issue |-> Nothing("UNUSED")]

LeaveSprint(S) ==
    issue' = [i \in Issue |-> IF i \in S THEN [issue[i] EXCEPT !.sprint = NULL]
                              ELSE issue[i]]

Plan(s) ==
    /\ sprint[s] = "UNUSED"
    /\ sprint' = [sprint EXCEPT ![s] = "PLANNING"]
    /\ UNCHANGED <<column, issue>>

Start(s) ==
    /\ sprint[s] = "PLANNING"
    /\ \A t \in Sprint : SprintProject[t] = SprintProject[s] => sprint[t] # "ACTIVE"
    /\ sprint' = [sprint EXCEPT ![s] = "ACTIVE"]
    /\ UNCHANGED <<column, issue>>

(* What stands in a column other than DONE leaves the sprint. *)
Complete(s) ==
    /\ sprint[s] = "ACTIVE"
    /\ sprint' = [sprint EXCEPT ![s] = "COMPLETED"]
    /\ LeaveSprint({i \in Issue : /\ Live(i) /\ issue[i].sprint = s
                                  /\ issue[i].column # NULL
                                  /\ column[issue[i].column] # "DONE"})
    /\ UNCHANGED column

(* delete() has no transaction: the issues leave first, then the row. *)
EmptySprint(s) ==
    /\ SprintRow(s)
    /\ LeaveSprint({i \in Issue : issue[i].sprint = s})
    /\ UNCHANGED <<sprint, column>>

DropSprint(s) ==
    /\ SprintRow(s)
    /\ \A i \in Issue : issue[i].sprint # s
    /\ sprint' = [sprint EXCEPT ![s] = "GONE"]
    /\ UNCHANGED <<column, issue>>

PutColumn(c, cat) ==
    /\ column[c] # "GONE"
    /\ column' = [column EXCEPT ![c] = cat]
    /\ UNCHANGED <<sprint, issue>>

DropColumn(c) ==
    /\ column[c] \in Category
    /\ \A i \in Issue : issue[i].column # c
    /\ column' = [column EXCEPT ![c] = "GONE"]
    /\ UNCHANGED <<sprint, issue>>

AddIssue(i, s, e, p, c) ==
    /\ issue[i].row = "UNUSED"
    /\ SprintGiven(s, IssueProject[i])
    /\ IssueGiven(e, IssueProject[i])
    /\ IssueGiven(p, IssueProject[i])
    /\ IF c = NULL THEN \A d \in Column : ~OnBoard(d, IssueProject[i])
                   ELSE OnBoard(c, IssueProject[i])
    /\ issue' = [issue EXCEPT ![i] = [row |-> "LIVE", column |-> c, sprint |-> s,
                                      parent |-> p, epic |-> e, completed |-> FALSE]]
    /\ UNCHANGED <<sprint, column>>

(* update() of one issue, bulkUpdate() of several *)
Assign(S, s, e) ==
    /\ \A i \in S : /\ Live(i)
                    /\ SprintGiven(s, IssueProject[i]) /\ IssueGiven(e, IssueProject[i])
    /\ issue' = [i \in Issue |->
                   IF i \in S THEN [issue[i] EXCEPT !.sprint = Set(s, @), !.epic = Set(e, @)]
                   ELSE issue[i]]
    /\ UNCHANGED <<sprint, column>>

(* completedAt says what the column is. *)
Move(i, c) ==
    /\ Live(i)
    /\ OnBoard(c, IssueProject[i])
    /\ issue' = [issue EXCEPT ![i].column = c, ![i].completed = (column[c] = "DONE")]
    /\ UNCHANGED <<sprint, column>>

DropIssues(S) ==
    /\ \A i \in S : Live(i)
    /\ issue' = [i \in Issue |->
                   IF i \in S THEN Nothing("GONE")
                   ELSE [issue[i] EXCEPT !.parent = Forget(S, @), !.epic = Forget(S, @)]]
    /\ UNCHANGED <<sprint, column>>

Next ==
    \/ \E s \in Sprint : \/ Plan(s) \/ Start(s) \/ Complete(s)
                         \/ EmptySprint(s) \/ DropSprint(s)
    \/ \E c \in Column : DropColumn(c) \/ \E cat \in Category : PutColumn(c, cat)
    \/ \E i \in Issue, s \in Sprint \cup {NULL}, e, p \in Issue \cup {NULL},
          c \in Column \cup {NULL} : AddIssue(i, s, e, p, c)
    \/ \E i \in Issue, c \in Column : Move(i, c)
    \/ \E S \in SUBSET Issue : \/ DropIssues(S)
                               \/ \E s \in Sprint \cup {NULL, KEEP}, e \in Issue \cup {NULL, KEEP} :
                                     Assign(S, s, e)

Spec == Init /\ [][Next]_board

=============================================================================
