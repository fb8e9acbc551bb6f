---------------------------- MODULE Board_proofs ----------------------------
(***************************************************************************)
(* Theorems about Board for any set of projects, sprints, columns, issues  *)
(* and concurrent requests.                                                *)
(***************************************************************************)
EXTENDS Board, FiniteSetTheorems, TLAPS

USE ConstantsAssumption

(* The empty rows and records are well typed and differ from live ones. *)
LEMMA EmptyTyped ==
    /\ Idle \in RequestRecord
    /\ \A state \in {"UNUSED", "LIVE", "GONE"} : EmptyIssue(state) \in IssueRecord
BY DEF Idle, RequestRecord, PC, EmptyIssue, IssueRecord

(* Updating two fields of an issue record keeps it a record. *)
LEMMA UpdateParentEpic ==
    ASSUME NEW rec \in IssueRecord, NEW p \in Issue \cup {NULL}, NEW e \in Issue \cup {NULL}
    PROVE  [rec EXCEPT !.parent = p, !.epic = e] \in IssueRecord
BY Zenon DEF IssueRecord

LEMMA ParentEpicFields ==
    ASSUME NEW rec \in IssueRecord, NEW p, NEW e
    PROVE  LET new == [rec EXCEPT !.parent = p, !.epic = e]
           IN  /\ new.row = rec.row /\ new.column = rec.column /\ new.sprint = rec.sprint
               /\ new.parent = p /\ new.epic = e
BY DEF IssueRecord

LEMMA UpdateSprintEpic ==
    ASSUME NEW rec \in IssueRecord, NEW s \in Sprint \cup {NULL}, NEW e \in Issue \cup {NULL}
    PROVE  [rec EXCEPT !.sprint = s, !.epic = e] \in IssueRecord
BY Zenon DEF IssueRecord

LEMMA UpdateColumnStamp ==
    ASSUME NEW rec \in IssueRecord, NEW c \in Column \cup {NULL}, NEW done \in BOOLEAN
    PROVE  [rec EXCEPT !.column = c, !.completed = done] \in IssueRecord
BY Zenon DEF IssueRecord

(* Clearing a sprint, dropping rows and updating references keep the table *)
(* well typed.                                                             *)
LEMMA ClearSprintTyped ==
    ASSUME TypeOK, NEW s, ClearSprint(s)
    PROVE  issue' \in [Issue -> IssueRecord]
BY DEF TypeOK, ClearSprint, IssueRecord

LEMMA UpdateSprintTyped ==
    ASSUME NEW rec \in IssueRecord, NEW s \in Sprint \cup {NULL}
    PROVE  [rec EXCEPT !.sprint = s] \in IssueRecord
BY DEF IssueRecord

LEMMA UpdateColumnTyped ==
    ASSUME NEW rec \in IssueRecord, NEW c \in Column \cup {NULL}
    PROVE  [rec EXCEPT !.column = c] \in IssueRecord
BY DEF IssueRecord

LEMMA DropIssuesTyped ==
    ASSUME TypeOK, NEW S, DropIssues(S)
    PROVE  issue' \in [Issue -> IssueRecord]
<1>1. ASSUME NEW i \in Issue
      PROVE  [issue[i] EXCEPT !.parent = Unless(S, @), !.epic = Unless(S, @)] \in IssueRecord
  <2>1. Unless(S, issue[i].parent) \in Issue \cup {NULL} /\ Unless(S, issue[i].epic) \in Issue \cup {NULL}
    BY DEF TypeOK, IssueRecord, Unless
  <2> QED
    BY <2>1, UpdateParentEpic DEF TypeOK
<1> QED
  BY <1>1, EmptyTyped DEF DropIssues

LEMMA UpdatedTyped ==
    ASSUME TypeOK, NEW r \in Request, NEW i \in Issue
    PROVE  Updated(r, i) \in IssueRecord
<1>1. Given(req[r].sprint, issue[i].sprint) \in Sprint \cup {NULL}
  BY DEF TypeOK, Given, RequestRecord, IssueRecord
<1>2. Given(req[r].epic, issue[i].epic) \in Issue \cup {NULL}
  BY DEF TypeOK, Given, RequestRecord, IssueRecord
<1> QED
  BY <1>1, <1>2, UpdateSprintEpic DEF TypeOK, Updated

LEMMA NewIssueTyped ==
    ASSUME TypeOK, NEW r \in Request, At(r, "insert")
    PROVE  NewIssue(r) \in IssueRecord
BY DEF TypeOK, NewIssue, RequestRecord, IssueRecord

LEMMA MovedTyped ==
    ASSUME TypeOK, NEW r \in Request, NEW i \in Issue
    PROVE  Moved(r, i) \in IssueRecord
<1>1. req[r].column \in Column \cup {NULL}
  BY DEF TypeOK, RequestRecord
<1>2. req[r].done \in BOOLEAN
  BY Zenon DEF TypeOK, RequestRecord
<1> QED
  BY <1>1, <1>2, UpdateColumnStamp DEF TypeOK, Moved

(* A request that has answered is a well-typed idle record. *)
LEMMA LeaveTyped ==
    ASSUME TypeOK, NEW r \in Request, Leave(r)
    PROVE  /\ req' \in [Request -> RequestRecord]
           /\ \A q \in Request :
                 At(q, "insert")' => req'[q].sprint # KEEP /\ req'[q].epic # KEEP
BY EmptyTyped DEF TypeOK, Leave, Idle, At

(* A request that enters a handler with a well-typed record. *)
LEMMA EnterTyped ==
    ASSUME TypeOK, NEW r \in Request, NEW rec \in RequestRecord, Enter(r, rec),
           rec.pc = "insert" => rec.sprint # KEEP /\ rec.epic # KEEP
    PROVE  /\ req' \in [Request -> RequestRecord]
           /\ \A q \in Request :
                 At(q, "insert")' => req'[q].sprint # KEEP /\ req'[q].epic # KEEP
BY DEF TypeOK, Enter, At

LEMMA EnterKeepsType ==
    ASSUME TypeOK, NEW r \in Request, NEW rec \in RequestRecord, Enter(r, rec),
           rec.pc = "insert" => rec.sprint # KEEP /\ rec.epic # KEEP,
           UNCHANGED <<sprint, column>>, issue' \in [Issue -> IssueRecord]
    PROVE  TypeOK'
BY EnterTyped DEF TypeOK

(* Type correctness of a sprint step. *)
LEMMA SprintStepType ==
    ASSUME TypeOK, NEW r \in Request, SprintStep(r)
    PROVE  TypeOK'
<1> USE DEF TypeOK, Unlocked, SprintStatus, IssueRecord, RequestRecord, PC, Idle, Enter, Leave, At
<1>1. ASSUME NEW s \in Sprint, CreateSprint(r, s) PROVE TypeOK'
  BY <1>1 DEF CreateSprint
<1>2. ASSUME NEW s \in Sprint, StartProbe(r, s) PROVE TypeOK'
  BY <1>2 DEF StartProbe
<1>3. ASSUME NEW s \in Sprint, CompleteRead(r, s) PROVE TypeOK'
  BY <1>3 DEF CompleteRead
<1>4. ASSUME NEW s \in Sprint, DeleteSprintRead(r, s) PROVE TypeOK'
  BY <1>4 DEF DeleteSprintRead
<1>5. CASE StartClaim(r)
  BY <1>5 DEF StartClaim
<1>6. CASE CompleteSweep(r)
  <2>1. Sweepable(req[r].sprint) \subseteq Issue
    BY DEF Sweepable
  <2> QED
    BY <1>6, <2>1 DEF CompleteSweep
<1>7. CASE CompleteFinish(r)
  <2>1. sprint' \in [Sprint -> SprintStatus \cup {"UNUSED", "GONE"}]
    BY <1>7 DEF CompleteFinish
  <2>2. issue' \in [Issue -> IssueRecord]
    <3> HIDE DEF IssueRecord, RequestRecord
    <3>1. \A i \in Issue : [issue[i] EXCEPT !.sprint = NULL] \in IssueRecord
      BY UpdateSprintTyped
    <3> QED
      BY <1>7, <3>1 DEF CompleteFinish
  <2> QED
    BY <1>7, <2>1, <2>2, LeaveTyped DEF CompleteFinish
<1>8. CASE DeleteSprintUnassign(r)
  <2>1. issue' \in [Issue -> IssueRecord]
    BY <1>8, ClearSprintTyped DEF DeleteSprintUnassign
  <2> DEFINE rec == [Idle EXCEPT !.pc = "dropSprint", !.sprint = req[r].sprint]
  <2>2. rec \in RequestRecord /\ rec.pc = "dropSprint"
    OBVIOUS
  <2>3. Enter(r, rec) /\ UNCHANGED <<sprint, column>>
    BY <1>8 DEF DeleteSprintUnassign
  <2> HIDE DEF rec, TypeOK, IssueRecord, RequestRecord, Enter, At, Idle
  <2> QED
    BY <2>1, <2>2, <2>3, EnterKeepsType
<1>9. CASE DeleteSprintDrop(r)
  <2>1. req' \in [Request -> RequestRecord] /\ column' = column
        /\ \A q \in Request : At(q, "insert")' => req'[q].sprint # KEEP /\ req'[q].epic # KEEP
    BY <1>9, LeaveTyped DEF DeleteSprintDrop
  <2>2. sprint' \in [Sprint -> SprintStatus \cup {"UNUSED", "GONE"}]
    BY <1>9 DEF DeleteSprintDrop
  <2>3. issue' \in [Issue -> IssueRecord]
    <3>1. issue' = issue \/ ClearSprint(req[r].sprint)
      BY <1>9 DEF DeleteSprintDrop
    <3> HIDE DEF IssueRecord, RequestRecord
    <3> QED
      BY <3>1, ClearSprintTyped
  <2> HIDE DEF IssueRecord, RequestRecord
  <2> QED
    BY <2>1, <2>2, <2>3
<1> QED
  BY <1>1, <1>2, <1>3, <1>4, <1>5, <1>6, <1>7, <1>8, <1>9 DEF SprintStep

(* Type correctness of a column step. *)
LEMMA ColumnStepType ==
    ASSUME TypeOK, NEW r \in Request, ColumnStep(r)
    PROVE  TypeOK'
<1> USE DEF TypeOK, Unlocked, IssueRecord, RequestRecord, PC, Idle, Enter, Leave, At
<1>1. ASSUME NEW c \in Column, DeleteColumnCount(r, c) PROVE TypeOK'
  BY <1>1 DEF DeleteColumnCount
<1>2. ASSUME NEW c \in Column, NEW cat \in Category, AddColumn(r, c, cat) PROVE TypeOK'
  <2> HIDE DEF IssueRecord, RequestRecord
  <2>1. column' \in [Column -> Category \cup {"UNUSED", "GONE"}]
    BY <1>2 DEF AddColumn
  <2> QED
    BY <1>2, <2>1 DEF AddColumn
<1>3. ASSUME NEW c \in Column, NEW cat \in Category, UpdateColumn(r, c, cat) PROVE TypeOK'
  <2> HIDE DEF IssueRecord, RequestRecord
  <2>1. column' \in [Column -> Category \cup {"UNUSED", "GONE"}]
    BY <1>3 DEF UpdateColumn
  <2> QED
    BY <1>3, <2>1 DEF UpdateColumn
<1>4. CASE DeleteColumnDrop(r)
  <2>1. column' \in [Column -> Category \cup {"UNUSED", "GONE"}]
    BY <1>4 DEF DeleteColumnDrop
  <2>2. issue' \in [Issue -> IssueRecord]
    <3> HIDE DEF IssueRecord, RequestRecord
    <3>1. \A i \in Issue : [issue[i] EXCEPT !.column = NULL] \in IssueRecord
      BY UpdateColumnTyped
    <3> QED
      BY <1>4, <3>1 DEF DeleteColumnDrop
  <2> QED
    BY <1>4, <2>1, <2>2, LeaveTyped DEF DeleteColumnDrop
<1> QED
  BY <1>1, <1>2, <1>3, <1>4 DEF ColumnStep

(* Type correctness of a step of the issue service. *)
LEMMA IssueStepType ==
    ASSUME TypeOK, NEW r \in Request, IssueStep(r)
    PROVE  TypeOK'
<1> USE DEF TypeOK, Unlocked, IssueRecord, RequestRecord, PC, Idle, Enter, Leave, At
<1>1. ASSUME NEW i \in Issue, DeleteIssue(r, i) PROVE TypeOK'
  <2>1. issue' \in [Issue -> IssueRecord]
    BY <1>1, DropIssuesTyped DEF DeleteIssue
  <2> QED
    BY <1>1, <2>1 DEF DeleteIssue
<1>2. ASSUME NEW i \in Issue, NEW c \in Column, MoveRead(r, i, c) PROVE TypeOK'
  <2> DEFINE rec == [Idle EXCEPT !.pc = "moveWrite", !.rows = {i}, !.column = c, !.done = Closes(c)]
  <2>1. Closes(c) \in BOOLEAN
    BY DEF Closes
  <2>2. rec \in RequestRecord /\ rec.pc = "moveWrite"
    BY <2>1
  <2>3. Enter(r, rec) /\ UNCHANGED <<sprint, column>> /\ issue' \in [Issue -> IssueRecord]
    BY <1>2 DEF MoveRead
  <2> HIDE DEF rec, TypeOK, IssueRecord, RequestRecord, Enter, At, Idle
  <2> QED
    BY <2>2, <2>3, EnterKeepsType
<1>3. ASSUME NEW i \in Issue, NEW s \in Sprint \cup {NULL, KEEP},
             NEW e \in Issue \cup {NULL, KEEP}, UpdateIssueRead(r, i, s, e)
      PROVE  TypeOK'
  <2> DEFINE rec == [Idle EXCEPT !.pc = "updateWrite", !.rows = {i}, !.sprint = s, !.epic = e]
  <2>1. rec \in RequestRecord /\ rec.pc = "updateWrite"
    OBVIOUS
  <2>2. Enter(r, rec) /\ UNCHANGED <<sprint, column>> /\ issue' \in [Issue -> IssueRecord]
    BY <1>3 DEF UpdateIssueRead
  <2> HIDE DEF rec, TypeOK, IssueRecord, RequestRecord, Enter, At, Idle
  <2> QED
    BY <2>1, <2>2, EnterKeepsType
<1>4. ASSUME NEW i \in Issue, NEW s \in Sprint \cup {NULL}, NEW e \in Issue \cup {NULL},
             NEW p \in Issue \cup {NULL}, NEW c \in Column \cup {NULL},
             CreateIssueRead(r, i, s, e, p, c)
      PROVE  TypeOK'
  <2> DEFINE rec == [Idle EXCEPT !.pc = "insert", !.rows = {i}, !.sprint = s,
                                 !.epic = e, !.parent = p, !.column = c]
  <2>1. rec \in RequestRecord
    OBVIOUS
  <2>2. rec.sprint # KEEP /\ rec.epic # KEEP
    BY ConstantsAssumption
  <2> QED
    BY <1>4, <2>1, <2>2, EnterTyped DEF CreateIssueRead
<1>5. CASE CreateIssueInsert(r)
  <2>1. NewIssue(r) \in IssueRecord
    BY <1>5, NewIssueTyped DEF CreateIssueInsert
  <2>2. issue' \in [Issue -> IssueRecord]
    BY <1>5, <2>1 DEF CreateIssueInsert
  <2> QED
    BY <1>5, <2>2, LeaveTyped DEF CreateIssueInsert
<1>6. CASE UpdateIssueWrite(r)
  <2>1. PICK i \in req[r].rows : issue' = [issue EXCEPT ![i] = Updated(r, i)] \/ UNCHANGED issue
    BY <1>6 DEF UpdateIssueWrite
  <2>2. issue' \in [Issue -> IssueRecord]
    BY <2>1, UpdatedTyped
  <2> QED
    BY <1>6, <2>2, LeaveTyped DEF UpdateIssueWrite
<1>7. CASE MoveWrite(r)
  <2>1. PICK i \in req[r].rows : issue' = [issue EXCEPT ![i] = Moved(r, i)] \/ UNCHANGED issue
    BY <1>7 DEF MoveWrite
  <2>2. issue' \in [Issue -> IssueRecord]
    BY <2>1, MovedTyped
  <2> QED
    BY <1>7, <2>2, LeaveTyped DEF MoveWrite
<1> QED
  BY <1>1, <1>2, <1>3, <1>4, <1>5, <1>6, <1>7 DEF IssueStep, UpdateIssueRequest, CreateIssueRequest

(* Type correctness of a bulk step. *)
LEMMA BulkStepType ==
    ASSUME TypeOK, NEW r \in Request, BulkStep(r)
    PROVE  TypeOK'
<1> USE DEF TypeOK, Unlocked, IssueRecord, RequestRecord, PC, Idle, Enter, Leave, At
<1>1. ASSUME NEW S \in SUBSET Issue, BulkDeleteRead(r, S) PROVE TypeOK'
  BY <1>1 DEF BulkDeleteRead
<1>2. ASSUME NEW S \in SUBSET Issue, NEW s \in Sprint \cup {NULL, KEEP}, BulkUpdateRead(r, S, s)
      PROVE  TypeOK'
  BY <1>2 DEF BulkUpdateRead
<1>3. CASE BulkUpdateWrite(r)
  <2>1. \A i \in Issue : Given(req[r].sprint, issue[i].sprint) \in Sprint \cup {NULL}
    BY DEF Given
  <2>2. issue' \in [Issue -> IssueRecord]
    <3> HIDE DEF IssueRecord, RequestRecord
    <3>1. \A i \in Issue :
             [issue[i] EXCEPT !.sprint = Given(req[r].sprint, @)] \in IssueRecord
      BY <2>1, UpdateSprintTyped
    <3> QED
      BY <1>3, <3>1 DEF BulkUpdateWrite
  <2> QED
    BY <1>3, <2>2, LeaveTyped DEF BulkUpdateWrite
<1>4. CASE BulkDeleteWrite(r)
  <2>1. issue' \in [Issue -> IssueRecord]
    BY <1>4, DropIssuesTyped DEF BulkDeleteWrite
  <2> QED
    BY <1>4, <2>1, LeaveTyped DEF BulkDeleteWrite
<1> QED
  BY <1>1, <1>2, <1>3, <1>4 DEF BulkStep

LEMMA TypeInductive == TypeOK /\ [Next]_vars => TypeOK'
<1> SUFFICES ASSUME TypeOK, [Next]_vars PROVE TypeOK'
  OBVIOUS
<1>1. CASE UNCHANGED vars
  BY <1>1 DEF vars, TypeOK, At
<1>2. CASE Next
  BY <1>2, SprintStepType, ColumnStepType, IssueStepType, BulkStepType DEF Next
<1> QED
  BY <1>1, <1>2

(* Every table row and every request record keeps its type. *)
THEOREM TypeCorrect == Spec => []TypeOK
<1>1. Init => TypeOK
  BY EmptyTyped DEF Init, TypeOK, IssueRecord, RequestRecord, Idle, At
<1> QED
  BY <1>1, TypeInductive, PTL DEF Spec

-----------------------------------------------------------------------------
(* ReferencesInScope, action by action.  Rows that only appear keep every  *)
(* reference valid; rows that disappear take the references with them.     *)

LEMMA ScopeFrame ==
    ASSUME TypeOK, ReferencesInScope, UNCHANGED issue,
           \A s \in Sprint : SprintRow(s) => SprintRow(s)',
           \A c \in Column : ColumnRow(c) => ColumnRow(c)'
    PROVE  ReferencesInScope'
BY DEF TypeOK, IssueRecord, ReferencesInScope, SprintInProject, ColumnInProject,
       IssueInProject, IssueRow

(* Clearing references to one sprint, whether or not its row goes. *)
LEMMA ScopeClearSprint ==
    ASSUME TypeOK, ReferencesInScope, NEW s \in Sprint \cup {NULL, KEEP}, ClearSprint(s),
           \A t \in Sprint : t # s /\ SprintRow(t) => SprintRow(t)',
           UNCHANGED column
    PROVE  ReferencesInScope'
<1> SUFFICES ASSUME NEW i \in Issue, IssueRow(i)'
             PROVE  /\ issue'[i].sprint # NULL =>
                          SprintInProject(issue[i].sprint, IssueProject[i])' 
                    /\ issue'[i].column # NULL => ColumnInProject(issue[i].column, IssueProject[i])'
                    /\ IssueInProject(issue[i].parent, IssueProject[i])'
                    /\ IssueInProject(issue[i].epic, IssueProject[i])'
  BY DEF ReferencesInScope
<1>1. \A j \in Issue : /\ issue'[j].row = issue[j].row /\ issue'[j].column = issue[j].column
                       /\ issue'[j].parent = issue[j].parent /\ issue'[j].epic = issue[j].epic
                       /\ issue'[j].sprint = IF issue[j].sprint = s THEN NULL ELSE issue[j].sprint
  BY DEF ClearSprint, TypeOK, IssueRecord
<1>2. issue[i] \in IssueRecord /\ IssueRow(i)
  BY <1>1 DEF TypeOK, IssueRow
<1> QED
  BY <1>1, <1>2 DEF ReferencesInScope, SprintInProject, ColumnInProject, ColumnRow,
       IssueInProject, IssueRow, IssueRecord

(* Deleting issues: parent and epic references to them become NULL. *)
LEMMA ScopeDropIssues ==
    ASSUME TypeOK, ReferencesInScope, NEW S, DropIssues(S), UNCHANGED <<sprint, column>>
    PROVE  ReferencesInScope'
<1> SUFFICES ASSUME NEW i \in Issue, IssueRow(i)'
             PROVE  /\ issue'[i].sprint # NULL =>
                          SprintInProject(issue[i].sprint, IssueProject[i])'
                    /\ issue'[i].column # NULL => ColumnInProject(issue[i].column, IssueProject[i])'
                    /\ IssueInProject(issue[i].parent, IssueProject[i])'
                    /\ IssueInProject(issue[i].epic, IssueProject[i])'
  BY DEF ReferencesInScope
<1>1. i \notin S
  BY DEF DropIssues, IssueRow, EmptyIssue
<1>2. \A j \in Issue : j \notin S =>
         /\ issue'[j].row = issue[j].row
         /\ issue'[j].column = issue[j].column /\ issue'[j].sprint = issue[j].sprint
         /\ issue'[j].parent = Unless(S, issue[j].parent)
         /\ issue'[j].epic = Unless(S, issue[j].epic)
  <2> SUFFICES ASSUME NEW j \in Issue, j \notin S
               PROVE  /\ issue'[j].row = issue[j].row
                      /\ issue'[j].column = issue[j].column /\ issue'[j].sprint = issue[j].sprint
                      /\ issue'[j].parent = Unless(S, issue[j].parent)
                      /\ issue'[j].epic = Unless(S, issue[j].epic)
    OBVIOUS
  <2>1. issue'[j] = [issue[j] EXCEPT !.parent = Unless(S, issue[j].parent),
                                     !.epic = Unless(S, issue[j].epic)]
    BY DEF DropIssues
  <2>2. issue[j] \in IssueRecord
    BY DEF TypeOK
  <2> QED
    BY <2>1, <2>2, ParentEpicFields
<1>3. issue[i] \in IssueRecord /\ IssueRow(i)
  BY <1>1, <1>2 DEF TypeOK, IssueRow
<1> QED
  BY <1>1, <1>2, <1>3 DEF ReferencesInScope, SprintInProject, SprintRow, ColumnInProject,
       ColumnRow, IssueInProject, IssueRow, IssueRecord, Unless

(* Writing one record of references that hold and are in scope. *)
LEMMA ScopeWrite ==
    ASSUME TypeOK, ReferencesInScope, UNCHANGED <<sprint, column>>,
           NEW S \in SUBSET Issue, issue' \in [Issue -> IssueRecord],
           \A i \in Issue \ S : issue'[i] = issue[i],
           \A i \in S :
              /\ issue'[i].row = "LIVE"
              /\ issue'[i].sprint # NULL => SprintInProject(issue'[i].sprint, IssueProject[i])
              /\ issue'[i].column # NULL => ColumnInProject(issue'[i].column, IssueProject[i])
              /\ IssueInProject(issue'[i].parent, IssueProject[i])
              /\ IssueInProject(issue'[i].epic, IssueProject[i])
    PROVE  ReferencesInScope'
<1>1. \A i \in Issue : IssueRow(i) => IssueRow(i)'
  BY DEF IssueRow
<1> QED
  BY <1>1 DEF ReferencesInScope, SprintInProject, SprintRow, ColumnInProject,
       ColumnRow, IssueInProject, IssueRow, IssueRecord

LEMMA ScopeWriteOne ==
    ASSUME TypeOK, ReferencesInScope, UNCHANGED <<sprint, column>>,
           NEW i \in Issue, NEW rec \in IssueRecord, issue' = [issue EXCEPT ![i] = rec],
           rec.row = "LIVE",
           rec.sprint # NULL => SprintInProject(rec.sprint, IssueProject[i]),
           rec.column # NULL => ColumnInProject(rec.column, IssueProject[i]),
           IssueInProject(rec.parent, IssueProject[i]),
           IssueInProject(rec.epic, IssueProject[i])
    PROVE  ReferencesInScope'
<1>1. issue' \in [Issue -> IssueRecord] /\ issue'[i] = rec
  BY DEF TypeOK
<1>2. {i} \in SUBSET Issue /\ \A j \in Issue \ {i} : issue'[j] = issue[j]
  BY DEF TypeOK
<1>3. \A j \in {i} :
         /\ issue'[j].row = "LIVE"
         /\ issue'[j].sprint # NULL => SprintInProject(issue'[j].sprint, IssueProject[j])
         /\ issue'[j].column # NULL => ColumnInProject(issue'[j].column, IssueProject[j])
         /\ IssueInProject(issue'[j].parent, IssueProject[j])
         /\ IssueInProject(issue'[j].epic, IssueProject[j])
  BY <1>1
<1> QED
  BY <1>1, <1>2, <1>3, ScopeWrite

(* ReferencesInScope after a step of each service. *)
LEMMA SprintStepScope ==
    ASSUME BoardInv, NEW r \in Request, SprintStep(r)
    PROVE  ReferencesInScope'
<1> USE DEF BoardInv
<1>1. ASSUME NEW s \in Sprint,
             CreateSprint(r, s) \/ StartProbe(r, s) \/ CompleteRead(r, s) \/ DeleteSprintRead(r, s)
      PROVE  ReferencesInScope'
  <2>1. UNCHANGED <<column, issue>> /\ \A t \in Sprint : SprintRow(t) => SprintRow(t)'
    BY <1>1 DEF TypeOK, CreateSprint, StartProbe, CompleteRead, DeleteSprintRead,
                SprintRow, SprintStatus
  <2> QED
    BY <2>1, ScopeFrame DEF ColumnRow
<1>2. CASE StartClaim(r)
  <2>1. UNCHANGED <<column, issue>> /\ \A t \in Sprint : SprintRow(t) => SprintRow(t)'
    BY <1>2 DEF TypeOK, StartClaim, SprintRow, SprintStatus
  <2> QED
    BY <2>1, ScopeFrame DEF ColumnRow
<1>3. CASE CompleteSweep(r)
  BY <1>3, ScopeFrame DEF CompleteSweep, ColumnRow, SprintRow
<1>4. CASE CompleteFinish(r)
  <2>1. CASE UNCHANGED <<sprint, issue>>
    BY <1>4, <2>1, ScopeFrame DEF CompleteFinish, ColumnRow, SprintRow
  <2>2. CASE /\ sprint' = [sprint EXCEPT ![req[r].sprint] = "COMPLETED"]
             /\ issue' = [i \in Issue |-> IF i \in req[r].rows
                                          THEN [issue[i] EXCEPT !.sprint = NULL]
                                          ELSE issue[i]]
    <3>1. column' = column /\ \A t \in Sprint : SprintRow(t) => SprintRow(t)'
      BY <1>4, <2>2 DEF TypeOK, CompleteFinish, SprintRow, SprintStatus
    <3>2. \A j \in Issue : /\ issue'[j].row = issue[j].row /\ issue'[j].column = issue[j].column
                           /\ issue'[j].parent = issue[j].parent /\ issue'[j].epic = issue[j].epic
                           /\ issue'[j].sprint \in {NULL, issue[j].sprint}
      BY <2>2 DEF TypeOK, IssueRecord
    <3> QED
      BY <3>1, <3>2 DEF ReferencesInScope, SprintInProject, ColumnInProject, ColumnRow,
         IssueInProject, IssueRow, IssueRecord, TypeOK
  <2> QED
    BY <1>4, <2>1, <2>2 DEF CompleteFinish
<1>5. CASE DeleteSprintUnassign(r)
  <2>1. req[r].sprint \in Sprint \cup {NULL, KEEP}
    BY DEF TypeOK, RequestRecord
  <2> QED
    BY <1>5, <2>1, ScopeClearSprint DEF DeleteSprintUnassign, SprintRow
<1>6. CASE DeleteSprintDrop(r)
  <2>1. CASE UNCHANGED <<sprint, issue>>
    BY <1>6, <2>1, ScopeFrame DEF DeleteSprintDrop, ColumnRow, SprintRow
  <2>2. CASE /\ sprint' = [sprint EXCEPT ![req[r].sprint] = "GONE"]
             /\ ClearSprint(req[r].sprint)
    <3>1. req[r].sprint \in Sprint \cup {NULL, KEEP}
      BY DEF TypeOK, RequestRecord
    <3>2. \A t \in Sprint : t # req[r].sprint /\ SprintRow(t) => SprintRow(t)'
      BY <2>2 DEF TypeOK, SprintRow
    <3> QED
      BY <1>6, <2>2, <3>1, <3>2, ScopeClearSprint DEF DeleteSprintDrop
  <2> QED
    BY <1>6, <2>1, <2>2 DEF DeleteSprintDrop
<1> QED
  BY <1>1, <1>2, <1>3, <1>4, <1>5, <1>6 DEF SprintStep

LEMMA ColumnStepScope ==
    ASSUME BoardInv, NEW r \in Request, ColumnStep(r)
    PROVE  ReferencesInScope'
<1> USE DEF BoardInv
<1>1. ASSUME NEW c \in Column,
             \/ DeleteColumnCount(r, c)
             \/ \E cat \in Category : AddColumn(r, c, cat) \/ UpdateColumn(r, c, cat)
      PROVE  ReferencesInScope'
  <2>1. UNCHANGED <<sprint, issue>> /\ \A t \in Column : ColumnRow(t) => ColumnRow(t)'
    BY <1>1 DEF TypeOK, DeleteColumnCount, AddColumn, UpdateColumn, ColumnRow
  <2> QED
    BY <2>1, ScopeFrame DEF SprintRow
<1>2. CASE DeleteColumnDrop(r)
  <2>1. CASE UNCHANGED <<column, issue>>
    BY <1>2, <2>1, ScopeFrame DEF DeleteColumnDrop, ColumnRow, SprintRow
  <2>2. CASE /\ column' = [column EXCEPT ![req[r].column] = "GONE"]
             /\ issue' = [i \in Issue |-> IF issue[i].column = req[r].column
                                          THEN [issue[i] EXCEPT !.column = NULL]
                                          ELSE issue[i]]
    <3>1. sprint' = sprint /\ \A c \in Column : c # req[r].column /\ ColumnRow(c) => ColumnRow(c)'
      BY <1>2, <2>2 DEF TypeOK, DeleteColumnDrop, ColumnRow
    <3>2. \A j \in Issue : /\ issue'[j].row = issue[j].row /\ issue'[j].sprint = issue[j].sprint
                           /\ issue'[j].parent = issue[j].parent /\ issue'[j].epic = issue[j].epic
                           /\ issue'[j].column = IF issue[j].column = req[r].column THEN NULL
                                                 ELSE issue[j].column
      BY <2>2 DEF TypeOK, IssueRecord
    <3> QED
      BY <3>1, <3>2 DEF ReferencesInScope, SprintInProject, SprintRow, ColumnInProject,
         IssueInProject, IssueRow, IssueRecord, TypeOK
  <2> QED
    BY <1>2, <2>1, <2>2 DEF DeleteColumnDrop
<1> QED
  BY <1>1, <1>2 DEF ColumnStep

(* A write that commits finds its references in scope: the request brought *)
(* them in scope (RequestsInScope) and the foreign keys hold.              *)
LEMMA IssueStepScope ==
    ASSUME BoardInv, NEW r \in Request, IssueStep(r)
    PROVE  ReferencesInScope'
<1> USE DEF BoardInv
<1>1. ASSUME NEW i \in Issue, DeleteIssue(r, i) PROVE ReferencesInScope'
  BY <1>1, ScopeDropIssues DEF DeleteIssue
<1>2. ASSUME NEW i \in Issue,
             \/ \E c \in Column : MoveRead(r, i, c)
             \/ \E s \in Sprint \cup {NULL, KEEP}, e \in Issue \cup {NULL, KEEP} :
                   UpdateIssueRead(r, i, s, e)
             \/ \E s \in Sprint \cup {NULL}, e, p \in Issue \cup {NULL}, c \in Column \cup {NULL} :
                   CreateIssueRead(r, i, s, e, p, c)
      PROVE  ReferencesInScope'
  <2>1. UNCHANGED <<sprint, column, issue>>
    BY <1>2 DEF MoveRead, UpdateIssueRead, CreateIssueRead
  <2> QED
    BY <2>1, ScopeFrame DEF SprintRow, ColumnRow
<1>3. CASE CreateIssueInsert(r)
  <2>1. UNCHANGED <<sprint, column>>
    BY <1>3 DEF CreateIssueInsert
  <2>2. CASE UNCHANGED issue
    BY <2>1, <2>2, ScopeFrame DEF SprintRow, ColumnRow
  <2>3. CASE /\ ForeignKeysHold(NewIssue(r))
             /\ issue' = [i \in Issue |-> IF i \in req[r].rows THEN NewIssue(r) ELSE issue[i]]
    <3>1. NewIssue(r) \in IssueRecord /\ issue' \in [Issue -> IssueRecord]
      BY <1>3, <2>3, NewIssueTyped DEF CreateIssueInsert, TypeOK
    <3>2. req[r].rows \in SUBSET Issue
      BY DEF TypeOK, RequestRecord
    <3>3. At(r, "insert") /\ req[r].sprint # KEEP /\ req[r].epic # KEEP
      BY <1>3 DEF CreateIssueInsert, TypeOK
    <3>4. ASSUME NEW i \in req[r].rows
          PROVE  /\ issue'[i].row = "LIVE"
                 /\ issue'[i].sprint # NULL => SprintInProject(issue'[i].sprint, IssueProject[i])
                 /\ issue'[i].column # NULL => ColumnInProject(issue'[i].column, IssueProject[i])
                 /\ IssueInProject(issue'[i].parent, IssueProject[i])
                 /\ IssueInProject(issue'[i].epic, IssueProject[i])
      <4>1. issue'[i] = NewIssue(r)
        BY <2>3, <3>2
      <4> QED
        BY <4>1, <2>3, <3>3 DEF NewIssue, ForeignKeysHold, RequestsInScope, SprintInProject,
           ColumnInProject, IssueInProject
    <3> QED
      BY <2>1, <2>3, <3>1, <3>2, <3>4, ScopeWrite
  <2> QED
    BY <1>3, <2>2, <2>3 DEF CreateIssueInsert
<1>4. CASE UpdateIssueWrite(r)
  <2>1. UNCHANGED <<sprint, column>>
    BY <1>4 DEF UpdateIssueWrite
  <2>2. CASE UNCHANGED issue
    BY <2>1, <2>2, ScopeFrame DEF SprintRow, ColumnRow
  <2>3. ASSUME NEW i \in req[r].rows, IssueRow(i), ForeignKeysHold(Updated(r, i)),
               issue' = [issue EXCEPT ![i] = Updated(r, i)]
        PROVE  ReferencesInScope'
    <3>1. i \in Issue
      BY DEF TypeOK, RequestRecord
    <3>2. Updated(r, i) \in IssueRecord
      BY <3>1, UpdatedTyped
    <3>3. issue' \in [Issue -> IssueRecord] /\ issue'[i] = Updated(r, i)
      BY <2>3, <3>1, <3>2 DEF TypeOK
    <3>4. /\ Updated(r, i).row = "LIVE" /\ Updated(r, i).column = issue[i].column
          /\ Updated(r, i).parent = issue[i].parent
          /\ Updated(r, i).sprint = Given(req[r].sprint, issue[i].sprint)
          /\ Updated(r, i).epic = Given(req[r].epic, issue[i].epic)
      <4>1. issue[i] \in IssueRecord
        BY <3>1 DEF TypeOK
      <4> QED
        BY <2>3, <4>1 DEF Updated, IssueRow, IssueRecord
    <3>5. /\ issue'[i].sprint # NULL => SprintInProject(issue'[i].sprint, IssueProject[i])
          /\ issue'[i].column # NULL => ColumnInProject(issue'[i].column, IssueProject[i])
          /\ IssueInProject(issue'[i].parent, IssueProject[i])
          /\ IssueInProject(issue'[i].epic, IssueProject[i])
      BY <2>3, <3>1, <3>3, <3>4 DEF Given, ForeignKeysHold, RequestsInScope, ReferencesInScope,
         SprintInProject, ColumnInProject, IssueInProject
    <3> QED
      BY <2>1, <2>3, <3>1, <3>2, <3>3, <3>4, <3>5, ScopeWriteOne
  <2> QED
    BY <1>4, <2>2, <2>3 DEF UpdateIssueWrite
<1>5. CASE MoveWrite(r)
  <2>1. UNCHANGED <<sprint, column>>
    BY <1>5 DEF MoveWrite
  <2>2. CASE UNCHANGED issue
    BY <2>1, <2>2, ScopeFrame DEF SprintRow, ColumnRow
  <2>3. ASSUME NEW i \in req[r].rows, IssueRow(i), ColumnRow(req[r].column),
               issue' = [issue EXCEPT ![i] = Moved(r, i)]
        PROVE  ReferencesInScope'
    <3>1. i \in Issue
      BY DEF TypeOK, RequestRecord
    <3>2. Moved(r, i) \in IssueRecord
      BY <3>1, MovedTyped
    <3>3. issue' \in [Issue -> IssueRecord] /\ issue'[i] = Moved(r, i)
      BY <2>3, <3>1, <3>2 DEF TypeOK
    <3>4. /\ Moved(r, i).row = "LIVE" /\ Moved(r, i).column = req[r].column
          /\ Moved(r, i).parent = issue[i].parent /\ Moved(r, i).epic = issue[i].epic
          /\ Moved(r, i).sprint = issue[i].sprint
      <4>1. issue[i] \in IssueRecord
        BY <3>1 DEF TypeOK
      <4> QED
        BY <2>3, <4>1 DEF Moved, IssueRow, IssueRecord
    <3>5. /\ issue'[i].sprint # NULL => SprintInProject(issue'[i].sprint, IssueProject[i])
          /\ issue'[i].column # NULL => ColumnInProject(issue'[i].column, IssueProject[i])
          /\ IssueInProject(issue'[i].parent, IssueProject[i])
          /\ IssueInProject(issue'[i].epic, IssueProject[i])
      BY <2>3, <3>1, <3>3, <3>4 DEF RequestsInScope, ReferencesInScope, ColumnInProject
    <3> QED
      BY <2>1, <2>3, <3>1, <3>2, <3>3, <3>4, <3>5, ScopeWriteOne
  <2> QED
    BY <1>5, <2>2, <2>3 DEF MoveWrite
<1> QED
  BY <1>1, <1>2, <1>3, <1>4, <1>5 DEF IssueStep, UpdateIssueRequest, CreateIssueRequest

LEMMA BulkStepScope ==
    ASSUME BoardInv, NEW r \in Request, BulkStep(r)
    PROVE  ReferencesInScope'
<1> USE DEF BoardInv
<1>1. ASSUME NEW S \in SUBSET Issue,
             BulkDeleteRead(r, S) \/ \E s \in Sprint \cup {NULL, KEEP} : BulkUpdateRead(r, S, s)
      PROVE  ReferencesInScope'
  <2>1. UNCHANGED <<sprint, column, issue>>
    BY <1>1 DEF BulkDeleteRead, BulkUpdateRead
  <2> QED
    BY <2>1, ScopeFrame DEF SprintRow, ColumnRow
<1>2. CASE BulkDeleteWrite(r)
  BY <1>2, ScopeDropIssues DEF BulkDeleteWrite
<1>3. CASE BulkUpdateWrite(r)
  <2>1. UNCHANGED <<sprint, column>>
    BY <1>3 DEF BulkUpdateWrite
  <2>2. CASE UNCHANGED issue
    BY <2>1, <2>2, ScopeFrame DEF SprintRow, ColumnRow
  <2>3. CASE /\ SprintExists(req[r].sprint)
             /\ issue' = [i \in Issue |->
                            IF i \in req[r].rows /\ IssueRow(i)
                            THEN [issue[i] EXCEPT !.sprint = Given(req[r].sprint, @)]
                            ELSE issue[i]]
    <3> DEFINE S == {i \in req[r].rows : IssueRow(i)}
    <3>1. S \in SUBSET Issue /\ \A i \in Issue \ S : issue'[i] = issue[i]
      BY <2>3 DEF TypeOK, RequestRecord
    <3>2. ASSUME NEW i \in S
          PROVE  /\ issue'[i].row = "LIVE" /\ issue'[i].column = issue[i].column
                 /\ issue'[i].parent = issue[i].parent /\ issue'[i].epic = issue[i].epic
                 /\ issue'[i].sprint = Given(req[r].sprint, issue[i].sprint)
      <4>1. issue'[i] = [issue[i] EXCEPT !.sprint = Given(req[r].sprint, issue[i].sprint)]
        BY <2>3, <3>1
      <4>2. issue[i] \in IssueRecord /\ issue[i].row = "LIVE"
        BY <3>1 DEF TypeOK, IssueRow
      <4> QED
        BY <4>1, <4>2 DEF IssueRecord
    <3>3. ASSUME NEW i \in S
          PROVE  /\ issue'[i].sprint # NULL => SprintInProject(issue'[i].sprint, IssueProject[i])
                 /\ issue'[i].column # NULL => ColumnInProject(issue'[i].column, IssueProject[i])
                 /\ IssueInProject(issue'[i].parent, IssueProject[i])
                 /\ IssueInProject(issue'[i].epic, IssueProject[i])
      <4>1. /\ SprintInProject(issue[i].sprint, IssueProject[i]) \/ issue[i].sprint = NULL
            /\ issue[i].column # NULL => ColumnInProject(issue[i].column, IssueProject[i])
            /\ IssueInProject(issue[i].parent, IssueProject[i])
            /\ IssueInProject(issue[i].epic, IssueProject[i])
        BY <3>1, <3>3 DEF ReferencesInScope, SprintInProject, ColumnInProject, IssueInProject
      <4>2. Given(req[r].sprint, issue[i].sprint) # NULL =>
               SprintInProject(Given(req[r].sprint, issue[i].sprint), IssueProject[i])
        BY <2>3, <3>1, <3>3, <4>1 DEF Given, SprintExists, RequestsInScope, SprintInProject
      <4> QED
        BY <3>2, <3>3, <4>1, <4>2
    <3>4. issue' \in [Issue -> IssueRecord]
      <4>1. BulkStep(r)
        BY <1>3 DEF BulkStep
      <4> QED
        BY <4>1, BulkStepType DEF TypeOK
    <3> HIDE DEF S
    <3> QED
      BY <2>1, <3>1, <3>2, <3>3, <3>4, ScopeWrite
  <2> QED
    BY <1>3, <2>2, <2>3 DEF BulkUpdateWrite
<1> QED
  BY <1>1, <1>2, <1>3 DEF BulkStep

-----------------------------------------------------------------------------
(* RequestsInScope and CompletingStarted.  A request that answers forgets  *)
(* what it remembered; one that enters a handler has just checked it.      *)

LEMMA RequestsFrame ==
    ASSUME TypeOK, RequestsInScope, NEW r \in Request, Leave(r) \/ UNCHANGED req
    PROVE  RequestsInScope'
BY DEF TypeOK, RequestsInScope, Leave, Idle

LEMMA RequestsEnter ==
    ASSUME TypeOK, RequestsInScope, NEW r \in Request, NEW rec \in RequestRecord, Enter(r, rec),
           \A i \in rec.rows :
              /\ rec.sprint \notin {NULL, KEEP} => SprintProject[rec.sprint] = IssueProject[i]
              /\ rec.epic \notin {NULL, KEEP} => IssueProject[rec.epic] = IssueProject[i]
              /\ rec.parent # NULL => IssueProject[rec.parent] = IssueProject[i]
              /\ rec.column # NULL => ColumnProject[rec.column] = IssueProject[i]
    PROVE  RequestsInScope'
BY DEF TypeOK, RequestsInScope, Enter

LEMMA SprintStepRequests ==
    ASSUME BoardInv, NEW r \in Request, SprintStep(r)
    PROVE  RequestsInScope'
<1> USE DEF BoardInv
<1>1. ASSUME NEW s \in Sprint, CreateSprint(r, s) PROVE RequestsInScope'
  BY <1>1, RequestsFrame DEF CreateSprint
<1>2. ASSUME NEW s \in Sprint, NEW pc \in PC, Enter(r, [Idle EXCEPT !.pc = pc, !.sprint = s])
      PROVE  RequestsInScope'
  <2>1. [Idle EXCEPT !.pc = pc, !.sprint = s] \in RequestRecord
    BY DEF Idle, RequestRecord
  <2>2. [Idle EXCEPT !.pc = pc, !.sprint = s].rows = {}
    BY DEF Idle
  <2> QED
    BY <1>2, <2>1, <2>2, RequestsEnter
<1>3. CASE StartClaim(r) \/ CompleteFinish(r) \/ DeleteSprintDrop(r)
  BY <1>3, RequestsFrame DEF StartClaim, CompleteFinish, DeleteSprintDrop
<1>4. CASE CompleteSweep(r)
  <2> DEFINE rec == [Idle EXCEPT !.pc = "completeFinish", !.sprint = req[r].sprint,
                                 !.rows = Sweepable(req[r].sprint)]
  <2>1. req[r].sprint \in Sprint /\ Sweepable(req[r].sprint) \in SUBSET Issue
    BY <1>4 DEF CompleteSweep, CompletingStarted, At, Sweepable
  <2>2. /\ rec \in RequestRecord
        /\ rec.sprint = req[r].sprint /\ rec.epic = NULL /\ rec.parent = NULL
        /\ rec.column = NULL /\ rec.rows = Sweepable(req[r].sprint)
    BY <2>1 DEF Idle, RequestRecord, PC
  <2>3. ASSUME NEW i \in Sweepable(req[r].sprint)
        PROVE  SprintProject[req[r].sprint] = IssueProject[i]
    BY <2>1 DEF Sweepable, ReferencesInScope, SprintInProject, IssueRow
  <2> HIDE DEF rec
  <2>4. Enter(r, rec)
    BY <1>4 DEF CompleteSweep, rec
  <2> QED
    BY <2>2, <2>3, <2>4, RequestsEnter
<1>5. CASE DeleteSprintUnassign(r)
  <2> DEFINE rec == [Idle EXCEPT !.pc = "dropSprint", !.sprint = req[r].sprint]
  <2>1. req[r].sprint \in Sprint \cup {NULL, KEEP}
    BY DEF TypeOK, RequestRecord
  <2>2. rec \in RequestRecord /\ rec.rows = {}
    BY <2>1 DEF Idle, RequestRecord, PC
  <2> HIDE DEF rec
  <2>3. Enter(r, rec)
    BY <1>5 DEF DeleteSprintUnassign, rec
  <2> QED
    BY <2>2, <2>3, RequestsEnter
<1> QED
  <2>1. ASSUME NEW s \in Sprint, StartProbe(r, s) \/ CompleteRead(r, s) \/ DeleteSprintRead(r, s)
        PROVE  RequestsInScope'
    BY <2>1, <1>2 DEF StartProbe, CompleteRead, DeleteSprintRead, PC
  <2> QED
    BY <1>1, <1>3, <1>4, <1>5, <2>1 DEF SprintStep

LEMMA ColumnStepRequests ==
    ASSUME BoardInv, NEW r \in Request, ColumnStep(r)
    PROVE  RequestsInScope'
<1> USE DEF BoardInv
<1>1. ASSUME NEW c \in Column, DeleteColumnCount(r, c) PROVE RequestsInScope'
  <2> DEFINE rec == [Idle EXCEPT !.pc = "dropColumn", !.column = c]
  <2>1. rec \in RequestRecord /\ rec.rows = {}
    BY DEF Idle, RequestRecord, PC
  <2>2. Enter(r, rec)
    BY <1>1 DEF DeleteColumnCount
  <2> HIDE DEF rec
  <2> QED
    BY <2>1, <2>2, RequestsEnter
<1>2. ASSUME NEW c \in Column, NEW cat \in Category, AddColumn(r, c, cat) \/ UpdateColumn(r, c, cat)
      PROVE  RequestsInScope'
  BY <1>2, RequestsFrame DEF AddColumn, UpdateColumn
<1>3. CASE DeleteColumnDrop(r)
  BY <1>3, RequestsFrame DEF DeleteColumnDrop
<1> QED
  BY <1>1, <1>2, <1>3 DEF ColumnStep

LEMMA IssueStepRequests ==
    ASSUME BoardInv, NEW r \in Request, IssueStep(r)
    PROVE  RequestsInScope'
<1> USE DEF BoardInv
<1>1. ASSUME NEW i \in Issue, DeleteIssue(r, i) PROVE RequestsInScope'
  BY <1>1, RequestsFrame DEF DeleteIssue
<1>2. ASSUME NEW i \in Issue, NEW c \in Column, MoveRead(r, i, c) PROVE RequestsInScope'
  <2> DEFINE rec == [Idle EXCEPT !.pc = "moveWrite", !.rows = {i}, !.column = c,
                                 !.done = Closes(c)]
  <2>1. /\ rec \in RequestRecord /\ rec.rows = {i} /\ rec.sprint = NULL /\ rec.epic = NULL
        /\ rec.parent = NULL /\ rec.column = c
    BY DEF Idle, RequestRecord, PC, Closes
  <2>2. Enter(r, rec) /\ ColumnProject[c] = IssueProject[i]
    BY <1>2 DEF MoveRead, ColumnInProject
  <2> HIDE DEF rec
  <2> QED
    BY <2>1, <2>2, RequestsEnter
<1>3. ASSUME NEW i \in Issue, NEW s \in Sprint \cup {NULL, KEEP},
             NEW e \in Issue \cup {NULL, KEEP}, UpdateIssueRead(r, i, s, e)
      PROVE  RequestsInScope'
  <2> DEFINE rec == [Idle EXCEPT !.pc = "updateWrite", !.rows = {i}, !.sprint = s, !.epic = e]
  <2>1. /\ rec \in RequestRecord /\ rec.rows = {i} /\ rec.sprint = s /\ rec.epic = e
        /\ rec.parent = NULL /\ rec.column = NULL
    BY DEF Idle, RequestRecord, PC
  <2>2. /\ Enter(r, rec)
        /\ s \notin {NULL, KEEP} => SprintProject[s] = IssueProject[i]
        /\ e \notin {NULL, KEEP} => IssueProject[e] = IssueProject[i]
    BY <1>3 DEF UpdateIssueRead, SprintInProject, IssueInProject
  <2> HIDE DEF rec
  <2> QED
    BY <2>1, <2>2, RequestsEnter
<1>4. ASSUME NEW i \in Issue, NEW s \in Sprint \cup {NULL}, NEW e \in Issue \cup {NULL},
             NEW p \in Issue \cup {NULL}, NEW c \in Column \cup {NULL},
             CreateIssueRead(r, i, s, e, p, c)
      PROVE  RequestsInScope'
  <2> DEFINE rec == [Idle EXCEPT !.pc = "insert", !.rows = {i}, !.sprint = s,
                                 !.epic = e, !.parent = p, !.column = c]
  <2>1. /\ rec \in RequestRecord /\ rec.rows = {i} /\ rec.sprint = s /\ rec.epic = e
        /\ rec.parent = p /\ rec.column = c
    BY DEF Idle, RequestRecord, PC
  <2>2. /\ Enter(r, rec)
        /\ s \notin {NULL, KEEP} => SprintProject[s] = IssueProject[i]
        /\ e \notin {NULL, KEEP} => IssueProject[e] = IssueProject[i]
        /\ p # NULL => IssueProject[p] = IssueProject[i]
    BY <1>4 DEF CreateIssueRead, SprintInProject, IssueInProject
  <2>3. c # NULL => ColumnProject[c] = IssueProject[i]
    BY <1>4 DEF CreateIssueRead, FirstColumns, ColumnsOf
  <2> HIDE DEF rec
  <2> QED
    BY <2>1, <2>2, <2>3, RequestsEnter
<1>5. CASE CreateIssueInsert(r) \/ UpdateIssueWrite(r) \/ MoveWrite(r)
  BY <1>5, RequestsFrame DEF CreateIssueInsert, UpdateIssueWrite, MoveWrite
<1> QED
  BY <1>1, <1>2, <1>3, <1>4, <1>5 DEF IssueStep, UpdateIssueRequest, CreateIssueRequest

LEMMA BulkStepRequests ==
    ASSUME BoardInv, NEW r \in Request, BulkStep(r)
    PROVE  RequestsInScope'
<1> USE DEF BoardInv
<1>1. ASSUME NEW S \in SUBSET Issue, BulkDeleteRead(r, S) PROVE RequestsInScope'
  <2> DEFINE rec == [Idle EXCEPT !.pc = "bulkDelete", !.rows = S]
  <2>1. /\ rec \in RequestRecord /\ rec.rows = S /\ rec.sprint = NULL /\ rec.epic = NULL
        /\ rec.parent = NULL /\ rec.column = NULL
    BY DEF Idle, RequestRecord, PC
  <2>2. Enter(r, rec)
    BY <1>1 DEF BulkDeleteRead
  <2> HIDE DEF rec
  <2> QED
    BY <2>1, <2>2, RequestsEnter
<1>2. ASSUME NEW S \in SUBSET Issue, NEW s \in Sprint \cup {NULL, KEEP}, BulkUpdateRead(r, S, s)
      PROVE  RequestsInScope'
  <2> DEFINE rec == [Idle EXCEPT !.pc = "bulkWrite", !.rows = S, !.sprint = s]
  <2>1. /\ rec \in RequestRecord /\ rec.rows = S /\ rec.sprint = s /\ rec.epic = NULL
        /\ rec.parent = NULL /\ rec.column = NULL
    BY DEF Idle, RequestRecord, PC
  <2>2. /\ Enter(r, rec)
        /\ s \notin {NULL, KEEP} => \A i \in S : SprintProject[s] = IssueProject[i]
    BY <1>2 DEF BulkUpdateRead, SprintCovers
  <2> HIDE DEF rec
  <2> QED
    BY <2>1, <2>2, RequestsEnter
<1>3. CASE BulkUpdateWrite(r) \/ BulkDeleteWrite(r)
  BY <1>3, RequestsFrame DEF BulkUpdateWrite, BulkDeleteWrite
<1> QED
  BY <1>1, <1>2, <1>3 DEF BulkStep

(* A completing sprint stays started: no step takes a status back, and the *)
(* request that enters complete() has read ACTIVE.                         *)
LEMMA CompletingFrame ==
    ASSUME TypeOK, CompletingStarted, NEW r \in Request,
           \A q \in Request \ {r} : req'[q] = req[q],
           \A s \in Sprint : sprint[s] \in {"ACTIVE", "COMPLETED", "GONE"} =>
                             sprint'[s] \in {"ACTIVE", "COMPLETED", "GONE"},
           req'[r].pc \in {"completeSweep", "completeFinish"} =>
              /\ req'[r].sprint \in Sprint
              /\ sprint'[req'[r].sprint] \in {"ACTIVE", "COMPLETED", "GONE"}
    PROVE  CompletingStarted'
BY DEF CompletingStarted

LEMMA Entered ==
    ASSUME TypeOK, NEW r \in Request, NEW rec, Enter(r, rec)
    PROVE  req'[r] = rec /\ \A q \in Request \ {r} : req'[q] = req[q]
BY DEF TypeOK, Enter

LEMMA SprintStepCompleting ==
    ASSUME BoardInv, NEW r \in Request, SprintStep(r)
    PROVE  CompletingStarted'
<1> USE DEF BoardInv
<1>1. \A q \in Request \ {r} : req'[q] = req[q]
  BY DEF TypeOK, SprintStep, CreateSprint, StartProbe, CompleteRead, DeleteSprintRead, StartClaim,
         CompleteSweep, CompleteFinish, DeleteSprintUnassign, DeleteSprintDrop, Enter, Leave
<1>2. \A s \in Sprint : sprint[s] \in {"ACTIVE", "COMPLETED", "GONE"} =>
                        sprint'[s] \in {"ACTIVE", "COMPLETED", "GONE"}
  BY DEF TypeOK, SprintStep, CreateSprint, StartProbe, CompleteRead, DeleteSprintRead, StartClaim,
         CompleteSweep, CompleteFinish, DeleteSprintUnassign, DeleteSprintDrop, Claimable
<1>3. req'[r].pc \in {"completeSweep", "completeFinish"} =>
         /\ req'[r].sprint \in Sprint
         /\ sprint'[req'[r].sprint] \in {"ACTIVE", "COMPLETED", "GONE"}
  <2>1. ASSUME NEW s \in Sprint, CompleteRead(r, s)
        PROVE  /\ req'[r].sprint = s /\ sprint'[s] = "ACTIVE"
    BY <2>1 DEF TypeOK, CompleteRead, Completable, Enter, Idle
  <2>2. CASE CompleteSweep(r)
    <3>1. req'[r].sprint = req[r].sprint /\ sprint' = sprint
      BY <2>2 DEF TypeOK, CompleteSweep, Enter, Idle
    <3> QED
      BY <2>2, <3>1 DEF CompleteSweep, CompletingStarted, At
  <2>3. ASSUME NEW s \in Sprint, CreateSprint(r, s)
        PROVE  req'[r].pc = "idle"
    BY <2>3 DEF CreateSprint, IsIdle
  <2>4. ASSUME NEW s \in Sprint, StartProbe(r, s) \/ DeleteSprintRead(r, s)
        PROVE  req'[r].pc \in {"startClaim", "unassign"}
    <3>1. /\ [Idle EXCEPT !.pc = "startClaim", !.sprint = s].pc = "startClaim"
          /\ [Idle EXCEPT !.pc = "unassign", !.sprint = s].pc = "unassign"
      BY DEF Idle
    <3>2. CASE StartProbe(r, s)
      <4>1. Enter(r, [Idle EXCEPT !.pc = "startClaim", !.sprint = s])
        BY <3>2 DEF StartProbe
      <4> QED
        BY <4>1, <3>1, Entered
    <3>3. CASE DeleteSprintRead(r, s)
      <4>1. Enter(r, [Idle EXCEPT !.pc = "unassign", !.sprint = s])
        BY <3>3 DEF DeleteSprintRead
      <4> QED
        BY <4>1, <3>1, Entered
    <3> QED
      BY <2>4, <3>2, <3>3
  <2>5. CASE StartClaim(r) \/ CompleteFinish(r) \/ DeleteSprintDrop(r)
    BY <2>5 DEF TypeOK, StartClaim, CompleteFinish, DeleteSprintDrop, Leave, Idle
  <2>6. CASE DeleteSprintUnassign(r)
    BY <2>6 DEF TypeOK, DeleteSprintUnassign, Enter, Idle
  <2> QED
    BY <2>1, <2>2, <2>3, <2>4, <2>5, <2>6 DEF SprintStep
<1> QED
  BY <1>1, <1>2, <1>3, CompletingFrame

(* A step of the other services leaves the sprints alone and its request   *)
(* outside the handlers of SprintsService.                                 *)
OutsideSprints(r) ==
    \/ req' = req
    \/ \E rec : Enter(r, rec) /\ rec.pc \notin {"startClaim", "completeSweep", "completeFinish"}

LEMMA OtherStepOutside ==
    ASSUME NEW r \in Request, ColumnStep(r) \/ IssueStep(r) \/ BulkStep(r)
    PROVE  UNCHANGED sprint /\ OutsideSprints(r)
<1>1. UNCHANGED sprint
  BY DEF ColumnStep, DeleteColumnCount, AddColumn, UpdateColumn, DeleteColumnDrop,
         IssueStep, UpdateIssueRequest, CreateIssueRequest, DeleteIssue, MoveRead, UpdateIssueRead, CreateIssueRead, CreateIssueInsert,
         UpdateIssueWrite, MoveWrite, BulkStep, BulkDeleteRead, BulkUpdateRead, BulkUpdateWrite,
         BulkDeleteWrite
<1> USE DEF OutsideSprints
<1>2. OutsideSprints(r)
  <2>1. Leave(r) => OutsideSprints(r)
    <3>1. Idle.pc = "idle"
      BY DEF Idle
    <3> QED
      BY <3>1 DEF Leave, Enter
  <2>2. ASSUME NEW c \in Column, DeleteColumnCount(r, c) PROVE OutsideSprints(r)
    <3>1. [Idle EXCEPT !.pc = "dropColumn", !.column = c].pc = "dropColumn"
      BY DEF Idle
    <3> QED
      BY <2>2, <3>1 DEF DeleteColumnCount
  <2>3. ASSUME NEW i \in Issue, NEW c \in Column, MoveRead(r, i, c) PROVE OutsideSprints(r)
    <3>1. [Idle EXCEPT !.pc = "moveWrite", !.rows = {i}, !.column = c,
                       !.done = Closes(c)].pc = "moveWrite"
      BY DEF Idle
    <3> QED
      BY <2>3, <3>1 DEF MoveRead
  <2>4. ASSUME NEW i, NEW s, NEW e, UpdateIssueRead(r, i, s, e) PROVE OutsideSprints(r)
    <3>1. [Idle EXCEPT !.pc = "updateWrite", !.rows = {i}, !.sprint = s, !.epic = e].pc = "updateWrite"
      BY DEF Idle
    <3> QED
      BY <2>4, <3>1 DEF UpdateIssueRead
  <2>5. ASSUME NEW i, NEW s, NEW e, NEW p, NEW c, CreateIssueRead(r, i, s, e, p, c)
        PROVE  OutsideSprints(r)
    <3>1. [Idle EXCEPT !.pc = "insert", !.rows = {i}, !.sprint = s, !.epic = e, !.parent = p,
                       !.column = c].pc = "insert"
      BY DEF Idle
    <3> QED
      BY <2>5, <3>1 DEF CreateIssueRead
  <2>6. ASSUME NEW S, NEW s, BulkUpdateRead(r, S, s) PROVE OutsideSprints(r)
    <3>1. [Idle EXCEPT !.pc = "bulkWrite", !.rows = S, !.sprint = s].pc = "bulkWrite"
      BY DEF Idle
    <3> QED
      BY <2>6, <3>1 DEF BulkUpdateRead
  <2>7. ASSUME NEW S, BulkDeleteRead(r, S) PROVE OutsideSprints(r)
    <3>1. [Idle EXCEPT !.pc = "bulkDelete", !.rows = S].pc = "bulkDelete"
      BY DEF Idle
    <3> QED
      BY <2>7, <3>1 DEF BulkDeleteRead
  <2>8. CASE ColumnStep(r)
    <3>1. (\E c \in Column : DeleteColumnCount(r, c)) \/ req' = req \/ Leave(r)
      BY <2>8 DEF ColumnStep, AddColumn, UpdateColumn, DeleteColumnDrop
    <3> QED
      BY <3>1, <2>1, <2>2
  <2>9. CASE IssueStep(r)
    <3>1. \/ req' = req \/ Leave(r)
          \/ \E i \in Issue, c \in Column : MoveRead(r, i, c)
          \/ \E i, s, e : UpdateIssueRead(r, i, s, e)
          \/ \E i, s, e, p, c : CreateIssueRead(r, i, s, e, p, c)
      BY <2>9 DEF IssueStep, UpdateIssueRequest, CreateIssueRequest, DeleteIssue, CreateIssueInsert, UpdateIssueWrite, MoveWrite
    <3> QED
      BY <3>1, <2>1, <2>3, <2>4, <2>5
  <2>10. CASE BulkStep(r)
    <3>1. \/ req' = req \/ Leave(r)
          \/ \E S : BulkDeleteRead(r, S)
          \/ \E S, s : BulkUpdateRead(r, S, s)
      BY <2>10 DEF BulkStep, BulkUpdateWrite, BulkDeleteWrite
    <3> QED
      BY <3>1, <2>1, <2>6, <2>7
  <2> QED
    BY <2>8, <2>9, <2>10
<1> QED
  BY <1>1, <1>2

LEMMA OtherStepCompleting ==
    ASSUME BoardInv, NEW r \in Request, ColumnStep(r) \/ IssueStep(r) \/ BulkStep(r)
    PROVE  CompletingStarted'
<1> USE DEF BoardInv
<1>1. UNCHANGED sprint /\ OutsideSprints(r)
  BY OtherStepOutside
<1>2. CASE req' = req
  BY <1>1, <1>2 DEF CompletingStarted
<1>3. ASSUME NEW rec, Enter(r, rec), rec.pc \notin {"completeSweep", "completeFinish"}
      PROVE  CompletingStarted'
  <2>1. TypeOK
    OBVIOUS
  <2>2. req'[r] = rec /\ \A q \in Request \ {r} : req'[q] = req[q]
    BY <1>3, <2>1, Entered
  <2> QED
    BY <1>1, <1>3, <2>2 DEF CompletingStarted
<1> QED
  BY <1>1, <1>2, <1>3 DEF OutsideSprints

-----------------------------------------------------------------------------
(* Theorems *)

LEMMA BoardInvInductive == BoardInv /\ [Next]_vars => BoardInv'
<1> SUFFICES ASSUME BoardInv, [Next]_vars PROVE BoardInv'
  OBVIOUS
<1>1. CASE UNCHANGED vars
  BY <1>1 DEF vars, BoardInv, TypeOK, At, ReferencesInScope, RequestsInScope, CompletingStarted,
     SprintInProject, SprintRow, ColumnInProject, ColumnRow, IssueInProject, IssueRow
<1>2. CASE Next
  <2>1. PICK r \in Request : SprintStep(r) \/ ColumnStep(r) \/ IssueStep(r) \/ BulkStep(r)
    BY <1>2 DEF Next
  <2>2. TypeOK
    BY DEF BoardInv
  <2>3. CASE SprintStep(r)
    BY <2>2, <2>3, SprintStepType, SprintStepScope, SprintStepRequests, SprintStepCompleting DEF BoardInv
  <2>4. CASE ColumnStep(r)
    BY <2>2, <2>4, ColumnStepType, ColumnStepScope, ColumnStepRequests, OtherStepCompleting DEF BoardInv
  <2>5. CASE IssueStep(r)
    BY <2>2, <2>5, IssueStepType, IssueStepScope, IssueStepRequests, OtherStepCompleting DEF BoardInv
  <2>6. CASE BulkStep(r)
    BY <2>2, <2>6, BulkStepType, BulkStepScope, BulkStepRequests, OtherStepCompleting DEF BoardInv
  <2> QED
    BY <2>1, <2>3, <2>4, <2>5, <2>6
<1> QED
  BY <1>1, <1>2

LEMMA BoardInvInit == Init => BoardInv
BY EmptyTyped DEF Init, BoardInv, TypeOK, ReferencesInScope, RequestsInScope, CompletingStarted, Idle,
   EmptyIssue, IssueInProject, At

(* The inductive invariant: what a request remembers stays in scope and    *)
(* what a completing request works on stays started.                       *)
THEOREM BoardInvHolds == Spec => []BoardInv
BY BoardInvInit, BoardInvInductive, PTL DEF Spec

(* No interleaving of the handlers leaves an issue pointing at a sprint,   *)
(* column, parent or epic of another project, or at a deleted row          *)
(* (assertIssueFkScope, move, bulkUpdate and the SET NULL foreign keys).   *)
THEOREM ScopeSafety == Spec => []ReferencesInScope
BY BoardInvHolds, PTL DEF BoardInv

(* Only the two steps of start() make a sprint ACTIVE or enter its claim.  *)
LEMMA StartsElsewhere ==
    ASSUME TypeOK, NEW r \in Request,
           SprintStep(r) \/ ColumnStep(r) \/ IssueStep(r) \/ BulkStep(r),
           ~StartClaim(r), ~\E s \in Sprint : StartProbe(r, s)
    PROVE  /\ \A s \in Sprint : sprint'[s] = "ACTIVE" => sprint[s] = "ACTIVE"
           /\ req' = req \/ req'[r].pc # "startClaim"
           /\ \A q \in Request \ {r} : req'[q] = req[q]
<1>1. ASSUME UNCHANGED sprint, req' = req \/ \E rec : Enter(r, rec) /\ rec.pc # "startClaim"
      PROVE  /\ \A s \in Sprint : sprint'[s] = "ACTIVE" => sprint[s] = "ACTIVE"
             /\ req' = req \/ req'[r].pc # "startClaim"
             /\ \A q \in Request \ {r} : req'[q] = req[q]
  BY <1>1, Entered
<1>2. CASE ColumnStep(r) \/ IssueStep(r) \/ BulkStep(r)
  <2>1. UNCHANGED sprint /\ OutsideSprints(r)
    BY <1>2, OtherStepOutside
  <2> QED
    BY <1>1, <2>1 DEF OutsideSprints
<1>3. CASE SprintStep(r)
  <2>1. ASSUME NEW s \in Sprint, CreateSprint(r, s)
        PROVE  /\ \A t \in Sprint : sprint'[t] = "ACTIVE" => sprint[t] = "ACTIVE"
               /\ req' = req
    BY <2>1 DEF CreateSprint, TypeOK
  <2>2. ASSUME NEW s \in Sprint, CompleteRead(r, s) \/ DeleteSprintRead(r, s)
        PROVE  UNCHANGED sprint /\ \E rec : Enter(r, rec) /\ rec.pc # "startClaim"
    <3>1. /\ [Idle EXCEPT !.pc = "completeSweep", !.sprint = s].pc # "startClaim"
          /\ [Idle EXCEPT !.pc = "unassign", !.sprint = s].pc # "startClaim"
      BY DEF Idle
    <3> QED
      BY <2>2, <3>1 DEF CompleteRead, DeleteSprintRead
  <2>3. CASE CompleteSweep(r)
    <3>1. [Idle EXCEPT !.pc = "completeFinish", !.sprint = req[r].sprint,
                       !.rows = Sweepable(req[r].sprint)].pc # "startClaim"
      BY DEF Idle
    <3> QED
      BY <1>1, <2>3, <3>1 DEF CompleteSweep
  <2>4. CASE DeleteSprintUnassign(r)
    <3>1. [Idle EXCEPT !.pc = "dropSprint", !.sprint = req[r].sprint].pc # "startClaim"
      BY DEF Idle
    <3> QED
      BY <1>1, <2>4, <3>1 DEF DeleteSprintUnassign
  <2>5. CASE CompleteFinish(r) \/ DeleteSprintDrop(r)
    <3>1. Leave(r)
      BY <2>5 DEF CompleteFinish, DeleteSprintDrop
    <3>2. req'[r].pc # "startClaim" /\ \A q \in Request \ {r} : req'[q] = req[q]
      BY <3>1 DEF Leave, Idle, TypeOK
    <3>3. \A s \in Sprint : sprint'[s] = "ACTIVE" => sprint[s] = "ACTIVE"
      BY <2>5 DEF CompleteFinish, DeleteSprintDrop, TypeOK
    <3> QED
      BY <3>2, <3>3
  <2> QED
    BY <1>1, <1>3, <2>1, <2>2, <2>3, <2>4, <2>5 DEF SprintStep
<1> QED
  BY <1>2, <1>3

(* A sprint status only moves forward, under any number of overlapping     *)
(* start(), complete() and delete() calls.                                 *)
THEOREM LifecycleSafety == Spec => SprintLifecycle
<1> DEFINE Forward ==
      \A s \in Sprint : sprint'[s] # sprint[s] =>
          <<sprint[s], sprint'[s]>> \in
             {<<"UNUSED", "PLANNING">>, <<"PLANNING", "ACTIVE">>, <<"ACTIVE", "COMPLETED">>}
             \cup (SprintStatus \X {"GONE"})
<1>1. BoardInv /\ [Next]_vars => [Forward]_vars
  <2> SUFFICES ASSUME BoardInv, Next PROVE Forward
    BY DEF vars
  <2>1. PICK r \in Request : SprintStep(r) \/ ColumnStep(r) \/ IssueStep(r) \/ BulkStep(r)
    BY DEF Next
  <2>2. CASE UNCHANGED sprint
    BY <2>2
  <2>3. ASSUME NEW s \in Sprint, CreateSprint(r, s) PROVE Forward
    BY <2>3 DEF CreateSprint, BoardInv, TypeOK
  <2>4. CASE StartClaim(r)
    BY <2>4 DEF StartClaim, Claimable, BoardInv, TypeOK
  <2>5. CASE CompleteFinish(r)
    <3>1. req[r].sprint \in Sprint /\ sprint[req[r].sprint] \in {"ACTIVE", "COMPLETED", "GONE"}
      BY <2>5 DEF CompleteFinish, At, BoardInv, CompletingStarted
    <3>2. CASE ~SprintRow(req[r].sprint)
      BY <2>5, <3>2 DEF CompleteFinish
    <3>3. CASE SprintRow(req[r].sprint)
      <4>1. sprint' = [sprint EXCEPT ![req[r].sprint] = "COMPLETED"]
        BY <2>5, <3>3 DEF CompleteFinish
      <4>2. sprint[req[r].sprint] \in {"ACTIVE", "COMPLETED"}
        BY <3>1, <3>3 DEF SprintRow, SprintStatus
      <4> QED
        BY <3>1, <4>1, <4>2 DEF BoardInv, TypeOK
    <3> QED
      BY <3>2, <3>3
  <2>6. CASE DeleteSprintDrop(r)
    BY <2>6 DEF DeleteSprintDrop, BoardInv, TypeOK, SprintRow, SprintStatus, Unlocked
  <2>7. UNCHANGED sprint \/ (\E s \in Sprint : CreateSprint(r, s)) \/ StartClaim(r)
        \/ CompleteFinish(r) \/ DeleteSprintDrop(r)
    BY <2>1 DEF SprintStep, StartProbe, CompleteRead, DeleteSprintRead, CompleteSweep,
       DeleteSprintUnassign, ColumnStep, DeleteColumnCount, AddColumn, UpdateColumn,
       DeleteColumnDrop, IssueStep, UpdateIssueRequest, CreateIssueRequest, DeleteIssue, MoveRead, UpdateIssueRead, CreateIssueRead,
       CreateIssueInsert, UpdateIssueWrite, MoveWrite, BulkStep, BulkDeleteRead, BulkUpdateRead,
       BulkUpdateWrite, BulkDeleteWrite
  <2> QED
    BY <2>2, <2>3, <2>4, <2>5, <2>6, <2>7
<1> QED
  BY <1>1, BoardInvHolds, PTL DEF Spec, SprintLifecycle

-----------------------------------------------------------------------------
(* Requests that do overlap: how many sprints of a board may be ACTIVE.    *)

ActiveOf(p) == {s \in Sprint : SprintProject[s] = p /\ sprint[s] = "ACTIVE"}
StartersOf(p) == {r \in Request : At(r, "startClaim") /\ SprintProject[req[r].sprint] = p}

(* A start() has probed one of the sprints; whoever finds the board without *)
(* an ACTIVE one leaves room for the calls that are under way.             *)
StartersName == \A r \in Request : At(r, "startClaim") => req[r].sprint \in Sprint
Room(p) ==
    /\ IsFiniteSet(ActiveOf(p))
    /\ Cardinality(ActiveOf(p)) + Cardinality(StartersOf(p)) <= Cardinality(Request)
StartsInv == TypeOK /\ StartersName /\ \A p \in Project : Room(p)

ActiveBounded ==
    \A p \in Project :
        IsFiniteSet(ActiveOf(p)) /\ Cardinality(ActiveOf(p)) <= Cardinality(Request)

LEMMA StartersFinite ==
    ASSUME IsFiniteSet(Request), NEW p
    PROVE  /\ IsFiniteSet(StartersOf(p)) /\ Cardinality(StartersOf(p)) \in Nat
           /\ Cardinality(Request) \in Nat
           /\ Cardinality(StartersOf(p)) <= Cardinality(Request)
<1>1. StartersOf(p) \in SUBSET Request
  BY DEF StartersOf
<1> QED
  BY <1>1, FS_Subset, FS_CardinalityType

(* Fewer ACTIVE sprints and fewer starters leave room. *)
LEMMA RoomKept ==
    ASSUME IsFiniteSet(Request), NEW p, Room(p),
           ActiveOf(p)' \subseteq ActiveOf(p), StartersOf(p)' \subseteq StartersOf(p)
    PROVE  Room(p)'
<1> DEFINE A == ActiveOf(p)
           B == ActiveOf(p)'
           S == StartersOf(p)
           T == StartersOf(p)'
<1>1. IsFiniteSet(A) /\ Cardinality(A) + Cardinality(S) <= Cardinality(Request)
  BY DEF Room
<1>2. IsFiniteSet(S) /\ Cardinality(S) \in Nat /\ Cardinality(Request) \in Nat
  BY StartersFinite
<1>3. B \in SUBSET A /\ T \in SUBSET S
  OBVIOUS
<1>4. IsFiniteSet(B) /\ Cardinality(B) \in Nat /\ Cardinality(B) <= Cardinality(A)
      /\ Cardinality(A) \in Nat
  <2> HIDE DEF A, B, S, T
  <2> QED
    BY <1>1, <1>3, FS_Subset, FS_CardinalityType
<1>5. IsFiniteSet(T) /\ Cardinality(T) \in Nat /\ Cardinality(T) <= Cardinality(S)
  <2> HIDE DEF A, B, S, T
  <2> QED
    BY <1>2, <1>3, FS_Subset, FS_CardinalityType
<1>6. Cardinality(B) + Cardinality(T) <= Cardinality(Request)
  <2> HIDE DEF A, B, S, T
  <2> QED
    BY <1>1, <1>2, <1>4, <1>5
<1> QED
  BY <1>4, <1>6 DEF Room

(* The probe finds no ACTIVE sprint of the board. *)
LEMMA ProbeLeavesRoom ==
    ASSUME IsFiniteSet(Request), NEW p, ActiveOf(p)' = {}
    PROVE  Room(p)'
<1>1. StartersOf(p)' \in SUBSET Request
  BY DEF StartersOf
<1> DEFINE T == StartersOf(p)'
<1>2. IsFiniteSet(T) /\ Cardinality(T) \in Nat /\ Cardinality(T) <= Cardinality(Request)
      /\ Cardinality(Request) \in Nat
  <2> HIDE DEF T
  <2> QED
    BY <1>1, FS_Subset, FS_CardinalityType DEF T
<1>3. IsFiniteSet({}) /\ Cardinality({}) = 0
  BY FS_EmptySet
<1>4. Cardinality({}) + Cardinality(T) <= Cardinality(Request)
  BY <1>2, <1>3
<1> QED
  BY <1>3, <1>4 DEF Room

(* The claim makes an ACTIVE sprint of a starter. *)
LEMMA ClaimTakesRoom ==
    ASSUME IsFiniteSet(Request), NEW p, Room(p), NEW r \in StartersOf(p), NEW s,
           ActiveOf(p)' \subseteq ActiveOf(p) \cup {s},
           StartersOf(p)' = StartersOf(p) \ {r}
    PROVE  Room(p)'
<1> DEFINE A == ActiveOf(p)
           B == ActiveOf(p)'
           S == StartersOf(p)
           T == StartersOf(p)'
<1>1. IsFiniteSet(A) /\ Cardinality(A) + Cardinality(S) <= Cardinality(Request)
  BY DEF Room
<1>2. IsFiniteSet(S) /\ Cardinality(S) \in Nat /\ Cardinality(Request) \in Nat
  BY StartersFinite
<1>3. r \in S /\ T = S \ {r} /\ B \in SUBSET (A \cup {s})
  OBVIOUS
<1> HIDE DEF A, B, S, T
<1>4. Cardinality(T) = Cardinality(S) - 1
  BY <1>2, <1>3, FS_RemoveElement
<1>5. IsFiniteSet(A \cup {s}) /\ Cardinality(A \cup {s}) <= Cardinality(A) + 1
      /\ Cardinality(A) \in Nat
  <2>1. Cardinality(A) \in Nat
    BY <1>1, FS_CardinalityType
  <2>2. IsFiniteSet(A \cup {s})
        /\ Cardinality(A \cup {s}) = IF s \in A THEN Cardinality(A) ELSE Cardinality(A) + 1
    BY <1>1, FS_AddElement
  <2> QED
    BY <2>1, <2>2
<1>6. IsFiniteSet(B) /\ Cardinality(B) <= Cardinality(A \cup {s}) /\ Cardinality(B) \in Nat
      /\ Cardinality(A \cup {s}) \in Nat
  BY <1>3, <1>5, FS_Subset, FS_CardinalityType
<1>7. Cardinality(B) + Cardinality(T) <= Cardinality(Request)
  BY <1>1, <1>2, <1>4, <1>5, <1>6
<1> QED
  BY <1>6, <1>7 DEF Room, B, T

LEMMA StartsInit ==
    ASSUME IsFiniteSet(Request)
    PROVE  Init => StartsInv
<1> SUFFICES ASSUME Init PROVE StartsInv
  OBVIOUS
<1>1. TypeOK /\ \A r \in Request : ~At(r, "startClaim")
  BY BoardInvInit, EmptyTyped DEF BoardInv, Init, Idle, At
<1>2. ASSUME NEW p \in Project PROVE Room(p)
  <2>1. ActiveOf(p) = {} /\ StartersOf(p) = {}
    BY <1>1 DEF Init, ActiveOf, StartersOf
  <2>2. Cardinality({}) = 0 /\ IsFiniteSet({}) /\ Cardinality(Request) \in Nat
    BY FS_EmptySet, FS_CardinalityType
  <2> QED
    BY <2>1, <2>2 DEF Room
<1> QED
  BY <1>1, <1>2 DEF StartsInv, StartersName

(* A step that starts no sprint, and takes no request into start(). *)
LEMMA StartsFrame ==
    ASSUME IsFiniteSet(Request), StartsInv, TypeOK', NEW r \in Request,
           \A q \in Request \ {r} : req'[q] = req[q],
           \A s \in Sprint : sprint'[s] = "ACTIVE" => sprint[s] = "ACTIVE",
           req' = req \/ req'[r].pc # "startClaim"
    PROVE  StartsInv'
<1>1. \A q \in Request : At(q, "startClaim")' => req'[q] = req[q] /\ At(q, "startClaim")
  BY DEF At
<1>2. StartersName'
  BY <1>1 DEF StartsInv, StartersName
<1>3. ASSUME NEW p \in Project PROVE Room(p)'
  <2>1. ActiveOf(p)' \subseteq ActiveOf(p)
    BY DEF ActiveOf
  <2>2. StartersOf(p)' \subseteq StartersOf(p)
    BY <1>1 DEF StartersOf
  <2> QED
    BY <2>1, <2>2, RoomKept DEF StartsInv
<1> QED
  BY <1>2, <1>3 DEF StartsInv

LEMMA StartsInductive ==
    ASSUME IsFiniteSet(Request)
    PROVE  StartsInv /\ [Next]_vars => StartsInv'
<1> SUFFICES ASSUME StartsInv, [Next]_vars PROVE StartsInv'
  OBVIOUS
<1>1. TypeOK /\ TypeOK'
  BY TypeInductive DEF StartsInv
<1>2. CASE UNCHANGED vars
  BY <1>1, <1>2 DEF vars, StartsInv, StartersName, Room, ActiveOf, StartersOf, At
<1>3. CASE Next
  <2>1. PICK r \in Request : SprintStep(r) \/ ColumnStep(r) \/ IssueStep(r) \/ BulkStep(r)
    BY <1>3 DEF Next
  <2>2. CASE \E s \in Sprint : StartProbe(r, s)
    <3>1. PICK s \in Sprint : StartProbe(r, s)
      BY <2>2
    <3> DEFINE rec == [Idle EXCEPT !.pc = "startClaim", !.sprint = s]
    <3>2. rec.sprint = s
      BY DEF Idle
    <3>3. Enter(r, rec) /\ NoActiveSprint(s) /\ UNCHANGED sprint /\ req[r].pc = "idle"
      BY <3>1 DEF StartProbe, IsIdle
    <3> HIDE DEF rec
    <3>4. req'[r] = rec /\ \A q \in Request \ {r} : req'[q] = req[q]
      BY <1>1, <3>3, Entered
    <3>5. StartersName'
      BY <3>2, <3>4 DEF StartsInv, StartersName, At
    <3>6. ASSUME NEW p \in Project PROVE Room(p)'
      <4>1. CASE p = SprintProject[s]
        <5>1. ActiveOf(p)' = {}
          BY <3>3, <4>1 DEF NoActiveSprint, ActiveOf
        <5> QED
          BY <5>1, ProbeLeavesRoom
      <4>2. CASE p # SprintProject[s]
        <5>1. ActiveOf(p)' = ActiveOf(p)
          BY <3>3 DEF ActiveOf
        <5>2. StartersOf(p)' \subseteq StartersOf(p)
          BY <3>2, <3>4, <4>2 DEF StartersOf, At
        <5> QED
          BY <5>1, <5>2, RoomKept DEF StartsInv
      <4> QED
        BY <4>1, <4>2
    <3> QED
      BY <1>1, <3>5, <3>6 DEF StartsInv
  <2>3. CASE StartClaim(r)
    <3>1. /\ At(r, "startClaim") /\ req'[r].pc = "idle"
          /\ \A q \in Request \ {r} : req'[q] = req[q]
      BY <1>1, <2>3 DEF StartClaim, Leave, Idle, TypeOK
    <3>2. CASE UNCHANGED sprint
      BY <1>1, <3>1, <3>2, StartsFrame
    <3>3. CASE sprint' = [sprint EXCEPT ![req[r].sprint] = "ACTIVE"]
      <4>1. req[r].sprint \in Sprint
        BY <3>1 DEF StartsInv, StartersName
      <4>2. StartersName'
        BY <3>1 DEF StartsInv, StartersName, At
      <4>3. ASSUME NEW p \in Project PROVE Room(p)'
        <5>1. StartersOf(p)' = StartersOf(p) \ {r}
          BY <3>1 DEF StartersOf, At
        <5>2. CASE p = SprintProject[req[r].sprint]
          <6>1. r \in StartersOf(p)
            BY <3>1, <5>2 DEF StartersOf
          <6>2. ActiveOf(p)' \subseteq ActiveOf(p) \cup {req[r].sprint}
            BY <1>1, <3>3 DEF ActiveOf, TypeOK
          <6> QED
            BY <5>1, <6>1, <6>2, ClaimTakesRoom DEF StartsInv
        <5>3. CASE p # SprintProject[req[r].sprint]
          <6>1. ActiveOf(p)' \subseteq ActiveOf(p)
            BY <1>1, <3>3, <4>1, <5>3 DEF ActiveOf, TypeOK
          <6> QED
            BY <5>1, <6>1, RoomKept DEF StartsInv
        <5> QED
          BY <5>2, <5>3
      <4> QED
        BY <1>1, <4>2, <4>3 DEF StartsInv
    <3> QED
      BY <2>3, <3>2, <3>3 DEF StartClaim
  <2>4. CASE ~StartClaim(r) /\ ~\E s \in Sprint : StartProbe(r, s)
    <3>1. /\ \A s \in Sprint : sprint'[s] = "ACTIVE" => sprint[s] = "ACTIVE"
          /\ req' = req \/ req'[r].pc # "startClaim"
          /\ \A q \in Request \ {r} : req'[q] = req[q]
      BY <1>1, <2>1, <2>4, StartsElsewhere
    <3> QED
      BY <1>1, <3>1, StartsFrame
  <2> QED
    BY <2>2, <2>3, <2>4
<1> QED
  BY <1>2, <1>3

(* Overlapping start() calls break "only one active sprint", but no        *)
(* further than their number: a board never has more ACTIVE sprints than   *)
(* there are requests in flight, for any number of boards and sprints.     *)
THEOREM OverlapBoundsActive ==
    ASSUME IsFiniteSet(Request)
    PROVE  Spec => []ActiveBounded
<1>1. StartsInv => ActiveBounded
  <2> SUFFICES ASSUME StartsInv, NEW p \in Project
               PROVE  IsFiniteSet(ActiveOf(p)) /\ Cardinality(ActiveOf(p)) <= Cardinality(Request)
    BY DEF ActiveBounded
  <2>1. IsFiniteSet(ActiveOf(p))
        /\ Cardinality(ActiveOf(p)) + Cardinality(StartersOf(p)) <= Cardinality(Request)
    BY DEF StartsInv, Room
  <2>2. Cardinality(ActiveOf(p)) \in Nat
    BY <2>1, FS_CardinalityType
  <2> QED
    BY <2>1, <2>2, StartersFinite
<1>2. StartsInv /\ [Next]_vars => StartsInv'
  BY StartsInductive
<1>3. Init => StartsInv
  BY StartsInit
<1> QED
  BY <1>1, <1>2, <1>3, PTL DEF Spec

-----------------------------------------------------------------------------
(* Requests that overlap and do not overtake each other.  First, what      *)
(* holds of every interleaving: which rows a request may write.            *)

(* A row that is not there yet, or no longer, holds no reference.          *)
DeadRowsEmpty == \A i \in Issue : ~IssueRow(i) => issue[i] = EmptyIssue(issue[i].row)

(* An id about to be inserted is unused and nobody else's, what is about   *)
(* to be deleted in bulk is not, and move() has found its column.          *)
Reserved ==
    \A r \in Request :
        /\ At(r, "insert") => \A i \in req[r].rows :
              /\ issue[i].row = "UNUSED"
              /\ \A q \in Request \ {r} : At(q, "insert") => i \notin req[q].rows
        /\ At(r, "bulkDelete") => \A i \in req[r].rows : issue[i].row # "UNUSED"
        /\ At(r, "moveWrite") => req[r].column \in Column

RowsInv == TypeOK /\ DeadRowsEmpty /\ Reserved

(* The steps that write issues; every other step leaves the table alone.   *)
LEMMA IssueWriters ==
    ASSUME TypeOK, NEW r \in Request,
           SprintStep(r) \/ ColumnStep(r) \/ IssueStep(r) \/ BulkStep(r)
    PROVE  \/ UNCHANGED issue
           \/ \E s : ClearSprint(s)
           \/ CompleteFinish(r)
           \/ DeleteColumnDrop(r)
           \/ CreateIssueInsert(r)
           \/ UpdateIssueWrite(r)
           \/ MoveWrite(r)
           \/ BulkUpdateWrite(r)
           \/ \E i \in Issue : DeleteIssue(r, i)
           \/ BulkDeleteWrite(r)
<1>1. CASE SprintStep(r)
  <2>1. UNCHANGED issue \/ CompleteFinish(r) \/ ClearSprint(req[r].sprint)
    BY <1>1 DEF SprintStep, CreateSprint, StartProbe, CompleteRead, DeleteSprintRead, StartClaim,
       CompleteSweep, DeleteSprintUnassign, DeleteSprintDrop
  <2> QED
    BY <2>1
<1>2. CASE ColumnStep(r)
  BY <1>2 DEF ColumnStep, DeleteColumnCount, AddColumn, UpdateColumn
<1>3. CASE IssueStep(r)
  BY <1>3 DEF IssueStep, UpdateIssueRequest, CreateIssueRequest, MoveRead, UpdateIssueRead, CreateIssueRead
<1>4. CASE BulkStep(r)
  BY <1>4 DEF BulkStep, BulkDeleteRead, BulkUpdateRead
<1> QED
  BY <1>1, <1>2, <1>3, <1>4

(* The rows a step deletes. *)
LEMMA Drops ==
    ASSUME TypeOK, NEW r \in Request,
           BulkDeleteWrite(r) \/ \E i \in Issue : DeleteIssue(r, i)
    PROVE  \E S \in SUBSET Issue : DropIssues(S)
<1>1. req[r].rows \in SUBSET Issue
  BY DEF TypeOK, RequestRecord
<1> QED
  BY <1>1 DEF BulkDeleteWrite, DeleteIssue

(* What a write that sets only the references of rows does to one row:     *)
(* the row, its column and its stamp stay, and an empty row stays empty.   *)
RefsOnly(i) ==
    \/ /\ issue'[i].row = issue[i].row
       /\ issue'[i].column = issue[i].column
       /\ issue'[i].completed = issue[i].completed
       /\ ~IssueRow(i) => issue'[i] = issue[i]
    \/ issue'[i] = EmptyIssue("GONE")

LEMMA RewriteSprint ==
    ASSUME NEW rec \in IssueRecord, NEW s
    PROVE  LET new == [rec EXCEPT !.sprint = s]
           IN  new.row = rec.row /\ new.column = rec.column /\ new.completed = rec.completed
BY DEF IssueRecord

LEMMA RewriteSprintEpic ==
    ASSUME NEW rec \in IssueRecord, NEW s, NEW e
    PROVE  LET new == [rec EXCEPT !.sprint = s, !.epic = e]
           IN  new.row = rec.row /\ new.column = rec.column /\ new.completed = rec.completed
BY DEF IssueRecord

LEMMA RewriteParentEpic ==
    ASSUME NEW rec \in IssueRecord, NEW p, NEW e
    PROVE  LET new == [rec EXCEPT !.parent = p, !.epic = e]
           IN  new.row = rec.row /\ new.column = rec.column /\ new.completed = rec.completed
BY DEF IssueRecord

LEMMA EmptyFields ==
    ASSUME NEW state
    PROVE  /\ EmptyIssue(state).sprint = NULL /\ EmptyIssue(state).parent = NULL
           /\ EmptyIssue(state).epic = NULL /\ EmptyIssue(state).column = NULL
           /\ EmptyIssue(state).completed = FALSE /\ EmptyIssue(state).row = state
BY DEF EmptyIssue

(* A row that is still there after such a write has its column and stamp.  *)
LEMMA RefsKeepTheRest ==
    ASSUME NEW i \in Issue, RefsOnly(i), IssueRow(i)'
    PROVE  /\ issue'[i].row = issue[i].row /\ issue'[i].column = issue[i].column
           /\ issue'[i].completed = issue[i].completed
<1> DEFINE gone == EmptyIssue("GONE")
<1>1. gone.row # "LIVE"
  BY DEF EmptyIssue
<1>2. issue'[i].row = "LIVE" /\ (issue'[i] = gone => issue'[i].row = gone.row)
  BY DEF IssueRow
<1> HIDE DEF gone
<1>3. issue'[i] # gone
  BY <1>1, <1>2
<1> QED
  BY <1>3 DEF RefsOnly, gone

LEMMA SameIssue ==
    ASSUME NEW a \in IssueRecord, NEW b \in IssueRecord,
           a.row = b.row, a.column = b.column, a.sprint = b.sprint,
           a.parent = b.parent, a.epic = b.epic, a.completed = b.completed
    PROVE  a = b
BY DEF IssueRecord

LEMMA ClearedTwice ==
    ASSUME NEW rec \in IssueRecord
    PROVE  /\ rec.sprint = NULL => [rec EXCEPT !.sprint = NULL] = rec
           /\ rec.parent = NULL /\ rec.epic = NULL =>
                 [rec EXCEPT !.parent = NULL, !.epic = NULL] = rec
<1>1. ASSUME rec.sprint = NULL PROVE [rec EXCEPT !.sprint = NULL] = rec
  <2> DEFINE new == [rec EXCEPT !.sprint = NULL]
  <2>1. new \in IssueRecord
    BY UpdateSprintTyped
  <2>2. new.row = rec.row /\ new.column = rec.column /\ new.sprint = NULL
        /\ new.parent = rec.parent /\ new.epic = rec.epic /\ new.completed = rec.completed
    BY DEF IssueRecord
  <2> HIDE DEF new
  <2>3. new = rec
    BY <1>1, <2>1, <2>2, SameIssue
  <2> QED
    BY <2>3 DEF new
<1>2. ASSUME rec.parent = NULL, rec.epic = NULL
      PROVE  [rec EXCEPT !.parent = NULL, !.epic = NULL] = rec
  <2> DEFINE new == [rec EXCEPT !.parent = NULL, !.epic = NULL]
  <2>1. new \in IssueRecord
    BY UpdateParentEpic
  <2>2. new.row = rec.row /\ new.column = rec.column /\ new.sprint = rec.sprint
        /\ new.parent = NULL /\ new.epic = NULL /\ new.completed = rec.completed
    BY DEF IssueRecord
  <2> HIDE DEF new
  <2>3. new = rec
    BY <1>2, <2>1, <2>2, SameIssue
  <2> QED
    BY <2>3 DEF new
<1> QED
  BY <1>1, <1>2

LEMMA DeadRow ==
    ASSUME TypeOK, DeadRowsEmpty, NEW i \in Issue, ~IssueRow(i)
    PROVE  /\ issue[i].sprint = NULL /\ issue[i].parent = NULL /\ issue[i].epic = NULL
           /\ issue[i].completed = FALSE /\ issue[i].column = NULL
           /\ [issue[i] EXCEPT !.sprint = NULL] = issue[i]
           /\ [issue[i] EXCEPT !.parent = NULL, !.epic = NULL] = issue[i]
<1> DEFINE empty == EmptyIssue(issue[i].row)
<1>1. issue[i] = empty
  BY DEF DeadRowsEmpty
<1>2. issue[i] \in IssueRecord
  BY DEF TypeOK
<1>3. issue[i].sprint = NULL /\ issue[i].parent = NULL /\ issue[i].epic = NULL
      /\ issue[i].completed = FALSE /\ issue[i].column = NULL
  <2>1. empty.sprint = NULL /\ empty.parent = NULL /\ empty.epic = NULL
        /\ empty.completed = FALSE /\ empty.column = NULL
    BY EmptyFields
  <2> HIDE DEF empty
  <2> QED
    BY <1>1, <2>1
<1> DEFINE rec == issue[i]
<1>4. rec \in IssueRecord /\ rec.sprint = NULL /\ rec.parent = NULL /\ rec.epic = NULL
  BY <1>2, <1>3
<1> HIDE DEF rec
<1>5. [rec EXCEPT !.sprint = NULL] = rec /\ [rec EXCEPT !.parent = NULL, !.epic = NULL] = rec
  BY <1>4, ClearedTwice
<1> QED
  BY <1>3, <1>5 DEF rec

LEMMA ReferenceWrites ==
    ASSUME TypeOK, DeadRowsEmpty, NEW r \in Request, NEW i \in Issue,
           \/ UNCHANGED issue
           \/ \E s : ClearSprint(s)
           \/ CompleteFinish(r)
           \/ UpdateIssueWrite(r)
           \/ BulkUpdateWrite(r)
           \/ \E S \in SUBSET Issue : DropIssues(S)
    PROVE  RefsOnly(i)
<1> USE DEF RefsOnly
<1>1. issue[i] \in IssueRecord
  BY DEF TypeOK
<1>2. ~IssueRow(i) => [issue[i] EXCEPT !.sprint = NULL] = issue[i]
  BY DeadRow
<1>3. CASE issue'[i] = issue[i]
  BY <1>3
<1>4. CASE issue'[i] = [issue[i] EXCEPT !.sprint = NULL]
  BY <1>1, <1>2, <1>4, RewriteSprint
<1>5. ASSUME NEW s, ClearSprint(s) PROVE RefsOnly(i)
  BY <1>3, <1>4, <1>5 DEF ClearSprint
<1>6. CASE CompleteFinish(r)
  BY <1>3, <1>4, <1>6 DEF CompleteFinish
<1>7. CASE UpdateIssueWrite(r)
  <2>1. PICK j \in req[r].rows : \/ IssueRow(j) /\ issue' = [issue EXCEPT ![j] = Updated(r, j)]
                                 \/ UNCHANGED issue
    BY <1>7 DEF UpdateIssueWrite
  <2>2. CASE i = j /\ IssueRow(j) /\ issue' = [issue EXCEPT ![j] = Updated(r, j)]
    <3>1. issue'[i] = Updated(r, i)
      BY <2>2 DEF TypeOK
    <3> QED
      BY <1>1, <2>2, <3>1, RewriteSprintEpic DEF Updated
  <2> QED
    BY <1>3, <2>1, <2>2 DEF TypeOK
<1>8. CASE BulkUpdateWrite(r)
  <2>1. CASE IssueRow(i) /\ issue'[i] = [issue[i] EXCEPT !.sprint = Given(req[r].sprint, @)]
    BY <1>1, <2>1, RewriteSprint
  <2> QED
    BY <1>3, <1>8, <2>1 DEF BulkUpdateWrite
<1>9. ASSUME NEW S \in SUBSET Issue, DropIssues(S) PROVE RefsOnly(i)
  <2>1. CASE i \in S
    BY <1>9, <2>1 DEF DropIssues
  <2>2. CASE i \notin S
    <3> DEFINE p == Unless(S, issue[i].parent)
               e == Unless(S, issue[i].epic)
    <3>1. issue'[i] = [issue[i] EXCEPT !.parent = p, !.epic = e]
      BY <1>9, <2>2 DEF DropIssues
    <3>2. ~IssueRow(i) => p = NULL /\ e = NULL
      BY DeadRow DEF Unless
    <3> HIDE DEF p, e
    <3>3. ~IssueRow(i) => issue'[i] = issue[i]
      BY <3>1, <3>2, DeadRow
    <3> QED
      BY <1>1, <3>1, <3>3, RewriteParentEpic
  <2> QED
    BY <2>1, <2>2
<1> QED
  BY <1>3, <1>5, <1>6, <1>7, <1>8, <1>9

LEMMA MoveWrites ==
    ASSUME TypeOK, NEW r \in Request, NEW i \in Issue, MoveWrite(r)
    PROVE  \/ issue'[i] = issue[i]
           \/ /\ IssueRow(i) /\ issue'[i].row = issue[i].row
              /\ issue'[i].column = req[r].column /\ issue'[i].completed = req[r].done
<1>1. PICK j \in req[r].rows : \/ IssueRow(j) /\ issue' = [issue EXCEPT ![j] = Moved(r, j)]
                               \/ UNCHANGED issue
  BY DEF MoveWrite
<1>2. CASE i = j /\ IssueRow(j) /\ issue' = [issue EXCEPT ![j] = Moved(r, j)]
  <2>1. issue'[i] = Moved(r, i)
    BY <1>2 DEF TypeOK
  <2>2. Moved(r, i).row = issue[i].row /\ Moved(r, i).column = req[r].column
        /\ Moved(r, i).completed = req[r].done
    BY DEF Moved, TypeOK, IssueRecord
  <2> QED
    BY <1>2, <2>1, <2>2
<1> QED
  BY <1>1, <1>2 DEF TypeOK

LEMMA InsertWrites ==
    ASSUME TypeOK, NEW r \in Request, NEW i \in Issue, CreateIssueInsert(r)
    PROVE  issue'[i] = issue[i]
           \/ (i \in req[r].rows /\ issue'[i].row = "LIVE" /\ issue'[i].completed = FALSE)
<1>1. NewIssue(r).row = "LIVE" /\ NewIssue(r).completed = FALSE
  BY DEF NewIssue
<1> QED
  BY <1>1 DEF CreateIssueInsert

(* A column that goes takes the column of its issues with it, no more.     *)
LEMMA DropColumnRows ==
    ASSUME TypeOK, NEW r \in Request, NEW i \in Issue, DeleteColumnDrop(r)
    PROVE  issue'[i].row = issue[i].row /\ issue'[i].completed = issue[i].completed
<1>1. issue[i] \in IssueRecord
  BY DEF TypeOK
<1>2. issue'[i] = issue[i] \/ issue'[i] = [issue[i] EXCEPT !.column = NULL]
  BY DEF DeleteColumnDrop
<1> QED
  BY <1>1, <1>2 DEF IssueRecord

LEMMA DropColumnWrites ==
    ASSUME TypeOK, NEW r \in Request, NEW i \in Issue, DeleteColumnDrop(r),
           ColumnEmpty(req[r].column) \/ issue[i].column = NULL
    PROVE  issue'[i] = issue[i]
<1>1. CASE issue[i].column # req[r].column
  BY <1>1 DEF DeleteColumnDrop
<1>2. CASE issue[i].column = req[r].column
  <2>1. issue[i].column = NULL
    BY <1>2 DEF ColumnEmpty, IssuesOn
  <2> DEFINE rec == issue[i]
             new == [rec EXCEPT !.column = NULL]
  <2>2. rec \in IssueRecord /\ rec.column = NULL
    BY <2>1 DEF TypeOK
  <2>3. new = rec
    BY <2>2 DEF IssueRecord
  <2> QED
    BY <2>3 DEF DeleteColumnDrop
<1> QED
  BY <1>1, <1>2

LEMMA DeadInductive ==
    ASSUME TypeOK, TypeOK', DeadRowsEmpty, NEW r \in Request,
           SprintStep(r) \/ ColumnStep(r) \/ IssueStep(r) \/ BulkStep(r)
    PROVE  DeadRowsEmpty'
<1> SUFFICES ASSUME NEW i \in Issue, ~IssueRow(i)'
             PROVE  (issue[i] = EmptyIssue(issue[i].row))'
  BY DEF DeadRowsEmpty
<1>1. CASE issue'[i] = issue[i]
  BY <1>1 DEF DeadRowsEmpty, IssueRow
<1>2. CASE RefsOnly(i)
  BY <1>1, <1>2, EmptyFields DEF RefsOnly, IssueRow
<1>3. CASE MoveWrite(r)
  BY <1>1, <1>3, MoveWrites DEF IssueRow
<1>4. CASE CreateIssueInsert(r)
  BY <1>1, <1>4, InsertWrites DEF IssueRow
<1>5. CASE DeleteColumnDrop(r)
  <2>1. issue'[i].row = issue[i].row
    BY <1>5, DropColumnRows
  <2>2. ~IssueRow(i)
    BY <2>1 DEF IssueRow
  <2>3. issue[i].column = NULL
    BY <2>2, DeadRow
  <2> QED
    BY <1>1, <1>5, <2>3, DropColumnWrites
<1> QED
  BY <1>2, <1>3, <1>4, <1>5, IssueWriters, ReferenceWrites, Drops

(* Only an insert takes an id out of UNUSED, and no step puts one back.    *)
LEMMA UsedForEver ==
    ASSUME RowsInv, NEW r \in Request, NEW i \in Issue,
           SprintStep(r) \/ ColumnStep(r) \/ IssueStep(r) \/ BulkStep(r)
    PROVE  /\ issue[i].row # "UNUSED" => issue'[i].row # "UNUSED"
           /\ issue[i].row = "UNUSED" =>
                 issue'[i].row = "UNUSED" \/ (At(r, "insert") /\ i \in req[r].rows)
<1> DEFINE Goal == /\ issue[i].row # "UNUSED" => issue'[i].row # "UNUSED"
                   /\ issue[i].row = "UNUSED" =>
                         issue'[i].row = "UNUSED" \/ (At(r, "insert") /\ i \in req[r].rows)
<1>1. TypeOK /\ DeadRowsEmpty
  BY DEF RowsInv
<1>2. CASE issue'[i].row = issue[i].row
  BY <1>2
<1>3. CASE CreateIssueInsert(r)
  <2>1. issue'[i] = issue[i] \/ (i \in req[r].rows /\ issue'[i].row = "LIVE")
    BY <1>1, <1>3, InsertWrites
  <2> QED
    BY <1>2, <1>3, <2>1 DEF CreateIssueInsert
<1>4. ASSUME NEW S \in SUBSET Issue, DropIssues(S), \A j \in S : issue[j].row # "UNUSED"
      PROVE  Goal
  <2>1. CASE i \in S
    <3>1. issue'[i] = EmptyIssue("GONE")
      BY <1>4, <2>1 DEF DropIssues
    <3>2. issue'[i].row = "GONE"
      BY <3>1, EmptyFields
    <3> QED
      BY <1>4, <2>1, <3>2
  <2>2. CASE i \notin S
    <3>1. issue[i] \in IssueRecord
      BY <1>1 DEF TypeOK
    <3>2. issue'[i] = [issue[i] EXCEPT !.parent = Unless(S, @), !.epic = Unless(S, @)]
      BY <1>4, <2>2 DEF DropIssues
    <3> QED
      BY <1>2, <3>1, <3>2, RewriteParentEpic
  <2> QED
    BY <2>1, <2>2
<1>5. CASE BulkDeleteWrite(r)
  <2>1. req[r].rows \in SUBSET Issue
    BY <1>1 DEF TypeOK, RequestRecord
  <2>2. \A j \in req[r].rows : issue[j].row # "UNUSED"
    BY <1>5 DEF BulkDeleteWrite, RowsInv, Reserved
  <2> QED
    BY <1>4, <1>5, <2>1, <2>2 DEF BulkDeleteWrite
<1>6. ASSUME NEW j \in Issue, DeleteIssue(r, j) PROVE Goal
  BY <1>4, <1>6 DEF DeleteIssue, IssueRow
<1>7. CASE MoveWrite(r)
  BY <1>1, <1>2, <1>7, MoveWrites
<1>8. CASE DeleteColumnDrop(r)
  BY <1>1, <1>2, <1>8, DropColumnRows
<1>9. CASE \/ UNCHANGED issue \/ (\E s : ClearSprint(s)) \/ CompleteFinish(r)
           \/ UpdateIssueWrite(r) \/ BulkUpdateWrite(r)
  <2>1. issue[i] \in IssueRecord
    BY <1>1 DEF TypeOK
  <2>2. CASE issue'[i] = [issue[i] EXCEPT !.sprint = NULL]
    BY <1>2, <2>1, <2>2, RewriteSprint
  <2>3. CASE issue'[i] = issue[i]
    BY <1>2, <2>3
  <2>4. CASE UpdateIssueWrite(r)
    <3>1. PICK j \in req[r].rows : issue' = [issue EXCEPT ![j] = Updated(r, j)] \/ UNCHANGED issue
      BY <2>4 DEF UpdateIssueWrite
    <3>2. CASE i = j /\ issue' = [issue EXCEPT ![j] = Updated(r, j)]
      <4>1. issue'[i] = Updated(r, i)
        BY <1>1, <3>2 DEF TypeOK
      <4> QED
        BY <1>2, <2>1, <4>1, RewriteSprintEpic DEF Updated
    <3> QED
      BY <1>1, <2>3, <3>1, <3>2 DEF TypeOK
  <2>5. CASE BulkUpdateWrite(r)
    <3>1. CASE issue'[i] = [issue[i] EXCEPT !.sprint = Given(req[r].sprint, @)]
      BY <1>2, <2>1, <3>1, RewriteSprint
    <3> QED
      BY <2>3, <2>5, <3>1 DEF BulkUpdateWrite
  <2>6. ASSUME NEW s, ClearSprint(s) PROVE Goal
    BY <2>2, <2>3, <2>6 DEF ClearSprint
  <2> QED
    BY <1>9, <2>2, <2>3, <2>4, <2>5, <2>6 DEF CompleteFinish
<1> QED
  BY <1>1, <1>3, <1>5, <1>6, <1>7, <1>8, <1>9, IssueWriters

(* A step touches no request but its own. *)
LEMMA OwnStep ==
    ASSUME TypeOK, NEW r \in Request,
           SprintStep(r) \/ ColumnStep(r) \/ IssueStep(r) \/ BulkStep(r)
    PROVE  \A q \in Request \ {r} : req'[q] = req[q]
<1>1. CASE ~StartClaim(r) /\ ~\E s \in Sprint : StartProbe(r, s)
  BY <1>1, StartsElsewhere
<1>2. CASE StartClaim(r)
  BY <1>2 DEF StartClaim, Leave, TypeOK
<1>3. ASSUME NEW s \in Sprint, StartProbe(r, s) PROVE \A q \in Request \ {r} : req'[q] = req[q]
  BY <1>3, Entered DEF StartProbe
<1> QED
  BY <1>1, <1>2, <1>3

(* What a request has reserved when it enters a handler. *)
Takes(r) ==
    /\ req'[r].pc = "insert" => \A i \in req'[r].rows :
          /\ issue'[i].row = "UNUSED"
          /\ \A q \in Request : At(q, "insert") => i \notin req[q].rows
    /\ req'[r].pc = "bulkDelete" => \A i \in req'[r].rows : issue'[i].row # "UNUSED"
    /\ req'[r].pc = "moveWrite" => req'[r].column \in Column

LEMMA TakesNothing ==
    ASSUME NEW r \in Request, req'[r].pc \notin {"insert", "bulkDelete", "moveWrite"}
    PROVE  Takes(r)
BY DEF Takes

LEMMA TakesLeaving ==
    ASSUME TypeOK, NEW r \in Request, Leave(r) \/ (IsIdle(r) /\ UNCHANGED req)
    PROVE  Takes(r)
<1>1. req'[r].pc = "idle"
  BY DEF TypeOK, Leave, Idle, IsIdle
<1> QED
  BY <1>1, TakesNothing

LEMMA SprintStepTakes ==
    ASSUME TypeOK, NEW r \in Request, SprintStep(r)
    PROVE  Takes(r)
<1>1. ASSUME NEW s \in Sprint, CreateSprint(r, s) PROVE Takes(r)
  BY <1>1, TakesLeaving DEF CreateSprint
<1>2. ASSUME NEW s \in Sprint, StartProbe(r, s) \/ CompleteRead(r, s) \/ DeleteSprintRead(r, s)
      PROVE  Takes(r)
  <2>1. /\ [Idle EXCEPT !.pc = "startClaim", !.sprint = s].pc = "startClaim"
        /\ [Idle EXCEPT !.pc = "completeSweep", !.sprint = s].pc = "completeSweep"
        /\ [Idle EXCEPT !.pc = "unassign", !.sprint = s].pc = "unassign"
    BY DEF Idle
  <2>2. req'[r].pc \in {"startClaim", "completeSweep", "unassign"}
    BY <1>2, <2>1, Entered DEF StartProbe, CompleteRead, DeleteSprintRead
  <2> QED
    BY <2>2, TakesNothing
<1>3. CASE CompleteSweep(r)
  <2>1. [Idle EXCEPT !.pc = "completeFinish", !.sprint = req[r].sprint,
                     !.rows = Sweepable(req[r].sprint)].pc = "completeFinish"
    BY DEF Idle
  <2>2. req'[r].pc = "completeFinish"
    BY <1>3, <2>1, Entered DEF CompleteSweep
  <2> QED
    BY <2>2, TakesNothing
<1>4. CASE DeleteSprintUnassign(r)
  <2>1. [Idle EXCEPT !.pc = "dropSprint", !.sprint = req[r].sprint].pc = "dropSprint"
    BY DEF Idle
  <2>2. req'[r].pc = "dropSprint"
    BY <1>4, <2>1, Entered DEF DeleteSprintUnassign
  <2> QED
    BY <2>2, TakesNothing
<1>5. CASE StartClaim(r) \/ CompleteFinish(r) \/ DeleteSprintDrop(r)
  BY <1>5, TakesLeaving DEF StartClaim, CompleteFinish, DeleteSprintDrop
<1> QED
  BY <1>1, <1>2, <1>3, <1>4, <1>5 DEF SprintStep

LEMMA ColumnStepTakes ==
    ASSUME TypeOK, NEW r \in Request, ColumnStep(r)
    PROVE  Takes(r)
<1>1. ASSUME NEW c \in Column, DeleteColumnCount(r, c) PROVE Takes(r)
  <2>1. [Idle EXCEPT !.pc = "dropColumn", !.column = c].pc = "dropColumn"
    BY DEF Idle
  <2>2. req'[r].pc = "dropColumn"
    BY <1>1, <2>1, Entered DEF DeleteColumnCount
  <2> QED
    BY <2>2, TakesNothing
<1>2. ASSUME NEW c, NEW cat, AddColumn(r, c, cat) \/ UpdateColumn(r, c, cat)
      PROVE  Takes(r)
  BY <1>2, TakesLeaving DEF AddColumn, UpdateColumn
<1>3. CASE DeleteColumnDrop(r)
  BY <1>3, TakesLeaving DEF DeleteColumnDrop
<1> QED
  BY <1>1, <1>2, <1>3 DEF ColumnStep

LEMMA IssueStepTakes ==
    ASSUME TypeOK, NEW r \in Request, IssueStep(r)
    PROVE  Takes(r)
<1>1. ASSUME NEW i \in Issue, DeleteIssue(r, i) PROVE Takes(r)
  BY <1>1, TakesLeaving DEF DeleteIssue
<1>2. ASSUME NEW i \in Issue, NEW c \in Column, MoveRead(r, i, c) PROVE Takes(r)
  <2> DEFINE rec == [Idle EXCEPT !.pc = "moveWrite", !.rows = {i}, !.column = c, !.done = Closes(c)]
  <2>1. rec.pc = "moveWrite" /\ rec.column = c
    BY DEF Idle
  <2>2. Enter(r, rec)
    BY <1>2 DEF MoveRead
  <2> HIDE DEF rec
  <2> QED
    BY <2>1, <2>2, Entered DEF Takes
<1>3. ASSUME NEW i, NEW s, NEW e, UpdateIssueRead(r, i, s, e) PROVE Takes(r)
  <2>1. [Idle EXCEPT !.pc = "updateWrite", !.rows = {i}, !.sprint = s, !.epic = e].pc = "updateWrite"
    BY DEF Idle
  <2>2. req'[r].pc = "updateWrite"
    BY <1>3, <2>1, Entered DEF UpdateIssueRead
  <2> QED
    BY <2>2, TakesNothing
<1>4. ASSUME NEW i \in Issue, NEW s, NEW e, NEW p, NEW c, CreateIssueRead(r, i, s, e, p, c)
      PROVE  Takes(r)
  <2> DEFINE rec == [Idle EXCEPT !.pc = "insert", !.rows = {i}, !.sprint = s,
                                 !.epic = e, !.parent = p, !.column = c]
  <2>1. rec.pc = "insert" /\ rec.rows = {i}
    BY DEF Idle
  <2>2. Enter(r, rec) /\ FreshId(i) /\ UNCHANGED issue
    BY <1>4 DEF CreateIssueRead
  <2> HIDE DEF rec
  <2>3. req'[r] = rec
    BY <2>2, Entered
  <2>4. issue'[i].row = "UNUSED" /\ \A q \in Request : At(q, "insert") => i \notin req[q].rows
    BY <2>2 DEF FreshId
  <2> QED
    BY <2>1, <2>3, <2>4 DEF Takes
<1>5. CASE CreateIssueInsert(r) \/ UpdateIssueWrite(r) \/ MoveWrite(r)
  BY <1>5, TakesLeaving DEF CreateIssueInsert, UpdateIssueWrite, MoveWrite
<1> QED
  BY <1>1, <1>2, <1>3, <1>4, <1>5 DEF IssueStep, UpdateIssueRequest, CreateIssueRequest

LEMMA BulkStepTakes ==
    ASSUME TypeOK, NEW r \in Request, BulkStep(r)
    PROVE  Takes(r)
<1>1. ASSUME NEW S \in SUBSET Issue, BulkDeleteRead(r, S) PROVE Takes(r)
  <2> DEFINE rec == [Idle EXCEPT !.pc = "bulkDelete", !.rows = S]
  <2>1. rec.pc = "bulkDelete" /\ rec.rows = S
    BY DEF Idle
  <2>2. Enter(r, rec) /\ UNCHANGED issue /\ \A i \in S : issue[i].row # "UNUSED"
    BY <1>1 DEF BulkDeleteRead, IssueRow
  <2> HIDE DEF rec
  <2> QED
    BY <2>1, <2>2, Entered DEF Takes
<1>2. ASSUME NEW S, NEW s, BulkUpdateRead(r, S, s) PROVE Takes(r)
  <2>1. [Idle EXCEPT !.pc = "bulkWrite", !.rows = S, !.sprint = s].pc = "bulkWrite"
    BY DEF Idle
  <2>2. req'[r].pc = "bulkWrite"
    BY <1>2, <2>1, Entered DEF BulkUpdateRead
  <2> QED
    BY <2>2, TakesNothing
<1>3. CASE BulkUpdateWrite(r) \/ BulkDeleteWrite(r)
  BY <1>3, TakesLeaving DEF BulkUpdateWrite, BulkDeleteWrite
<1> QED
  BY <1>1, <1>2, <1>3 DEF BulkStep

LEMMA ReservedInductive ==
    ASSUME RowsInv, TypeOK', NEW r \in Request,
           SprintStep(r) \/ ColumnStep(r) \/ IssueStep(r) \/ BulkStep(r)
    PROVE  Reserved'
<1>1. TypeOK
  BY DEF RowsInv
<1>2. Takes(r)
  BY <1>1, SprintStepTakes, ColumnStepTakes, IssueStepTakes, BulkStepTakes
<1>3. \A q \in Request \ {r} : req'[q] = req[q]
  BY <1>1, OwnStep
<1>4. \A q \in Request : req[q].rows \in SUBSET Issue /\ req'[q].rows \in SUBSET Issue
  BY <1>1 DEF TypeOK, RequestRecord
<1>5. ASSUME NEW q \in Request, req'[q].pc = "moveWrite" PROVE req'[q].column \in Column
  BY <1>2, <1>3, <1>5 DEF Takes, RowsInv, Reserved, At
<1>6. ASSUME NEW q \in Request, req'[q].pc = "bulkDelete", NEW i \in req'[q].rows
      PROVE  issue'[i].row # "UNUSED"
  <2>1. CASE q = r
    BY <1>2, <1>6, <2>1 DEF Takes
  <2>2. CASE q # r
    <3>1. i \in Issue /\ issue[i].row # "UNUSED"
      BY <1>3, <1>4, <1>6, <2>2 DEF RowsInv, Reserved, At
    <3> QED
      BY <3>1, UsedForEver
  <2> QED
    BY <2>1, <2>2
<1>7. ASSUME NEW q \in Request, req'[q].pc = "insert", NEW i \in req'[q].rows
      PROVE  issue'[i].row = "UNUSED"
  <2>1. CASE q = r
    BY <1>2, <1>7, <2>1 DEF Takes
  <2>2. CASE q # r
    <3>1. At(q, "insert") /\ i \in req[q].rows /\ i \in Issue
      BY <1>3, <1>4, <1>7, <2>2 DEF At
    <3>2. issue[i].row = "UNUSED" /\ (At(r, "insert") => i \notin req[r].rows)
      BY <2>2, <3>1 DEF RowsInv, Reserved
    <3> QED
      BY <3>1, <3>2, UsedForEver
  <2> QED
    BY <2>1, <2>2
<1>8. ASSUME NEW p \in Request, NEW q \in Request, p # q,
             req'[p].pc = "insert", req'[q].pc = "insert", NEW i \in req'[p].rows
      PROVE  i \notin req'[q].rows
  <2>1. CASE p = r
    <3>1. At(q, "insert") /\ req'[q] = req[q]
      BY <1>3, <1>8, <2>1 DEF At
    <3> QED
      BY <1>2, <1>8, <2>1, <3>1 DEF Takes
  <2>2. CASE q = r
    <3>1. At(p, "insert") /\ req'[p] = req[p]
      BY <1>3, <1>8, <2>2 DEF At
    <3> QED
      BY <1>2, <1>8, <2>2, <3>1 DEF Takes
  <2>3. CASE p # r /\ q # r
    <3>1. At(p, "insert") /\ At(q, "insert") /\ req'[p] = req[p] /\ req'[q] = req[q]
      BY <1>3, <1>8, <2>3 DEF At
    <3> QED
      BY <1>8, <3>1 DEF RowsInv, Reserved
  <2> QED
    BY <2>1, <2>2, <2>3
<1> QED
  BY <1>5, <1>6, <1>7, <1>8 DEF Reserved, At

LEMMA RowsInit == Init => RowsInv
<1>1. Idle.pc = "idle"
  BY DEF Idle
<1>2. Init => TypeOK
  BY BoardInvInit DEF BoardInv
<1>3. Init => DeadRowsEmpty
  <2> SUFFICES ASSUME Init, NEW i \in Issue PROVE issue[i] = EmptyIssue(issue[i].row)
    BY DEF DeadRowsEmpty
  <2>1. issue[i] = EmptyIssue("UNUSED")
    BY DEF Init
  <2>2. EmptyIssue("UNUSED").row = "UNUSED"
    BY EmptyFields
  <2> QED
    BY <2>1, <2>2
<1>4. Init => Reserved
  BY <1>1 DEF Init, Reserved, At
<1> QED
  BY <1>2, <1>3, <1>4 DEF RowsInv

LEMMA RowsInductive == RowsInv /\ [Next]_vars => RowsInv'
<1> SUFFICES ASSUME RowsInv, [Next]_vars PROVE RowsInv'
  OBVIOUS
<1>1. TypeOK /\ TypeOK'
  BY TypeInductive DEF RowsInv
<1>2. CASE UNCHANGED vars
  <2>1. DeadRowsEmpty'
    BY <1>2 DEF vars, RowsInv, DeadRowsEmpty, IssueRow
  <2>2. Reserved'
    BY <1>2 DEF vars, RowsInv, Reserved, At
  <2> QED
    BY <1>1, <2>1, <2>2 DEF RowsInv
<1>3. CASE Next
  <2>1. PICK r \in Request : SprintStep(r) \/ ColumnStep(r) \/ IssueStep(r) \/ BulkStep(r)
    BY <1>3 DEF Next
  <2> QED
    BY <1>1, <2>1, DeadInductive, ReservedInductive DEF RowsInv
<1> QED
  BY <1>2, <1>3

-----------------------------------------------------------------------------
(* What a request has read still holds: Current(req[r]).                   *)

Atomically == Atomic!Next \/ UNCHANGED <<sprint, column, issue>>

LEMMA IdleCurrent == ASSUME NEW rec, rec.pc = "idle" PROVE Current(rec)
BY DEF Current

LEMMA LeaveCurrent ==
    ASSUME TypeOK, NEW r \in Request, Leave(r)
    PROVE  Current(req[r])'
BY DEF TypeOK, Leave, Idle, Current

LEMMA StayCurrent ==
    ASSUME NEW r \in Request, IsIdle(r), UNCHANGED req
    PROVE  Current(req[r])'
BY DEF IsIdle, Current

(* A read changes no table, so what it found holds afterwards. *)
LEMMA SameTables ==
    ASSUME NEW rec, UNCHANGED <<sprint, column, issue>>, Current(rec)
    PROVE  Current(rec)'
<1>1. rec.pc = "startClaim" => rec.sprint \in Sprint /\ NoActiveSprint(rec.sprint)'
  BY DEF Current, NoActiveSprint
<1>2. rec.pc = "completeSweep" => rec.sprint \in Sprint /\ Completable(rec.sprint)'
  BY DEF Current, Completable
<1>3. rec.pc = "completeFinish" => /\ rec.sprint \in Sprint /\ Completable(rec.sprint)'
                                   /\ rec.rows = Sweepable(rec.sprint)'
  BY DEF Current, Completable, Sweepable, IssueRow, Unfinished
<1>4. rec.pc = "unassign" => rec.sprint \in Sprint /\ SprintRow(rec.sprint)'
  BY DEF Current, SprintRow
<1>5. rec.pc = "dropSprint" => /\ rec.sprint \in Sprint /\ SprintRow(rec.sprint)'
                               /\ (IssuesIn(rec.sprint))' = {}
  BY DEF Current, SprintRow, IssuesIn
<1>6. rec.pc = "dropColumn" => /\ rec.column \in Column /\ ColumnRow(rec.column)'
                               /\ ColumnEmpty(rec.column)'
  BY DEF Current, ColumnRow, ColumnEmpty, IssuesOn
<1>7. \A p : (FirstColumns(p))' = FirstColumns(p)
  BY DEF FirstColumns, ColumnsOf, ColumnRow
<1>8. rec.pc = "insert" => \E i \in Issue :
          /\ rec.rows = {i} /\ issue'[i].row = "UNUSED"
          /\ rec.column \in (FirstColumns(IssueProject[i]))'
          /\ SprintInProject(rec.sprint, IssueProject[i])'
          /\ IssueInProject(rec.epic, IssueProject[i])'
          /\ IssueInProject(rec.parent, IssueProject[i])'
  BY <1>7 DEF Current, SprintInProject, SprintRow, IssueInProject, IssueRow
<1>9. rec.pc = "updateWrite" => \E i \in Issue :
          /\ rec.rows = {i} /\ IssueRow(i)'
          /\ SprintInProject(rec.sprint, IssueProject[i])'
          /\ IssueInProject(rec.epic, IssueProject[i])'
  BY DEF Current, SprintInProject, SprintRow, IssueInProject, IssueRow
<1>10. rec.pc = "moveWrite" => \E i \in Issue :
          /\ rec.rows = {i} /\ IssueRow(i)'
          /\ rec.column \in Column /\ ColumnInProject(rec.column, IssueProject[i])'
          /\ rec.done = Closes(rec.column)'
  BY DEF Current, IssueRow, ColumnInProject, ColumnRow, Closes
<1>11. rec.pc = "bulkWrite" => /\ \A i \in rec.rows : IssueRow(i)'
                               /\ SprintCovers(rec.rows, rec.sprint)'
  BY DEF Current, IssueRow, SprintCovers, SprintRow
<1>12. rec.pc = "bulkDelete" => \A i \in rec.rows : IssueRow(i)'
  BY DEF Current, IssueRow
<1> QED
  BY <1>1, <1>2, <1>3, <1>4, <1>5, <1>6, <1>8, <1>9, <1>10, <1>11, <1>12 DEF Current

LEMMA ReadCurrent ==
    ASSUME TypeOK, NEW r \in Request, NEW rec, Enter(r, rec), Current(rec),
           UNCHANGED <<sprint, column, issue>>
    PROVE  Current(req[r])' /\ Atomically
<1>1. req'[r] = rec
  BY Entered
<1>2. Current(rec)'
  BY SameTables
<1> QED
  BY <1>1, <1>2 DEF Current, Atomically

LEMMA SprintReadsCurrent ==
    ASSUME TypeOK, NEW r \in Request, NEW s \in Sprint,
           StartProbe(r, s) \/ CompleteRead(r, s) \/ DeleteSprintRead(r, s)
    PROVE  Current(req[r])' /\ Atomically
<1>1. CASE StartProbe(r, s)
  <2> DEFINE rec == [Idle EXCEPT !.pc = "startClaim", !.sprint = s]
  <2>1. rec.pc = "startClaim" /\ rec.sprint = s
    BY DEF Idle
  <2>2. Enter(r, rec) /\ NoActiveSprint(s) /\ UNCHANGED <<sprint, column, issue>>
    BY <1>1 DEF StartProbe
  <2> HIDE DEF rec
  <2>3. Current(rec)
    BY <2>1, <2>2 DEF Current
  <2> QED
    BY <2>2, <2>3, ReadCurrent
<1>2. CASE CompleteRead(r, s)
  <2> DEFINE rec == [Idle EXCEPT !.pc = "completeSweep", !.sprint = s]
  <2>1. rec.pc = "completeSweep" /\ rec.sprint = s
    BY DEF Idle
  <2>2. Enter(r, rec) /\ Completable(s) /\ UNCHANGED <<sprint, column, issue>>
    BY <1>2 DEF CompleteRead
  <2> HIDE DEF rec
  <2>3. Current(rec)
    BY <2>1, <2>2 DEF Current
  <2> QED
    BY <2>2, <2>3, ReadCurrent
<1>3. CASE DeleteSprintRead(r, s)
  <2> DEFINE rec == [Idle EXCEPT !.pc = "unassign", !.sprint = s]
  <2>1. rec.pc = "unassign" /\ rec.sprint = s
    BY DEF Idle
  <2>2. Enter(r, rec) /\ SprintRow(s) /\ UNCHANGED <<sprint, column, issue>>
    BY <1>3 DEF DeleteSprintRead
  <2> HIDE DEF rec
  <2>3. Current(rec)
    BY <2>1, <2>2 DEF Current
  <2> QED
    BY <2>2, <2>3, ReadCurrent
<1> QED
  BY <1>1, <1>2, <1>3

(* start(), complete() and delete() of a sprint do at once what they do.   *)
LEMMA SprintStepAtomic ==
    ASSUME TypeOK, NEW r \in Request, Current(req[r]), SprintStep(r)
    PROVE  Current(req[r])' /\ Atomically
<1>1. ASSUME NEW s \in Sprint, CreateSprint(r, s) PROVE Current(req[r])' /\ Atomically
  <2>1. Atomic!Plan(s)
    BY <1>1 DEF CreateSprint, Atomic!Plan
  <2> QED
    BY <1>1, <2>1, StayCurrent DEF CreateSprint, Atomically, Atomic!Next
<1>2. CASE StartClaim(r)
  <2> DEFINE s == req[r].sprint
  <2>1. s \in Sprint /\ NoActiveSprint(s)
    BY <1>2 DEF StartClaim, At, Current
  <2>2. Claimable(s) => Atomic!Start(s)
    BY <1>2, <2>1 DEF StartClaim, Claimable, NoActiveSprint, Atomic!Start
  <2>3. ~Claimable(s) => UNCHANGED <<sprint, column, issue>>
    BY <1>2 DEF StartClaim
  <2> QED
    BY <1>2, <2>1, <2>2, <2>3, LeaveCurrent DEF StartClaim, Atomically, Atomic!Next
<1>3. CASE CompleteSweep(r)
  <2> DEFINE s == req[r].sprint
             rec == [Idle EXCEPT !.pc = "completeFinish", !.sprint = s, !.rows = Sweepable(s)]
  <2>1. s \in Sprint /\ Completable(s)
    BY <1>3 DEF CompleteSweep, At, Current
  <2>2. rec.pc = "completeFinish" /\ rec.sprint = s /\ rec.rows = Sweepable(s)
    BY DEF Idle
  <2>3. Enter(r, rec) /\ UNCHANGED <<sprint, column, issue>>
    BY <1>3 DEF CompleteSweep
  <2> HIDE DEF rec
  <2>4. Current(rec)
    BY <2>1, <2>2 DEF Current
  <2> QED
    BY <2>3, <2>4, ReadCurrent
<1>4. CASE CompleteFinish(r)
  <2> DEFINE s == req[r].sprint
  <2>1. s \in Sprint /\ sprint[s] = "ACTIVE" /\ req[r].rows = Sweepable(s)
    BY <1>4 DEF CompleteFinish, At, Current, Completable
  <2>2. /\ sprint' = [sprint EXCEPT ![s] = "COMPLETED"]
        /\ issue' = [i \in Issue |-> IF i \in Sweepable(s) THEN [issue[i] EXCEPT !.sprint = NULL]
                                     ELSE issue[i]]
        /\ UNCHANGED column
    BY <1>4, <2>1 DEF CompleteFinish, SprintRow, SprintStatus
  <2>3. Atomic!Complete(s)
    BY <2>1, <2>2 DEF Sweepable, IssueRow, Unfinished, Atomic!Complete, Atomic!LeaveSprint, Atomic!Live
  <2> QED
    BY <1>4, <2>1, <2>3, LeaveCurrent DEF CompleteFinish, Atomically, Atomic!Next
<1>5. CASE DeleteSprintUnassign(r)
  <2> DEFINE s == req[r].sprint
             rec == [Idle EXCEPT !.pc = "dropSprint", !.sprint = s]
  <2>1. s \in Sprint /\ SprintRow(s)
    BY <1>5 DEF DeleteSprintUnassign, At, Current
  <2>2. rec.pc = "dropSprint" /\ rec.sprint = s
    BY DEF Idle
  <2>3. Enter(r, rec) /\ ClearSprint(s) /\ UNCHANGED <<sprint, column>>
    BY <1>5 DEF DeleteSprintUnassign
  <2>4. Atomic!EmptySprint(s)
    BY <2>1, <2>3 DEF SprintRow, SprintStatus, ClearSprint, Atomic!EmptySprint, Atomic!SprintRow,
                      Atomic!LeaveSprint
  <2>5. ASSUME NEW i \in Issue PROVE issue'[i].sprint # s
    <3>1. issue[i] \in IssueRecord /\ s # NULL
      BY <2>1 DEF TypeOK
    <3>2. [issue[i] EXCEPT !.sprint = NULL].sprint = NULL
      BY <3>1 DEF IssueRecord
    <3> QED
      BY <2>3, <3>1, <3>2 DEF ClearSprint
  <2> HIDE DEF rec
  <2>6. req'[r] = rec
    BY <2>3, Entered
  <2>7. SprintRow(s)' /\ (IssuesIn(s))' = {}
    BY <2>1, <2>2, <2>3, <2>5, <2>6 DEF SprintRow, IssuesIn
  <2>8. Current(req[r])'
    BY <2>1, <2>2, <2>6, <2>7 DEF Current
  <2> QED
    BY <2>1, <2>4, <2>8 DEF Atomically, Atomic!Next
<1>6. CASE DeleteSprintDrop(r)
  <2> DEFINE s == req[r].sprint
  <2>1. s \in Sprint /\ SprintRow(s) /\ IssuesIn(s) = {}
    BY <1>6 DEF DeleteSprintDrop, At, Current
  <2>2. sprint' = [sprint EXCEPT ![s] = "GONE"] /\ ClearSprint(s) /\ UNCHANGED column
    BY <1>6, <2>1 DEF DeleteSprintDrop
  <2>3. \A i \in Issue : issue[i].sprint # s
    BY <2>1 DEF IssuesIn
  <2>4. UNCHANGED issue
    BY <2>2, <2>3 DEF TypeOK, ClearSprint
  <2>5. Atomic!DropSprint(s)
    BY <2>1, <2>2, <2>3, <2>4 DEF SprintRow, SprintStatus, Atomic!DropSprint, Atomic!SprintRow
  <2> QED
    BY <1>6, <2>1, <2>5, LeaveCurrent DEF DeleteSprintDrop, Atomically, Atomic!Next
<1> QED
  BY <1>1, <1>2, <1>3, <1>4, <1>5, <1>6, SprintReadsCurrent DEF SprintStep

(* A column that is dropped is empty: no card loses its column with it.    *)
LEMMA ColumnStepAtomic ==
    ASSUME TypeOK, NEW r \in Request, Current(req[r]), ColumnStep(r)
    PROVE  Current(req[r])' /\ Atomically
<1>1. ASSUME NEW c \in Column, DeleteColumnCount(r, c) PROVE Current(req[r])' /\ Atomically
  <2> DEFINE rec == [Idle EXCEPT !.pc = "dropColumn", !.column = c]
  <2>1. rec.pc = "dropColumn" /\ rec.column = c
    BY DEF Idle
  <2>2. Enter(r, rec) /\ ColumnRow(c) /\ ColumnEmpty(c) /\ UNCHANGED <<sprint, column, issue>>
    BY <1>1 DEF DeleteColumnCount
  <2> HIDE DEF rec
  <2>3. Current(rec)
    BY <2>1, <2>2 DEF Current
  <2> QED
    BY <2>2, <2>3, ReadCurrent
<1>2. ASSUME NEW c \in Column, NEW cat \in Category, AddColumn(r, c, cat) \/ UpdateColumn(r, c, cat)
      PROVE  Current(req[r])' /\ Atomically
  <2>1. column[c] # "GONE"
    BY <1>2 DEF AddColumn, UpdateColumn, ColumnRow
  <2>2. Atomic!PutColumn(c, cat)
    BY <1>2, <2>1 DEF AddColumn, UpdateColumn, Atomic!PutColumn
  <2> QED
    BY <1>2, <2>2, StayCurrent DEF AddColumn, UpdateColumn, Atomically, Atomic!Next
<1>3. CASE DeleteColumnDrop(r)
  <2> DEFINE c == req[r].column
  <2>1. c \in Column /\ ColumnRow(c) /\ ColumnEmpty(c)
    BY <1>3 DEF DeleteColumnDrop, At, Current
  <2>2. /\ column' = [column EXCEPT ![c] = "GONE"]
        /\ issue' = [i \in Issue |-> IF issue[i].column = c THEN [issue[i] EXCEPT !.column = NULL]
                                     ELSE issue[i]]
        /\ UNCHANGED sprint
    BY <1>3, <2>1 DEF DeleteColumnDrop
  <2>3. \A i \in Issue : issue[i].column # c
    BY <2>1 DEF ColumnEmpty, IssuesOn
  <2>4. UNCHANGED issue
    BY <2>2, <2>3 DEF TypeOK
  <2>5. Atomic!DropColumn(c)
    BY <2>1, <2>2, <2>3, <2>4 DEF ColumnRow, Atomic!DropColumn
  <2> QED
    BY <1>3, <2>1, <2>5, LeaveCurrent DEF DeleteColumnDrop, Atomically, Atomic!Next
<1> QED
  BY <1>1, <1>2, <1>3 DEF ColumnStep

(* A write to rows that are there, with references that are in scope. *)
LEMMA SameEpic ==
    ASSUME NEW rec \in IssueRecord, NEW s \in Sprint \cup {NULL}
    PROVE  [rec EXCEPT !.sprint = s, !.epic = rec.epic] = [rec EXCEPT !.sprint = s]
<1> DEFINE a == [rec EXCEPT !.sprint = s, !.epic = rec.epic]
           b == [rec EXCEPT !.sprint = s]
<1>1. a \in IssueRecord /\ b \in IssueRecord
  <2>1. rec.epic \in Issue \cup {NULL}
    BY DEF IssueRecord
  <2> QED
    BY <2>1, UpdateSprintEpic, UpdateSprintTyped
<1>2. /\ a.row = rec.row /\ a.column = rec.column /\ a.sprint = s
      /\ a.parent = rec.parent /\ a.epic = rec.epic /\ a.completed = rec.completed
  BY DEF IssueRecord
<1>3. /\ b.row = rec.row /\ b.column = rec.column /\ b.sprint = s
      /\ b.parent = rec.parent /\ b.epic = rec.epic /\ b.completed = rec.completed
  BY DEF IssueRecord
<1> HIDE DEF a, b
<1>4. a = b
  BY <1>1, <1>2, <1>3, SameIssue
<1> QED
  BY <1>4 DEF a, b

LEMMA DropIssuesAtomic ==
    ASSUME NEW S \in SUBSET Issue, \A i \in S : IssueRow(i), DropIssues(S),
           UNCHANGED <<sprint, column>>
    PROVE  Atomically
<1>1. Atomic!DropIssues(S)
  BY DEF IssueRow, DropIssues, Unless, EmptyIssue, Atomic!DropIssues, Atomic!Live, Atomic!Forget,
         Atomic!Nothing
<1> QED
  BY <1>1 DEF Atomically, Atomic!Next

(* create(), update(), move() and delete() of an issue. *)
LEMMA IssueStepAtomic ==
    ASSUME TypeOK, NEW r \in Request, Current(req[r]), IssueStep(r)
    PROVE  Current(req[r])' /\ Atomically
<1>1. ASSUME NEW i \in Issue, NEW c \in Column, MoveRead(r, i, c)
      PROVE  Current(req[r])' /\ Atomically
  <2> DEFINE rec == [Idle EXCEPT !.pc = "moveWrite", !.rows = {i}, !.column = c, !.done = Closes(c)]
  <2>1. rec.pc = "moveWrite" /\ rec.rows = {i} /\ rec.column = c /\ rec.done = Closes(c)
    BY DEF Idle
  <2>2. /\ Enter(r, rec) /\ IssueRow(i) /\ ColumnInProject(c, IssueProject[i])
        /\ UNCHANGED <<sprint, column, issue>>
    BY <1>1 DEF MoveRead
  <2> HIDE DEF rec
  <2>3. Current(rec)
    BY <2>1, <2>2 DEF Current
  <2> QED
    BY <2>2, <2>3, ReadCurrent
<1>2. ASSUME NEW i \in Issue, NEW s, NEW e, UpdateIssueRead(r, i, s, e)
      PROVE  Current(req[r])' /\ Atomically
  <2> DEFINE rec == [Idle EXCEPT !.pc = "updateWrite", !.rows = {i}, !.sprint = s, !.epic = e]
  <2>1. rec.pc = "updateWrite" /\ rec.rows = {i} /\ rec.sprint = s /\ rec.epic = e
    BY DEF Idle
  <2>2. /\ Enter(r, rec) /\ IssueRow(i) /\ SprintInProject(s, IssueProject[i])
        /\ IssueInProject(e, IssueProject[i]) /\ UNCHANGED <<sprint, column, issue>>
    BY <1>2 DEF UpdateIssueRead
  <2> HIDE DEF rec
  <2>3. Current(rec)
    BY <2>1, <2>2 DEF Current
  <2> QED
    BY <2>2, <2>3, ReadCurrent
<1>3. ASSUME NEW i \in Issue, NEW s, NEW e, NEW p, NEW c, CreateIssueRead(r, i, s, e, p, c)
      PROVE  Current(req[r])' /\ Atomically
  <2> DEFINE rec == [Idle EXCEPT !.pc = "insert", !.rows = {i}, !.sprint = s,
                                 !.epic = e, !.parent = p, !.column = c]
  <2>1. /\ rec.pc = "insert" /\ rec.rows = {i} /\ rec.sprint = s
        /\ rec.epic = e /\ rec.parent = p /\ rec.column = c
    BY DEF Idle
  <2>2. /\ Enter(r, rec) /\ issue[i].row = "UNUSED"
        /\ c \in FirstColumns(IssueProject[i])
        /\ SprintInProject(s, IssueProject[i])
        /\ IssueInProject(e, IssueProject[i]) /\ IssueInProject(p, IssueProject[i])
        /\ UNCHANGED <<sprint, column, issue>>
    BY <1>3 DEF CreateIssueRead, FreshId
  <2> HIDE DEF rec
  <2>3. Current(rec)
    BY <2>1, <2>2 DEF Current
  <2> QED
    BY <2>2, <2>3, ReadCurrent
<1>4. ASSUME NEW i \in Issue, DeleteIssue(r, i) PROVE Current(req[r])' /\ Atomically
  BY <1>4, StayCurrent, DropIssuesAtomic DEF DeleteIssue
<1>5. CASE CreateIssueInsert(r)
  <2>1. PICK i \in Issue :
           /\ req[r].rows = {i} /\ issue[i].row = "UNUSED"
           /\ req[r].column \in FirstColumns(IssueProject[i])
           /\ SprintInProject(req[r].sprint, IssueProject[i])
           /\ IssueInProject(req[r].epic, IssueProject[i])
           /\ IssueInProject(req[r].parent, IssueProject[i])
    BY <1>5 DEF CreateIssueInsert, At, Current
  <2> DEFINE s == req[r].sprint
             e == req[r].epic
             p == req[r].parent
             c == req[r].column
  <2>2. /\ s \in Sprint \cup {NULL} /\ e \in Issue \cup {NULL} /\ p \in Issue \cup {NULL}
        /\ c \in Column \cup {NULL}
    BY <1>5 DEF CreateIssueInsert, TypeOK, RequestRecord
  <2>3. CASE UNCHANGED issue
    BY <1>5, <2>3, LeaveCurrent DEF CreateIssueInsert, Atomically
  <2>4. CASE issue' = [j \in Issue |-> IF j \in req[r].rows THEN NewIssue(r) ELSE issue[j]]
    <3>1. issue' = [issue EXCEPT ![i] = NewIssue(r)]
      BY <2>1, <2>4 DEF TypeOK
    <3>2. IF c = NULL THEN \A d \in Column : ~Atomic!OnBoard(d, IssueProject[i])
                      ELSE Atomic!OnBoard(c, IssueProject[i])
      BY <2>1 DEF FirstColumns, ColumnsOf, ColumnRow, Atomic!OnBoard
    <3>3. /\ Atomic!SprintGiven(s, IssueProject[i])
          /\ Atomic!IssueGiven(e, IssueProject[i]) /\ Atomic!IssueGiven(p, IssueProject[i])
      BY <2>1 DEF SprintInProject, SprintRow, SprintStatus, IssueInProject, IssueRow,
                  Atomic!SprintGiven, Atomic!SprintRow, Atomic!IssueGiven, Atomic!Live
    <3>4. Atomic!AddIssue(i, s, e, p, c)
      BY <1>5, <2>1, <3>1, <3>2, <3>3 DEF CreateIssueInsert, NewIssue, Atomic!AddIssue
    <3> QED
      BY <1>5, <2>2, <3>4, LeaveCurrent DEF CreateIssueInsert, Atomically, Atomic!Next
  <2> QED
    BY <1>5, <2>3, <2>4 DEF CreateIssueInsert
<1>6. CASE UpdateIssueWrite(r)
  <2>1. PICK i \in Issue :
           /\ req[r].rows = {i} /\ IssueRow(i)
           /\ SprintInProject(req[r].sprint, IssueProject[i])
           /\ IssueInProject(req[r].epic, IssueProject[i])
    BY <1>6 DEF UpdateIssueWrite, At, Current
  <2> DEFINE s == req[r].sprint
             e == req[r].epic
  <2>2. s \in Sprint \cup {NULL, KEEP} /\ e \in Issue \cup {NULL, KEEP}
    BY DEF TypeOK, RequestRecord
  <2>3. UNCHANGED issue \/ issue' = [issue EXCEPT ![i] = Updated(r, i)]
    BY <1>6, <2>1 DEF UpdateIssueWrite
  <2>4. CASE UNCHANGED issue
    BY <1>6, <2>4, LeaveCurrent DEF UpdateIssueWrite, Atomically
  <2>5. CASE issue' = [issue EXCEPT ![i] = Updated(r, i)]
    <3>1. issue' = [j \in Issue |-> IF j \in {i} THEN Updated(r, j) ELSE issue[j]]
      BY <2>5 DEF TypeOK
    <3>2. /\ Atomic!Live(i)
          /\ Atomic!SprintGiven(s, IssueProject[i]) /\ Atomic!IssueGiven(e, IssueProject[i])
      BY <2>1 DEF SprintInProject, SprintRow, SprintStatus, IssueInProject, IssueRow,
                  Atomic!SprintGiven, Atomic!SprintRow, Atomic!IssueGiven, Atomic!Live
    <3>3. Atomic!Assign({i}, s, e)
      BY <1>6, <3>1, <3>2 DEF UpdateIssueWrite, Updated, Given, Atomic!Assign, Atomic!Set
    <3> QED
      BY <1>6, <2>2, <3>3, LeaveCurrent DEF UpdateIssueWrite, Atomically, Atomic!Next
  <2> QED
    BY <2>3, <2>4, <2>5
<1>7. CASE MoveWrite(r)
  <2>1. PICK i \in Issue :
           /\ req[r].rows = {i} /\ IssueRow(i)
           /\ req[r].column \in Column /\ ColumnInProject(req[r].column, IssueProject[i])
           /\ req[r].done = Closes(req[r].column)
    BY <1>7 DEF MoveWrite, At, Current
  <2> DEFINE c == req[r].column
  <2>2. issue' = [issue EXCEPT ![i] = Moved(r, i)]
    BY <1>7, <2>1 DEF MoveWrite, ColumnInProject
  <2>3. Atomic!Move(i, c)
    <3>1. Moved(r, i) = [issue[i] EXCEPT !.column = c, !.completed = (column[c] = "DONE")]
      BY <2>1 DEF Moved, Closes
    <3> QED
      BY <1>7, <2>1, <2>2, <3>1
         DEF MoveWrite, IssueRow, ColumnInProject, ColumnRow, TypeOK, Atomic!Move, Atomic!Live, Atomic!OnBoard
  <2> QED
    BY <1>7, <2>1, <2>3, LeaveCurrent DEF MoveWrite, Atomically, Atomic!Next
<1> QED
  BY <1>1, <1>2, <1>3, <1>4, <1>5, <1>6, <1>7 DEF IssueStep, UpdateIssueRequest, CreateIssueRequest

LEMMA BulkStepAtomic ==
    ASSUME TypeOK, NEW r \in Request, Current(req[r]), BulkStep(r)
    PROVE  Current(req[r])' /\ Atomically
<1>1. ASSUME NEW S \in SUBSET Issue, BulkDeleteRead(r, S) PROVE Current(req[r])' /\ Atomically
  <2> DEFINE rec == [Idle EXCEPT !.pc = "bulkDelete", !.rows = S]
  <2>1. rec.pc = "bulkDelete" /\ rec.rows = S
    BY DEF Idle
  <2>2. Enter(r, rec) /\ (\A i \in S : IssueRow(i)) /\ UNCHANGED <<sprint, column, issue>>
    BY <1>1 DEF BulkDeleteRead
  <2> HIDE DEF rec
  <2>3. Current(rec)
    BY <2>1, <2>2 DEF Current
  <2> QED
    BY <2>2, <2>3, ReadCurrent
<1>2. ASSUME NEW S \in SUBSET Issue, NEW s, BulkUpdateRead(r, S, s)
      PROVE  Current(req[r])' /\ Atomically
  <2> DEFINE rec == [Idle EXCEPT !.pc = "bulkWrite", !.rows = S, !.sprint = s]
  <2>1. rec.pc = "bulkWrite" /\ rec.rows = S /\ rec.sprint = s
    BY DEF Idle
  <2>2. /\ Enter(r, rec) /\ (\A i \in S : IssueRow(i)) /\ SprintCovers(S, s)
        /\ UNCHANGED <<sprint, column, issue>>
    BY <1>2 DEF BulkUpdateRead
  <2> HIDE DEF rec
  <2>3. Current(rec)
    BY <2>1, <2>2 DEF Current
  <2> QED
    BY <2>2, <2>3, ReadCurrent
<1>3. CASE BulkUpdateWrite(r)
  <2> DEFINE S == req[r].rows
             s == req[r].sprint
  <2>1. /\ S \in SUBSET Issue /\ s \in Sprint \cup {NULL, KEEP}
        /\ (\A i \in S : IssueRow(i)) /\ SprintCovers(S, s)
    BY <1>3 DEF BulkUpdateWrite, At, Current, TypeOK, RequestRecord
  <2>2. CASE UNCHANGED issue
    BY <1>3, <2>2, LeaveCurrent DEF BulkUpdateWrite, Atomically
  <2>3. CASE issue' = [i \in Issue |-> IF i \in S /\ IssueRow(i)
                                       THEN [issue[i] EXCEPT !.sprint = Given(s, @)]
                                       ELSE issue[i]]
    <3>1. ASSUME NEW i \in Issue
          PROVE  [issue[i] EXCEPT !.sprint = Given(s, @)]
                 = [issue[i] EXCEPT !.sprint = Atomic!Set(s, @), !.epic = Atomic!Set(KEEP, @)]
      <4> DEFINE rec == issue[i]
      <4>1. rec \in IssueRecord
        BY DEF TypeOK
      <4>2. Given(s, rec.sprint) \in Sprint \cup {NULL}
        BY <2>1, <4>1 DEF IssueRecord, Given
      <4>3. Atomic!Set(s, rec.sprint) = Given(s, rec.sprint) /\ Atomic!Set(KEEP, rec.epic) = rec.epic
        BY DEF Given, Atomic!Set
      <4> HIDE DEF rec
      <4>4. [rec EXCEPT !.sprint = Given(s, rec.sprint)]
            = [rec EXCEPT !.sprint = Given(s, rec.sprint), !.epic = rec.epic]
        BY <4>1, <4>2, SameEpic
      <4> QED
        BY <4>3, <4>4 DEF rec
    <3>2. issue' = [i \in Issue |->
                      IF i \in S
                      THEN [issue[i] EXCEPT !.sprint = Atomic!Set(s, @), !.epic = Atomic!Set(KEEP, @)]
                      ELSE issue[i]]
      BY <2>1, <2>3, <3>1
    <3>3. ASSUME NEW i \in S
          PROVE  /\ Atomic!Live(i) /\ Atomic!SprintGiven(s, IssueProject[i])
                 /\ Atomic!IssueGiven(KEEP, IssueProject[i])
      BY <2>1, <3>3 DEF SprintCovers, SprintRow, SprintStatus, IssueRow, Atomic!SprintGiven,
                        Atomic!SprintRow, Atomic!IssueGiven, Atomic!Live
    <3>4. Atomic!Assign(S, s, KEEP)
      BY <1>3, <3>2, <3>3 DEF BulkUpdateWrite, Atomic!Assign
    <3> QED
      BY <1>3, <2>1, <3>4, LeaveCurrent DEF BulkUpdateWrite, Atomically, Atomic!Next
  <2> QED
    BY <1>3, <2>2, <2>3 DEF BulkUpdateWrite
<1>4. CASE BulkDeleteWrite(r)
  <2>1. req[r].rows \in SUBSET Issue /\ \A i \in req[r].rows : IssueRow(i)
    BY <1>4 DEF BulkDeleteWrite, At, Current, TypeOK, RequestRecord
  <2> QED
    BY <1>4, <2>1, LeaveCurrent, DropIssuesAtomic DEF BulkDeleteWrite
<1> QED
  BY <1>1, <1>2, <1>3, <1>4 DEF BulkStep

(* A request whose reading is stale answers, or goes on to the second      *)
(* write of its handler.                                                   *)
LEMMA StaleStep ==
    ASSUME TypeOK, NEW r \in Request, ~IsIdle(r),
           SprintStep(r) \/ ColumnStep(r) \/ IssueStep(r) \/ BulkStep(r)
    PROVE  \/ Leave(r)
           \/ At(r, "completeSweep") /\ req'[r].pc = "completeFinish"
           \/ At(r, "unassign") /\ req'[r].pc = "dropSprint"
<1>1. CASE CompleteSweep(r)
  <2>1. [Idle EXCEPT !.pc = "completeFinish", !.sprint = req[r].sprint,
                     !.rows = Sweepable(req[r].sprint)].pc = "completeFinish"
    BY DEF Idle
  <2> QED
    BY <1>1, <2>1, Entered DEF CompleteSweep
<1>2. CASE DeleteSprintUnassign(r)
  <2>1. [Idle EXCEPT !.pc = "dropSprint", !.sprint = req[r].sprint].pc = "dropSprint"
    BY DEF Idle
  <2> QED
    BY <1>2, <2>1, Entered DEF DeleteSprintUnassign
<1>3. CASE SprintStep(r)
  BY <1>1, <1>2, <1>3 DEF SprintStep, CreateSprint, StartProbe, CompleteRead, DeleteSprintRead,
     StartClaim, CompleteFinish, DeleteSprintDrop
<1>4. CASE ColumnStep(r)
  BY <1>4 DEF ColumnStep, DeleteColumnCount, AddColumn, UpdateColumn, DeleteColumnDrop
<1>5. CASE IssueStep(r)
  BY <1>5 DEF IssueStep, UpdateIssueRequest, CreateIssueRequest, DeleteIssue, MoveRead, UpdateIssueRead, CreateIssueRead,
     CreateIssueInsert, UpdateIssueWrite, MoveWrite
<1>6. CASE BulkStep(r)
  BY <1>6 DEF BulkStep, BulkDeleteRead, BulkUpdateRead, BulkUpdateWrite, BulkDeleteWrite
<1> QED
  BY <1>3, <1>4, <1>5, <1>6

(* What the requests at some of the steps have read still holds.           *)
ReadsHold(pcs) == \A r \in Request : req[r].pc \in pcs => Current(req[r])

(* A set of steps that holds, with the second write of a handler, its      *)
(* first.                                                                  *)
Covering(pcs) ==
    /\ "completeFinish" \in pcs => "completeSweep" \in pcs
    /\ "dropSprint" \in pcs => "unassign" \in pcs

LEMMA ReadsInit ==
    ASSUME NEW pcs
    PROVE  Init => ReadsHold(pcs)
<1>1. Idle.pc = "idle"
  BY DEF Idle
<1> QED
  BY <1>1, IdleCurrent DEF Init, ReadsHold

LEMMA StepCurrent ==
    ASSUME TypeOK, NEW r \in Request, Current(req[r]),
           SprintStep(r) \/ ColumnStep(r) \/ IssueStep(r) \/ BulkStep(r)
    PROVE  Current(req[r])' /\ Atomically
BY SprintStepAtomic, ColumnStepAtomic, IssueStepAtomic, BulkStepAtomic

LEMMA ReadsInductive ==
    ASSUME NEW pcs, Covering(pcs)
    PROVE  TypeOK /\ ReadsHold(pcs) /\ [Next /\ ~Overtaken(pcs)]_vars => ReadsHold(pcs)'
<1> SUFFICES ASSUME TypeOK, ReadsHold(pcs), [Next /\ ~Overtaken(pcs)]_vars,
                    NEW q \in Request, req'[q].pc \in pcs
             PROVE  Current(req[q])'
  BY DEF ReadsHold
<1>1. CASE UNCHANGED vars
  <2> DEFINE rec == req[q]
  <2>1. req'[q] = rec /\ UNCHANGED <<sprint, column, issue>>
    BY <1>1 DEF vars
  <2>2. Current(rec)
    BY <2>1 DEF ReadsHold
  <2> QED
    BY <2>1, <2>2, SameTables
<1>2. CASE Next /\ ~Overtaken(pcs)
  <2>1. PICK r \in Request : SprintStep(r) \/ ColumnStep(r) \/ IssueStep(r) \/ BulkStep(r)
    BY <1>2 DEF Next
  <2>2. CASE q # r
    <3>1. req'[q] = req[q]
      BY <2>1, <2>2, OwnStep
    <3>2. Current(req[q])
      BY <3>1 DEF ReadsHold
    <3> QED
      BY <1>2, <3>1, <3>2 DEF Overtaken
  <2>3. CASE q = r /\ Current(req[r])
    BY <2>1, <2>3, StepCurrent
  <2>4. CASE q = r /\ ~Current(req[r])
    <3>1. ~IsIdle(r) /\ req[r].pc \notin pcs
      BY <2>4, IdleCurrent DEF IsIdle, ReadsHold
    <3>2. Leave(r)
      BY <2>1, <2>4, <3>1, StaleStep DEF At, Covering
    <3> QED
      BY <2>4, <3>2, LeaveCurrent
  <2> QED
    BY <2>2, <2>3, <2>4
<1> QED
  BY <1>1, <1>2

(* Requests may overlap in any way, except that none of them takes away    *)
(* what another at pcs has read.                                           *)
LEMMA ApartInit ==
    ASSUME NEW pcs
    PROVE  Init => RowsInv /\ ReadsHold(pcs)
BY RowsInit, ReadsInit

LEMMA ApartInductive ==
    ASSUME NEW pcs, Covering(pcs)
    PROVE  RowsInv /\ ReadsHold(pcs) /\ [Next /\ ~Overtaken(pcs)]_vars
           => RowsInv' /\ ReadsHold(pcs)'
<1> SUFFICES ASSUME RowsInv, ReadsHold(pcs), [Next /\ ~Overtaken(pcs)]_vars
             PROVE  RowsInv' /\ ReadsHold(pcs)'
  OBVIOUS
<1>1. [Next]_vars
  OBVIOUS
<1>2. RowsInv'
  BY <1>1, RowsInductive
<1>3. ReadsHold(pcs)'
  BY ReadsInductive DEF RowsInv
<1> QED
  BY <1>2, <1>3

(* A board has one ACTIVE sprint, for any number of overlapping requests,  *)
(* unless one of them takes away what a start() has probed: of all the     *)
(* overlaps of the board's handlers only that one breaks the check.        *)
THEOREM OneActiveUnlessOvertaken == Apart({"startClaim"}) => []OneActivePerBoard
<1> DEFINE Inv == RowsInv /\ ReadsHold({"startClaim"})
<1>1. Init => OneActivePerBoard
  BY DEF Init, OneActivePerBoard
<1>2. Inv /\ OneActivePerBoard /\ [Next]_vars => OneActivePerBoard'
  <2> SUFFICES ASSUME Inv, OneActivePerBoard, [Next]_vars PROVE OneActivePerBoard'
    OBVIOUS
  <2>1. TypeOK
    BY DEF RowsInv
  <2>2. CASE UNCHANGED sprint
    BY <2>2 DEF OneActivePerBoard
  <2>3. CASE Next
    <3>1. PICK r \in Request : SprintStep(r) \/ ColumnStep(r) \/ IssueStep(r) \/ BulkStep(r)
      BY <2>3 DEF Next
    <3>2. CASE \A s \in Sprint : sprint'[s] = "ACTIVE" => sprint[s] = "ACTIVE"
      BY <3>2 DEF OneActivePerBoard
    <3>3. ASSUME NEW s \in Sprint, StartProbe(r, s) PROVE OneActivePerBoard'
      BY <2>2, <3>3 DEF StartProbe
    <3>4. CASE StartClaim(r)
      <4>1. req[r].sprint \in Sprint /\ NoActiveSprint(req[r].sprint)
        <5>1. Current(req[r]) /\ req[r].pc = "startClaim"
          BY <3>4 DEF StartClaim, At, ReadsHold
        <5> QED
          BY <5>1 DEF Current
      <4>2. CASE sprint' = [sprint EXCEPT ![req[r].sprint] = "ACTIVE"]
        BY <2>1, <4>1, <4>2 DEF OneActivePerBoard, NoActiveSprint, TypeOK
      <4> QED
        BY <2>2, <3>4, <4>2 DEF StartClaim
    <3> QED
      BY <2>1, <3>1, <3>2, <3>3, <3>4, StartsElsewhere
  <2> QED
    BY <2>2, <2>3 DEF vars
<1>3. Covering({"startClaim"})
  BY DEF Covering
<1>4. Init => Inv
  BY ApartInit
<1>5. Inv /\ [Next /\ ~Overtaken({"startClaim"})]_vars => Inv'
  BY <1>3, ApartInductive
<1>6. [Next /\ ~Overtaken({"startClaim"})]_vars => [Next]_vars
  OBVIOUS
<1> HIDE DEF Inv
<1> QED
  BY <1>1, <1>2, <1>4, <1>5, <1>6, PTL DEF Apart

(* A card on the board keeps a column, for any number of overlapping       *)
(* requests, unless one of them takes away what a deleteColumn() has       *)
(* counted.                                                                *)
THEOREM ColumnsUnlessOvertaken == Apart({"dropColumn"}) => CardsKeepAColumn
<1> DEFINE Kept == \A i \in Issue :
             IssueRow(i) /\ issue[i].column # NULL /\ IssueRow(i)' => issue'[i].column # NULL
<1>1. RowsInv /\ ReadsHold({"dropColumn"}) /\ [Next /\ ~Overtaken({"dropColumn"})]_vars => [Kept]_vars
  <2> SUFFICES ASSUME RowsInv, ReadsHold({"dropColumn"}), Next,
                      NEW i \in Issue, IssueRow(i), issue[i].column # NULL, IssueRow(i)'
               PROVE  issue'[i].column # NULL
    BY DEF vars
  <2>1. PICK r \in Request : SprintStep(r) \/ ColumnStep(r) \/ IssueStep(r) \/ BulkStep(r)
    BY DEF Next
  <2>2. TypeOK /\ DeadRowsEmpty /\ Reserved
    BY DEF RowsInv
  <2>3. CASE RefsOnly(i)
    BY <2>3, RefsKeepTheRest
  <2>4. CASE MoveWrite(r)
    <3>1. req[r].column \in Column
      BY <2>2, <2>4 DEF MoveWrite, Reserved
    <3> QED
      BY <2>2, <2>4, <3>1, MoveWrites
  <2>5. CASE CreateIssueInsert(r)
    <3>1. i \notin req[r].rows
      BY <2>2, <2>5 DEF CreateIssueInsert, Reserved, IssueRow
    <3> QED
      BY <2>2, <2>5, <3>1, InsertWrites
  <2>6. CASE DeleteColumnDrop(r)
    <3>1. Current(req[r]) /\ req[r].pc = "dropColumn"
      BY <2>6 DEF DeleteColumnDrop, At, ReadsHold
    <3>2. ColumnEmpty(req[r].column)
      BY <3>1 DEF Current
    <3> QED
      BY <2>2, <2>6, <3>2, DropColumnWrites
  <2> QED
    BY <2>1, <2>2, <2>3, <2>4, <2>5, <2>6, IssueWriters, ReferenceWrites, Drops
<1>2. Covering({"dropColumn"})
  BY DEF Covering
<1>3. Init => RowsInv /\ ReadsHold({"dropColumn"})
  BY ApartInit
<1>4. RowsInv /\ ReadsHold({"dropColumn"}) /\ [Next /\ ~Overtaken({"dropColumn"})]_vars
      => RowsInv' /\ ReadsHold({"dropColumn"})'
  BY <1>2, ApartInductive
<1> QED
  BY <1>1, <1>3, <1>4, PTL DEF Apart, CardsKeepAColumn

(* When complete() commits, what stays in the sprint and stands in a       *)
(* column stands in a DONE column, for any number of overlapping requests, *)
(* unless one of them takes away what that call has read or swept.         *)
THEOREM SweepUnlessOvertaken ==
    Apart({"completeSweep", "completeFinish"}) => CompletionSweepsBoard
<1> DEFINE pcs == {"completeSweep", "completeFinish"}
           Swept == \A s \in Sprint : sprint[s] = "ACTIVE" /\ sprint'[s] = "COMPLETED" =>
             \A i \in Issue : issue'[i].sprint = s =>
                issue'[i].column = NULL \/ column'[issue'[i].column] = "DONE"
<1>1. RowsInv /\ ReadsHold(pcs) /\ [Next /\ ~Overtaken(pcs)]_vars => [Swept]_vars
  <2> SUFFICES ASSUME RowsInv, ReadsHold(pcs), Next,
                      NEW s \in Sprint, sprint[s] = "ACTIVE", sprint'[s] = "COMPLETED",
                      NEW i \in Issue, issue'[i].sprint = s
               PROVE  issue'[i].column = NULL \/ column'[issue'[i].column] = "DONE"
    BY DEF vars
  <2>1. PICK r \in Request : SprintStep(r) \/ ColumnStep(r) \/ IssueStep(r) \/ BulkStep(r)
    BY DEF Next
  <2>2. TypeOK /\ DeadRowsEmpty
    BY DEF RowsInv
  <2>3. CompleteFinish(r)
    <3>1. ~UNCHANGED sprint
      OBVIOUS
    <3>2. SprintStep(r)
      BY <2>1, <3>1, OtherStepOutside
    <3>3. ASSUME NEW t \in Sprint PROVE ~CreateSprint(r, t)
      BY <2>2 DEF CreateSprint, TypeOK
    <3>4. ~StartClaim(r) /\ ~DeleteSprintDrop(r)
      BY <2>2 DEF StartClaim, DeleteSprintDrop, TypeOK
    <3> QED
      BY <3>1, <3>2, <3>3, <3>4 DEF SprintStep, StartProbe, CompleteRead, DeleteSprintRead,
         CompleteSweep, DeleteSprintUnassign
  <2>4. req[r].sprint = s /\ SprintRow(req[r].sprint) /\ UNCHANGED column
    BY <2>2, <2>3 DEF CompleteFinish, TypeOK
  <2>5. req[r].rows = Sweepable(s)
    <3>1. Current(req[r]) /\ req[r].pc = "completeFinish"
      BY <2>3 DEF CompleteFinish, At, ReadsHold
    <3> QED
      BY <2>4, <3>1 DEF Current
  <2>6. issue[i] \in IssueRecord /\ s # NULL
    BY <2>2, ConstantsAssumption DEF TypeOK
  <2>7. i \notin req[r].rows /\ issue'[i] = issue[i]
    <3>1. [issue[i] EXCEPT !.sprint = NULL].sprint = NULL
      BY <2>6 DEF IssueRecord
    <3> QED
      BY <2>3, <2>4, <2>6, <3>1 DEF CompleteFinish
  <2>8. IssueRow(i)
    BY <2>2, <2>6, <2>7, DeadRow
  <2> QED
    BY <2>4, <2>5, <2>7, <2>8 DEF Sweepable, Unfinished
<1>2. Covering(pcs)
  BY DEF Covering
<1>3. Init => RowsInv /\ ReadsHold(pcs)
  BY ApartInit
<1>4. RowsInv /\ ReadsHold(pcs) /\ [Next /\ ~Overtaken(pcs)]_vars
      => RowsInv' /\ ReadsHold(pcs)'
  BY <1>2, ApartInductive
<1> QED
  BY <1>1, <1>3, <1>4, PTL DEF Apart, CompletionSweepsBoard

(* completedAt changes only to agree with the category the issue's column  *)
(* has at that moment, for any number of overlapping requests, unless one  *)
(* of them takes away what a move() has looked up; create() stamps         *)
(* nothing.                                                                *)
THEOREM StampUnlessOvertaken == Apart({"moveWrite"}) => StampMatchesColumn
<1> DEFINE Stamped == \A i \in Issue : IssueRow(i)' /\ issue'[i].completed # issue[i].completed =>
             /\ issue'[i].column # NULL
             /\ issue'[i].completed = (column[issue'[i].column] = "DONE")
<1>1. RowsInv /\ ReadsHold({"moveWrite"}) /\ [Next /\ ~Overtaken({"moveWrite"})]_vars => [Stamped]_vars
  <2> SUFFICES ASSUME RowsInv, ReadsHold({"moveWrite"}), Next,
                      NEW i \in Issue, IssueRow(i)', issue'[i].completed # issue[i].completed
               PROVE  /\ issue'[i].column # NULL
                      /\ issue'[i].completed = (column[issue'[i].column] = "DONE")
    BY DEF vars
  <2>1. PICK r \in Request : SprintStep(r) \/ ColumnStep(r) \/ IssueStep(r) \/ BulkStep(r)
    BY DEF Next
  <2>2. TypeOK /\ DeadRowsEmpty /\ Reserved
    BY DEF RowsInv
  <2>3. ~RefsOnly(i)
    BY RefsKeepTheRest
  <2>4. ~DeleteColumnDrop(r)
    BY <2>2, DropColumnRows
  <2>5. ~CreateIssueInsert(r)
    <3> SUFFICES ASSUME CreateIssueInsert(r) PROVE FALSE
      OBVIOUS
    <3>1. i \in req[r].rows /\ issue'[i].completed = FALSE
      BY <2>2, InsertWrites
    <3>2. ~IssueRow(i)
      BY <2>2, <3>1 DEF CreateIssueInsert, Reserved, IssueRow
    <3>3. issue[i].completed = FALSE
      BY <2>2, <3>2, DeadRow
    <3> QED
      BY <3>1, <3>3
  <2>6. MoveWrite(r)
    BY <2>1, <2>2, <2>3, <2>4, <2>5, IssueWriters, ReferenceWrites, Drops
  <2>7. issue'[i].column = req[r].column /\ issue'[i].completed = req[r].done
    BY <2>2, <2>6, MoveWrites
  <2>8. req[r].column \in Column /\ req[r].done = Closes(req[r].column)
    <3>1. Current(req[r]) /\ req[r].pc = "moveWrite"
      BY <2>6 DEF MoveWrite, At, ReadsHold
    <3> QED
      BY <3>1 DEF Current
  <2>9. req[r].column # NULL
    BY <2>8, ConstantsAssumption
  <2> QED
    BY <2>7, <2>8, <2>9 DEF Closes
<1>2. Covering({"moveWrite"})
  BY DEF Covering
<1>3. Init => RowsInv /\ ReadsHold({"moveWrite"})
  BY ApartInit
<1>4. RowsInv /\ ReadsHold({"moveWrite"}) /\ [Next /\ ~Overtaken({"moveWrite"})]_vars
      => RowsInv' /\ ReadsHold({"moveWrite"})'
  BY <1>2, ApartInductive
<1> QED
  BY <1>1, <1>3, <1>4, PTL DEF Apart, StampMatchesColumn

(* Requests that overlap without overtaking each other leave the board as  *)
(* if each had checked and written at once: no write is refused for what   *)
(* has changed meanwhile, no foreign key clears anything behind a row that *)
(* is dropped, and what one call sweeps is what stood there when the       *)
(* sprint ended.                                                           *)
THEOREM AtomicUnlessOvertaken == ApartSpec => HandlersAtomic
<1>1. Init => Atomic!Init
  BY DEF Init, EmptyIssue, Atomic!Init, Atomic!Nothing
<1>2. Covering(PC)
  BY DEF Covering, PC
<1>3. Init => RowsInv /\ ReadsHold(PC)
  BY ApartInit
<1>4. RowsInv /\ ReadsHold(PC) /\ [Next /\ ~Overtaken(PC)]_vars
      => RowsInv' /\ ReadsHold(PC)'
  BY <1>2, ApartInductive
<1>5. RowsInv /\ ReadsHold(PC) /\ [Next /\ ~Overtaken(PC)]_vars => [Atomic!Next]_(Atomic!board)
  <2> SUFFICES ASSUME RowsInv, ReadsHold(PC), [Next /\ ~Overtaken(PC)]_vars
               PROVE  [Atomic!Next]_(Atomic!board)
    OBVIOUS
  <2>1. CASE UNCHANGED vars
    BY <2>1 DEF vars, Atomic!board
  <2>2. CASE Next
    <3>1. PICK r \in Request : SprintStep(r) \/ ColumnStep(r) \/ IssueStep(r) \/ BulkStep(r)
      BY <2>2 DEF Next
    <3>2. TypeOK /\ req[r].pc \in PC
      BY DEF RowsInv, TypeOK, RequestRecord
    <3>3. Current(req[r])
      BY <3>2 DEF ReadsHold
    <3>4. Atomically
      BY <3>1, <3>2, <3>3, StepCurrent
    <3> QED
      BY <3>4 DEF Atomically, Atomic!board
  <2> QED
    BY <2>1, <2>2
<1> QED
  BY <1>1, <1>3, <1>4, <1>5, PTL DEF ApartSpec, ApartNext, HandlersAtomic, Atomic!Spec

=============================================================================
