------------------------------- MODULE Board -------------------------------
(***************************************************************************)
(* One board per project: its columns, its sprints and the issues that     *)
(* reference them.  SprintsService, BoardsService, IssuesService and       *)
(* IssuesBulkService all write these tables.                               *)
(*                                                                         *)
(* A handler is a sequence of awaited database calls.  Every call is one   *)
(* step; what a handler read and still uses after a later await lives in   *)
(* its request record req[r].  Reads that no later step can contradict     *)
(* (row existence that the write re-checks, columns that never change) are *)
(* merged with the next read.  PostgreSQL runs the $transaction blocks at  *)
(* READ COMMITTED: a transaction's reads are separate steps, its writes    *)
(* appear together at commit, and rows it has updated stay locked until    *)
(* then.                                                                   *)
(***************************************************************************)
EXTENDS FiniteSets

CONSTANTS
    Project, Sprint, Column, Issue,   \* row ids; an id is never used twice
    Request,                          \* requests in flight at the same time
    Category,                         \* StatusCategory
    SprintProject, ColumnProject, IssueProject,  \* owner a row is born with
    DefaultCategory,                  \* columns created with the board
    NULL,                             \* SQL NULL
    KEEP                              \* a field the payload leaves out

ASSUME ConstantsAssumption ==
    /\ SprintProject \in [Sprint -> Project]
    /\ ColumnProject \in [Column -> Project]
    /\ IssueProject \in [Issue -> Project]
    /\ "DONE" \in Category
    /\ Category \cap {"UNUSED", "GONE"} = {}
    /\ DefaultCategory \in [Column -> Category \cup {"UNUSED"}]
    /\ NULL \notin Sprint \cup Column \cup Issue \cup Project
    /\ KEEP \notin Sprint \cup Column \cup Issue \cup Project \cup {NULL}

VARIABLES
    sprint,   \* sprint[s]: status of the row, or UNUSED / GONE
    column,   \* column[c]: category of the row, or UNUSED / GONE
    issue,    \* issue[i]: the columns of the Issue row the board is about
    req       \* req[r]: where request r is and what it remembers

vars == <<sprint, column, issue, req>>

-----------------------------------------------------------------------------
(* Rows *)

(* CLOSED is in the enum and nothing writes it. *)
SprintStatus == {"PLANNING", "ACTIVE", "COMPLETED"}

IssueRecord ==
    [row: {"UNUSED", "LIVE", "GONE"},
     column: Column \cup {NULL}, sprint: Sprint \cup {NULL},
     parent: Issue \cup {NULL}, epic: Issue \cup {NULL},
     completed: BOOLEAN]

EmptyIssue(state) ==
    [row |-> state, column |-> NULL, sprint |-> NULL,
     parent |-> NULL, epic |-> NULL, completed |-> FALSE]

SprintRow(s) == sprint[s] \in SprintStatus
ColumnRow(c) == column[c] \in Category
IssueRow(i) == issue[i].row = "LIVE"

(* Requests *)

PC == {"idle", "startClaim", "completeSweep", "completeFinish", "unassign",
       "dropSprint", "dropColumn", "insert", "updateWrite", "moveWrite",
       "bulkWrite", "bulkDelete"}

RequestRecord ==
    [pc: PC, rows: SUBSET Issue, sprint: Sprint \cup {NULL, KEEP},
     epic: Issue \cup {NULL, KEEP}, parent: Issue \cup {NULL},
     column: Column \cup {NULL}, done: BOOLEAN]

Idle == [pc |-> "idle", rows |-> {}, sprint |-> NULL, epic |-> NULL,
         parent |-> NULL, column |-> NULL, done |-> FALSE]

IsIdle(r) == req[r].pc = "idle"
At(r, pc) == req[r].pc = pc
Enter(r, rec) == req' = [req EXCEPT ![r] = rec]
Leave(r) == req' = [req EXCEPT ![r] = Idle]

(* Rows updated by an open transaction are locked: writers wait. *)
LockedRows == UNION {req[r].rows : r \in {q \in Request : At(q, "completeFinish")}}
Unlocked(S) == S \cap LockedRows = {}

TypeOK ==
    /\ sprint \in [Sprint -> SprintStatus \cup {"UNUSED", "GONE"}]
    /\ column \in [Column -> Category \cup {"UNUSED", "GONE"}]
    /\ issue \in [Issue -> IssueRecord]
    /\ req \in [Request -> RequestRecord]
    /\ \A r \in Request :
          At(r, "insert") => req[r].sprint # KEEP /\ req[r].epic # KEEP

Init ==
    /\ sprint = [s \in Sprint |-> "UNUSED"]
    /\ column = DefaultCategory
    /\ issue = [i \in Issue |-> EmptyIssue("UNUSED")]
    /\ req = [r \in Request |-> Idle]

-----------------------------------------------------------------------------
(* assertIssueFkScope and the column check of move: a reference given by   *)
(* the caller must name a row of the issue's own project.                  *)

SprintExists(s) == s \notin {NULL, KEEP} => SprintRow(s)
SprintInProject(s, p) ==
    s \notin {NULL, KEEP} => SprintRow(s) /\ SprintProject[s] = p

IssueInProject(i, p) ==
    i \notin {NULL, KEEP} => IssueRow(i) /\ IssueProject[i] = p

ColumnInProject(c, p) == ColumnRow(c) /\ ColumnProject[c] = p

(* The database checks every foreign key again when a row is written. *)
ForeignKeysHold(rec) ==
    /\ rec.column # NULL => ColumnRow(rec.column)
    /\ rec.sprint # NULL => rec.sprint \in Sprint /\ SprintRow(rec.sprint)
    /\ rec.parent # NULL => IssueRow(rec.parent)
    /\ rec.epic # NULL => rec.epic \in Issue /\ IssueRow(rec.epic)

GivenRaw(new, old) == new
Given(new, old) == IF new = KEEP THEN old ELSE new

ColumnsOf(p) == {c \in Column : ColumnRow(c) /\ ColumnProject[c] = p}

-----------------------------------------------------------------------------
(* SprintsService *)

CreateSprint(r, s) ==
    /\ IsIdle(r)
    /\ sprint[s] = "UNUSED"
    /\ sprint' = [sprint EXCEPT ![s] = "PLANNING"]
    /\ UNCHANGED <<column, issue, req>>

(* tx.sprint.findFirst: the probe for an ACTIVE sprint of the board *)
NoProbe(s) == TRUE
NoActiveSprint(s) ==
    \A t \in Sprint : SprintProject[t] = SprintProject[s] => sprint[t] # "ACTIVE"

StartProbe(r, s) ==
    /\ IsIdle(r)
    /\ SprintRow(s)
    /\ NoActiveSprint(s)
    /\ Enter(r, [Idle EXCEPT !.pc = "startClaim", !.sprint = s])
    /\ UNCHANGED <<sprint, column, issue>>

(* updateMany where id and status = PLANNING; count 0 throws *)
ClaimableUnguarded(s) == SprintRow(s)
Claimable(s) == sprint[s] = "PLANNING"

StartClaim(r) ==
    /\ At(r, "startClaim")
    /\ \/ /\ Claimable(req[r].sprint)
          /\ sprint' = [sprint EXCEPT ![req[r].sprint] = "ACTIVE"]
       \/ /\ ~Claimable(req[r].sprint)
          /\ UNCHANGED sprint
    /\ Leave(r)
    /\ UNCHANGED <<column, issue>>

Completable(s) == sprint[s] = "ACTIVE"

CompleteRead(r, s) ==
    /\ IsIdle(r)
    /\ Completable(s)
    /\ Enter(r, [Idle EXCEPT !.pc = "completeSweep", !.sprint = s])
    /\ UNCHANGED <<sprint, column, issue>>

(* The relation filter boardColumn.category <> DONE: it does not match an  *)
(* issue without a column.                                                 *)
OnlyTodo(i) == issue[i].column # NULL /\ column[issue[i].column] = "TODO"
Unfinished(i) ==
    issue[i].column # NULL /\ column[issue[i].column] # "DONE"

Sweepable(s) == {i \in Issue : IssueRow(i) /\ issue[i].sprint = s /\ Unfinished(i)}

CompleteSweep(r) ==
    /\ At(r, "completeSweep")
    /\ Unlocked(Sweepable(req[r].sprint))
    /\ Enter(r, [Idle EXCEPT !.pc = "completeFinish", !.sprint = req[r].sprint,
                             !.rows = Sweepable(req[r].sprint)])
    /\ UNCHANGED <<sprint, column, issue>>

(* Commit of both writes, or the rollback when the sprint row is gone *)
CompleteFinish(r) ==
    /\ At(r, "completeFinish")
    /\ \/ /\ SprintRow(req[r].sprint)
          /\ sprint' = [sprint EXCEPT ![req[r].sprint] = "COMPLETED"]
          /\ issue' = [i \in Issue |-> IF i \in req[r].rows
                                       THEN [issue[i] EXCEPT !.sprint = NULL]
                                       ELSE issue[i]]
       \/ /\ ~SprintRow(req[r].sprint)
          /\ UNCHANGED <<sprint, issue>>
    /\ Leave(r)
    /\ UNCHANGED column

IssuesIn(s) == {i \in Issue : issue[i].sprint = s}
ClearSprint(s) ==
    issue' = [i \in Issue |-> IF issue[i].sprint = s
                              THEN [issue[i] EXCEPT !.sprint = NULL]
                              ELSE issue[i]]

DeleteSprintRead(r, s) ==
    /\ IsIdle(r)
    /\ SprintRow(s)
    /\ Enter(r, [Idle EXCEPT !.pc = "unassign", !.sprint = s])
    /\ UNCHANGED <<sprint, column, issue>>

DeleteSprintUnassign(r) ==
    /\ At(r, "unassign")
    /\ Unlocked(IssuesIn(req[r].sprint))
    /\ ClearSprint(req[r].sprint)
    /\ Enter(r, [Idle EXCEPT !.pc = "dropSprint", !.sprint = req[r].sprint])
    /\ UNCHANGED <<sprint, column>>

(* sprint.delete: the foreign key is ON DELETE SET NULL *)
DeleteSprintDrop(r) ==
    /\ At(r, "dropSprint")
    /\ Unlocked(IssuesIn(req[r].sprint))
    /\ \/ /\ SprintRow(req[r].sprint)
          /\ sprint' = [sprint EXCEPT ![req[r].sprint] = "GONE"]
          /\ ClearSprint(req[r].sprint)
       \/ /\ ~SprintRow(req[r].sprint)
          /\ UNCHANGED <<sprint, issue>>
    /\ Leave(r)
    /\ UNCHANGED column

-----------------------------------------------------------------------------
(* BoardsService *)

AddColumn(r, c, cat) ==
    /\ IsIdle(r)
    /\ column[c] = "UNUSED"
    /\ column' = [column EXCEPT ![c] = cat]
    /\ UNCHANGED <<sprint, issue, req>>

UpdateColumn(r, c, cat) ==
    /\ IsIdle(r)
    /\ ColumnRow(c)
    /\ column' = [column EXCEPT ![c] = cat]
    /\ UNCHANGED <<sprint, issue, req>>

IssuesOn(c) == {i \in Issue : issue[i].column = c}

NoCount(c) == TRUE
ColumnEmpty(c) == IssuesOn(c) = {}

DeleteColumnCount(r, c) ==
    /\ IsIdle(r)
    /\ ColumnRow(c)
    /\ ColumnEmpty(c)
    /\ Enter(r, [Idle EXCEPT !.pc = "dropColumn", !.column = c])
    /\ UNCHANGED <<sprint, column, issue>>

(* boardColumn.delete: the foreign key is ON DELETE SET NULL *)
DeleteColumnDrop(r) ==
    /\ At(r, "dropColumn")
    /\ Unlocked(IssuesOn(req[r].column))
    /\ \/ /\ ColumnRow(req[r].column)
          /\ column' = [column EXCEPT ![req[r].column] = "GONE"]
          /\ issue' = [i \in Issue |-> IF issue[i].column = req[r].column
                                       THEN [issue[i] EXCEPT !.column = NULL]
                                       ELSE issue[i]]
       \/ /\ ~ColumnRow(req[r].column)
          /\ UNCHANGED <<column, issue>>
    /\ Leave(r)
    /\ UNCHANGED sprint

-----------------------------------------------------------------------------
(* IssuesService *)

(* The board's first column, by position; none when the board has none.    *)
(* Positions are abstracted: any column of the board may be the first.     *)
FirstColumns(p) == IF ColumnsOf(p) = {} THEN {NULL} ELSE ColumnsOf(p)

(* The new row's id is the uuid the insert will use. *)
FreshId(i) ==
    issue[i].row = "UNUSED" /\ \A q \in Request : ~(At(q, "insert") /\ i \in req[q].rows)

CreateIssueRead(r, i, s, e, p, c) ==
    /\ IsIdle(r)
    /\ FreshId(i)
    /\ c \in FirstColumns(IssueProject[i])
    /\ SprintInProject(s, IssueProject[i])
    /\ IssueInProject(e, IssueProject[i])
    /\ IssueInProject(p, IssueProject[i])
    /\ Enter(r, [Idle EXCEPT !.pc = "insert", !.rows = {i}, !.sprint = s,
                             !.epic = e, !.parent = p, !.column = c])
    /\ UNCHANGED <<sprint, column, issue>>

NewIssue(r) ==
    [row |-> "LIVE", column |-> req[r].column, sprint |-> req[r].sprint,
     parent |-> req[r].parent, epic |-> req[r].epic, completed |-> FALSE]

CreateIssueInsert(r) ==
    /\ At(r, "insert")
    /\ \/ /\ ForeignKeysHold(NewIssue(r))
          /\ issue' = [i \in Issue |-> IF i \in req[r].rows THEN NewIssue(r)
                                       ELSE issue[i]]
       \/ /\ ~ForeignKeysHold(NewIssue(r))
          /\ UNCHANGED issue
    /\ Leave(r)
    /\ UNCHANGED <<sprint, column>>

UpdateIssueReadAnyEpic(r, i, s, e) ==
    /\ IsIdle(r)
    /\ IssueRow(i)
    /\ SprintInProject(s, IssueProject[i])
    /\ e \notin {NULL, KEEP} => IssueRow(e)
    /\ Enter(r, [Idle EXCEPT !.pc = "updateWrite", !.rows = {i},
                             !.sprint = s, !.epic = e])
    /\ UNCHANGED <<sprint, column, issue>>

UpdateIssueRead(r, i, s, e) ==
    /\ IsIdle(r)
    /\ IssueRow(i)
    /\ SprintInProject(s, IssueProject[i])
    /\ IssueInProject(e, IssueProject[i])
    /\ Enter(r, [Idle EXCEPT !.pc = "updateWrite", !.rows = {i},
                             !.sprint = s, !.epic = e])
    /\ UNCHANGED <<sprint, column, issue>>

Updated(r, i) ==
    [issue[i] EXCEPT !.sprint = Given(req[r].sprint, @),
                     !.epic = Given(req[r].epic, @)]

UpdateIssueWrite(r) ==
    /\ At(r, "updateWrite")
    /\ Unlocked(req[r].rows)
    /\ \E i \in req[r].rows :
          \/ /\ IssueRow(i)
             /\ ForeignKeysHold(Updated(r, i))
             /\ issue' = [issue EXCEPT ![i] = Updated(r, i)]
          \/ /\ ~(IssueRow(i) /\ ForeignKeysHold(Updated(r, i)))
             /\ UNCHANGED issue
    /\ Leave(r)
    /\ UNCHANGED <<sprint, column>>

ClosesUnlessTodo(c) == column[c] # "TODO"
Closes(c) == column[c] = "DONE"

MoveRead(r, i, c) ==
    /\ IsIdle(r)
    /\ IssueRow(i)
    /\ ColumnInProject(c, IssueProject[i])
    /\ Enter(r, [Idle EXCEPT !.pc = "moveWrite", !.rows = {i}, !.column = c,
                             !.done = Closes(c)])
    /\ UNCHANGED <<sprint, column, issue>>

Moved(r, i) ==
    [issue[i] EXCEPT !.column = req[r].column, !.completed = req[r].done]

MoveWrite(r) ==
    /\ At(r, "moveWrite")
    /\ Unlocked(req[r].rows)
    /\ \E i \in req[r].rows :
          \/ /\ IssueRow(i) /\ ColumnRow(req[r].column)
             /\ issue' = [issue EXCEPT ![i] = Moved(r, i)]
          \/ /\ ~(IssueRow(i) /\ ColumnRow(req[r].column))
             /\ UNCHANGED issue
    /\ Leave(r)
    /\ UNCHANGED <<sprint, column>>

(* Deleting rows sets the parent and epic of what pointed at them to NULL. *)
PointingAt(S) == {i \in Issue : issue[i].parent \in S \/ issue[i].epic \in S}
Unless(S, ref) == IF ref \in S THEN NULL ELSE ref
DropIssues(S) ==
    issue' = [i \in Issue |->
                IF i \in S THEN EmptyIssue("GONE")
                ELSE [issue[i] EXCEPT !.parent = Unless(S, @),
                                      !.epic = Unless(S, @)]]

DeleteIssue(r, i) ==
    /\ IsIdle(r)
    /\ IssueRow(i)
    /\ Unlocked({i} \cup PointingAt({i}))
    /\ DropIssues({i})
    /\ UNCHANGED <<sprint, column, req>>

-----------------------------------------------------------------------------
(* IssuesBulkService *)

(* Every selected issue must share the sprint's project. *)
SprintCoversAny(S, s) ==
    s \notin {NULL, KEEP} =>
        SprintRow(s) /\ \E i \in S : IssueProject[i] = SprintProject[s]
SprintCovers(S, s) ==
    s \notin {NULL, KEEP} =>
        SprintRow(s) /\ \A i \in S : IssueProject[i] = SprintProject[s]

BulkUpdateRead(r, S, s) ==
    /\ IsIdle(r)
    /\ S # {} /\ \A i \in S : IssueRow(i)
    /\ SprintCovers(S, s)
    /\ Enter(r, [Idle EXCEPT !.pc = "bulkWrite", !.rows = S, !.sprint = s])
    /\ UNCHANGED <<sprint, column, issue>>

(* updateMany: rows deleted meanwhile are skipped *)
BulkUpdateWrite(r) ==
    /\ At(r, "bulkWrite")
    /\ Unlocked(req[r].rows)
    /\ \/ /\ SprintExists(req[r].sprint)
          /\ issue' = [i \in Issue |->
                         IF i \in req[r].rows /\ IssueRow(i)
                         THEN [issue[i] EXCEPT !.sprint = Given(req[r].sprint, @)]
                         ELSE issue[i]]
       \/ /\ ~SprintExists(req[r].sprint)
          /\ UNCHANGED issue
    /\ Leave(r)
    /\ UNCHANGED <<sprint, column>>

BulkDeleteRead(r, S) ==
    /\ IsIdle(r)
    /\ S # {} /\ \A i \in S : IssueRow(i)
    /\ Enter(r, [Idle EXCEPT !.pc = "bulkDelete", !.rows = S])
    /\ UNCHANGED <<sprint, column, issue>>

BulkDeleteWrite(r) ==
    /\ At(r, "bulkDelete")
    /\ Unlocked(req[r].rows \cup PointingAt(req[r].rows))
    /\ DropIssues(req[r].rows)
    /\ Leave(r)
    /\ UNCHANGED <<sprint, column>>

-----------------------------------------------------------------------------
SprintStep(r) ==
    \/ \E s \in Sprint : \/ CreateSprint(r, s) \/ StartProbe(r, s)
                         \/ CompleteRead(r, s) \/ DeleteSprintRead(r, s)
    \/ StartClaim(r) \/ CompleteSweep(r) \/ CompleteFinish(r)
    \/ DeleteSprintUnassign(r) \/ DeleteSprintDrop(r)

ColumnStep(r) ==
    \/ \E c \in Column : \/ DeleteColumnCount(r, c)
                         \/ \E cat \in Category : AddColumn(r, c, cat) \/ UpdateColumn(r, c, cat)
    \/ DeleteColumnDrop(r)

(* The references are the caller's choice. *)
UpdateIssueRequest(r, i) ==
    /\ IsIdle(r) /\ IssueRow(i)
    /\ \E s \in Sprint \cup {NULL, KEEP}, e \in Issue \cup {NULL, KEEP} :
          UpdateIssueRead(r, i, s, e)

CreateIssueRequest(r, i) ==
    /\ IsIdle(r) /\ FreshId(i)
    /\ \E s \in Sprint \cup {NULL}, e, p \in Issue \cup {NULL}, c \in Column \cup {NULL} :
          CreateIssueRead(r, i, s, e, p, c)

IssueStep(r) ==
    \/ \E i \in Issue :
         \/ DeleteIssue(r, i)
         \/ \E c \in Column : MoveRead(r, i, c)
         \/ UpdateIssueRequest(r, i)
         \/ CreateIssueRequest(r, i)
    \/ CreateIssueInsert(r) \/ UpdateIssueWrite(r) \/ MoveWrite(r)

BulkStep(r) ==
    \/ \E S \in SUBSET Issue : \/ BulkDeleteRead(r, S)
                               \/ \E s \in Sprint \cup {NULL, KEEP} : BulkUpdateRead(r, S, s)
    \/ BulkUpdateWrite(r) \/ BulkDeleteWrite(r)

Next == \E r \in Request : SprintStep(r) \/ ColumnStep(r) \/ IssueStep(r) \/ BulkStep(r)

Spec == Init /\ [][Next]_vars

-----------------------------------------------------------------------------
(* Requests that overlap *)

(* What a request has read still holds: it could read the same again.      *)
Current(rec) ==
    /\ rec.pc = "startClaim" => rec.sprint \in Sprint /\ NoActiveSprint(rec.sprint)
    /\ rec.pc = "completeSweep" => rec.sprint \in Sprint /\ Completable(rec.sprint)
    /\ rec.pc = "completeFinish" => /\ rec.sprint \in Sprint /\ Completable(rec.sprint)
                                    /\ rec.rows = Sweepable(rec.sprint)
    /\ rec.pc = "unassign" => rec.sprint \in Sprint /\ SprintRow(rec.sprint)
    /\ rec.pc = "dropSprint" => /\ rec.sprint \in Sprint /\ SprintRow(rec.sprint)
                                /\ IssuesIn(rec.sprint) = {}
    /\ rec.pc = "dropColumn" => /\ rec.column \in Column /\ ColumnRow(rec.column)
                                /\ ColumnEmpty(rec.column)
    /\ rec.pc = "insert" => \E i \in Issue :
          /\ rec.rows = {i} /\ issue[i].row = "UNUSED"
          /\ rec.column \in FirstColumns(IssueProject[i])
          /\ SprintInProject(rec.sprint, IssueProject[i])
          /\ IssueInProject(rec.epic, IssueProject[i])
          /\ IssueInProject(rec.parent, IssueProject[i])
    /\ rec.pc = "updateWrite" => \E i \in Issue :
          /\ rec.rows = {i} /\ IssueRow(i)
          /\ SprintInProject(rec.sprint, IssueProject[i])
          /\ IssueInProject(rec.epic, IssueProject[i])
    /\ rec.pc = "moveWrite" => \E i \in Issue :
          /\ rec.rows = {i} /\ IssueRow(i)
          /\ rec.column \in Column /\ ColumnInProject(rec.column, IssueProject[i])
          /\ rec.done = Closes(rec.column)
    /\ rec.pc = "bulkWrite" => (\A i \in rec.rows : IssueRow(i)) /\ SprintCovers(rec.rows, rec.sprint)
    /\ rec.pc = "bulkDelete" => \A i \in rec.rows : IssueRow(i)

(* A step of another request takes away what a request at one of pcs has   *)
(* read and is about to write by.                                          *)
Overtaken(pcs) ==
    \E r \in Request :
        /\ req[r].pc \in pcs /\ req'[r] = req[r]
        /\ Current(req[r]) /\ ~Current(req[r])'

(* Requests overlap in every way but that one. *)
Apart(pcs) == Init /\ [][Next /\ ~Overtaken(pcs)]_vars
ApartNext == Next /\ ~Overtaken(PC)
ApartSpec == Init /\ [][ApartNext]_vars

-----------------------------------------------------------------------------
(* Safety *)

(* Every reference of an issue names an existing row of the issue's own    *)
(* project, whatever the interleaving of scope checks, writes and deletes  *)
(* (assertIssueFkScope, move, bulkUpdate: "silently-corrupt cross-project  *)
(* references").                                                           *)
ReferencesInScope ==
    \A i \in Issue : IssueRow(i) =>
        /\ issue[i].sprint # NULL => SprintInProject(issue[i].sprint, IssueProject[i])
        /\ issue[i].column # NULL => ColumnInProject(issue[i].column, IssueProject[i])
        /\ IssueInProject(issue[i].parent, IssueProject[i])
        /\ IssueInProject(issue[i].epic, IssueProject[i])

(* What a request remembers between its scope check and its write still    *)
(* names rows of the project of every issue it is about to write.          *)
RequestsInScope ==
    \A r \in Request : \A i \in req[r].rows :
        /\ req[r].sprint \notin {NULL, KEEP} =>
              SprintProject[req[r].sprint] = IssueProject[i]
        /\ req[r].epic \notin {NULL, KEEP} => IssueProject[req[r].epic] = IssueProject[i]
        /\ req[r].parent # NULL => IssueProject[req[r].parent] = IssueProject[i]
        /\ req[r].column # NULL => ColumnProject[req[r].column] = IssueProject[i]

(* The sprint a complete() call is working on has been started: its status *)
(* cannot have gone back since the call read it.                           *)
CompletingStarted ==
    \A r \in Request : req[r].pc \in {"completeSweep", "completeFinish"} =>
        req[r].sprint \in Sprint /\ sprint[req[r].sprint] \in {"ACTIVE", "COMPLETED", "GONE"}

(* The inductive invariant behind ReferencesInScope and SprintLifecycle.   *)
BoardInv == TypeOK /\ ReferencesInScope /\ RequestsInScope /\ CompletingStarted

(* A sprint goes PLANNING, ACTIVE, COMPLETED and never back, even when     *)
(* complete() writes COMPLETED blindly after an earlier read and two       *)
(* start() calls race for one row; it may be deleted at any point.         *)
SprintLifecycle ==
    [][\A s \in Sprint : sprint'[s] # sprint[s] =>
          <<sprint[s], sprint'[s]>> \in
             {<<"UNUSED", "PLANNING">>, <<"PLANNING", "ACTIVE">>,
              <<"ACTIVE", "COMPLETED">>}
             \cup (SprintStatus \X {"GONE"})]_vars

(* The board runs one sprint at a time: what the probe in start() is for.  *)
(* Overlapping calls break it: a start() between the probe and the claim   *)
(* of another.                                                             *)
OneActivePerBoard ==
    \A s, t \in Sprint :
        /\ sprint[s] = "ACTIVE" /\ sprint[t] = "ACTIVE"
        /\ SprintProject[s] = SprintProject[t]
        => s = t

(* A card on the board never loses its column, so it never disappears from *)
(* every board view: what the count in deleteColumn() is for.              *)
CardsKeepAColumn ==
    [][\A i \in Issue :
          IssueRow(i) /\ issue[i].column # NULL /\ IssueRow(i)' => issue'[i].column # NULL]_vars

(* When complete() commits, what stays in the sprint and stands in a       *)
(* column stands in a DONE column.                                         *)
CompletionSweepsBoard ==
    [][\A s \in Sprint : sprint[s] = "ACTIVE" /\ sprint'[s] = "COMPLETED" =>
          \A i \in Issue : issue'[i].sprint = s =>
              issue'[i].column = NULL \/ column'[issue'[i].column] = "DONE"]_vars

(* completedAt changes only to agree with the category the column has at   *)
(* that moment: what an atomic lookup and update in move() would give.     *)
StampMatchesColumn ==
    [][\A i \in Issue : IssueRow(i)' /\ issue'[i].completed # issue[i].completed =>
          /\ issue'[i].column # NULL
          /\ issue'[i].completed = (column[issue'[i].column] = "DONE")]_vars

(* What every handler is written as if it were: its checks and its writes  *)
(* happen at once (AtomicBoard).  Requests may overlap, as long as none    *)
(* overtakes another: no write is then refused, and every write does what  *)
(* the operation would do at that moment.                                  *)
Atomic == INSTANCE AtomicBoard
HandlersAtomic == Atomic!Spec

=============================================================================
