----------------------------- MODULE Statistics -----------------------------
(***************************************************************************)
(* Answers that are put together from several reads: the numbers of the    *)
(* admin pages (AdminService), the dashboard (IssuesService) and the       *)
(* export of one's data (GdprService).  The reads run in parallel, or in a *)
(* transaction at READ COMMITTED, so each of them may see another state,   *)
(* while rows are written, change hands or column and are deleted.         *)
(***************************************************************************)
EXTENDS Integers, FiniteSets

CONSTANTS
    Item,          \* rows of RequestLog, User, Issue, Workspace, ...
    RouteOf(_),    \* what the row is grouped by: its route, its user
    TicksPerDay,
    Window,        \* days of a chart
    LastTick,      \* ticks go up to this one
    ListTake       \* rows, or groups, of a list that is cut

ASSUME StatisticsAssumption ==
    /\ {TicksPerDay, Window, ListTake} \subseteq Nat \ {0}
    /\ LastTick \in Nat

VARIABLES
    table,     \* table[r]: the row
    tick,      \* now
    answer     \* the request that is being answered

statisticsVars == <<table, tick, answer>>

-----------------------------------------------------------------------------
(* at: createdAt.  picked: the row has what a read asks for beside its     *)
(* age: it names a user, is the caller's, is not DONE.                     *)
ItemRecord == [state: {"UNUSED", "LIVE", "GONE"}, at: 0 .. LastTick, picked: BOOLEAN]
NoItem == [state |-> "UNUSED", at |-> 0, picked |-> FALSE]

(* The answers, and the reads each of them makes; reads of several tables  *)
(* that select and cut alike are one.                                      *)
GetAnalytics == {"perDay", "pickedPerDay"}
GetStats == {"all", "lastDay", "pickedLastDay", "newest"}
GetMetrics == {"lastDay", "topRoutes", "slowest"}
GetUserActivity == {"recent", "topPicked", "pickedLastDay"}
ExportMyData == {"newestPicked", "picked"}
FindMyDashboard == {"picked", "firstPicked"}
GetWorkspaceById == {"all", "picked", "newest"}

ReadsOf ==
    [analytics |-> GetAnalytics, stats |-> GetStats, metrics |-> GetMetrics,
     activity |-> GetUserActivity, export |-> ExportMyData, dashboard |-> FindMyDashboard,
     workspace |-> GetWorkspaceById]
Answers == DOMAIN ReadsOf
AllReads == UNION {ReadsOf[kind] : kind \in Answers}

(* What the reads ask of createdAt and of the other columns, what they     *)
(* order by it, and what they group.  "slowest" is ordered by durationMs,  *)
(* "firstPicked" by updatedAt.                                             *)
PerDay == {"perDay", "pickedPerDay"}
LastDay == {"lastDay", "pickedLastDay", "topRoutes", "topPicked", "slowest", "recent"}
PickedOnly == {"pickedPerDay", "pickedLastDay", "topPicked", "recent", "picked", "firstPicked",
               "newestPicked"}
NewestFirst == {"recent", "newest", "newestPicked"}
Grouped == {"topRoutes", "topPicked"}
CutReads == NewestFirst \cup Grouped \cup {"slowest", "firstPicked"}

(* got[q]: the rows that read q returned, or counted in the groups it      *)
(* returned.  steady: rows that are as they were when the request began;   *)
(* begun: the tick of that.                                                *)
AnswerRecord ==
    [pc: {"idle", "reading", "done"}, kind: Answers, begun: 0 .. LastTick, since: Int,
     left: SUBSET AllReads, got: [AllReads -> SUBSET Item], steady: SUBSET Item]
NoAnswer ==
    [pc |-> "idle", kind |-> "stats", begun |-> 0, since |-> 0, left |-> {},
     got |-> [q \in AllReads |-> {}], steady |-> {}]

StatisticsTypeOK ==
    /\ table \in [Item -> ItemRecord]
    /\ tick \in 0 .. LastTick
    /\ answer \in AnswerRecord

StatisticsInit ==
    /\ table = [r \in Item |-> NoItem]
    /\ tick = 0
    /\ answer = NoAnswer

LiveItems == {r \in Item : table[r].state = "LIVE"}
Day(t) == t \div TicksPerDay

-----------------------------------------------------------------------------
Disturb(r) == answer' = [answer EXCEPT !.steady = @ \ {r}]
Busy == answer.pc # "done"

WriteItem(r, picked) ==
    /\ Busy
    /\ table[r].state = "UNUSED"
    /\ table' = [table EXCEPT ![r] = [state |-> "LIVE", at |-> tick, picked |-> picked]]
    /\ UNCHANGED <<tick, answer>>

(* An issue is assigned, starred or moved between columns. *)
ChangeItem(r) ==
    /\ Busy
    /\ r \in LiveItems
    /\ table' = [table EXCEPT ![r].picked = ~@]
    /\ Disturb(r)
    /\ UNCHANGED tick

(* Deleted by age, by a user, or with what the row belongs to *)
DeleteItem(r) ==
    /\ Busy
    /\ r \in LiveItems
    /\ table' = [table EXCEPT ![r] = [NoItem EXCEPT !.state = "GONE"]]
    /\ Disturb(r)
    /\ UNCHANGED tick

NextTick ==
    /\ Busy
    /\ tick < LastTick
    /\ tick' = tick + 1
    /\ UNCHANGED <<table, answer>>

-----------------------------------------------------------------------------
(* getAnalytics goes back whole days and then to their beginning, since    *)
(* setUTCHours(0, 0, 0, 0); the others go back to the moment.              *)
DaysBack(t) == Day(t - (Window - 1) * TicksPerDay) * TicksPerDay

BeginAnswer(kind) ==
    /\ answer.pc = "idle"
    /\ answer' = [NoAnswer EXCEPT
                     !.pc = "reading", !.kind = kind, !.begun = tick,
                     !.since = IF kind = "analytics" THEN DaysBack(tick) ELSE tick - TicksPerDay,
                     !.left = ReadsOf[kind], !.steady = LiveItems]
    /\ UNCHANGED <<table, tick>>

Selected(q) ==
    {r \in LiveItems : /\ q \in PerDay \cup LastDay => table[r].at >= answer.since
                      /\ q \in PickedOnly => table[r].picked}

(* orderBy with take: the newest ones or, in an order by what is not       *)
(* modelled, any                                                           *)
FirstOf(q, rows) ==
    IF Cardinality(rows) <= ListTake THEN {rows}
    ELSE {S \in SUBSET rows :
             /\ Cardinality(S) = ListTake
             /\ q \in NewestFirst => \A r \in S, x \in rows \ S : table[r].at >= table[x].at}

(* GROUP BY with LIMIT: the routes with the most rows *)
Routes(rows) == {RouteOf(r) : r \in rows}
RowsOn(rows, route) == {r \in rows : RouteOf(r) = route}

TopOf(rows) ==
    IF Cardinality(Routes(rows)) <= ListTake THEN {rows}
    ELSE {S \in SUBSET rows :
             /\ Cardinality(Routes(S)) = ListTake
             /\ \A route \in Routes(S) :
                   /\ RowsOn(rows, route) \subseteq S
                   /\ \A other \in Routes(rows) \ Routes(S) :
                         Cardinality(RowsOn(rows, route)) >= Cardinality(RowsOn(rows, other))}

Returns(q, rows) ==
    IF q \in Grouped THEN TopOf(rows)
    ELSE IF q \in CutReads THEN FirstOf(q, rows)
    ELSE {rows}

RunRead(q) ==
    /\ q \in answer.left
    /\ \E rows \in Returns(q, Selected(q)) :
          answer' = [answer EXCEPT !.left = @ \ {q}, !.got[q] = rows,
                                   !.pc = IF answer.left = {q} THEN "done" ELSE "reading"]
    /\ UNCHANGED <<table, tick>>

(* The answer is sent, or one read fails and with it the request. *)
EndAnswer ==
    /\ answer.pc # "idle"
    /\ answer' = NoAnswer
    /\ UNCHANGED <<table, tick>>

StatisticsNext ==
    \/ \E r \in Item :
          \/ \E picked \in BOOLEAN : WriteItem(r, picked)
          \/ ChangeItem(r)
          \/ DeleteItem(r)
    \/ NextTick
    \/ \E kind \in Answers : BeginAnswer(kind)
    \/ \E q \in AllReads : RunRead(q)
    \/ EndAnswer

StatisticsSpec == StatisticsInit /\ [][StatisticsNext]_statisticsVars

-----------------------------------------------------------------------------
(* bucketKeys: the days of the chart, and the rows of one of them.  A row  *)
(* of another day than these falls under the table.                        *)
BucketKeys == {Day(answer.since) + i : i \in 0 .. Window - 1}
Bucket(q, d) == {r \in answer.got[q] : Day(table[r].at) = d}

(* What a chart that began at this tick promises to cover *)
ChartDays == Day(answer.begun) - Window + 1 .. Day(answer.begun)

Due(q, r) ==
    /\ q \in PerDay => Day(table[r].at) \in ChartDays
    /\ q \in LastDay => table[r].at >= answer.begun - TicksPerDay
    /\ q \in PickedOnly => table[r].picked

(* A row may be left out by a read that is cut: one that is ordered by age *)
(* is full of rows not older (unless deleted since), one that groups has   *)
(* as many routes as it shows and this row's is none of them.              *)
CutOff(q, r) ==
    /\ q \in CutReads
    /\ IF q \in Grouped
       THEN /\ Cardinality(Routes(answer.got[q])) = ListTake
            /\ RouteOf(r) \notin Routes(answer.got[q])
       ELSE /\ Cardinality(answer.got[q]) = ListTake
            /\ q \in NewestFirst => \A x \in answer.got[q] \cap LiveItems :
                                       table[x].at >= table[r].at

(* Every read of an answer returns the rows that were due to it while the  *)
(* request ran, up to its limit, although the reads see different states   *)
(* and midnight may pass between them.  A chart has a bucket for each of   *)
(* its days, the last one today's ("so e.g. days=14 returns 14 buckets up  *)
(* to today"), and none misses a row.  Of the rows due, a list that is cut *)
(* misses only older ones when it is ordered by age, and the numbers of a  *)
(* route that is shown miss none.                                          *)
AnswersComplete ==
    answer.pc = "done" =>
        /\ answer.kind = "analytics" => BucketKeys = ChartDays
        /\ \A q \in ReadsOf[answer.kind] : \A r \in {x \in answer.steady : Due(q, x)} :
              IF answer.kind = "analytics"
              THEN r \in Bucket(q, Day(table[r].at)) /\ Day(table[r].at) \in BucketKeys
              ELSE r \in answer.got[q] \/ CutOff(q, r)
=============================================================================
