------------------------------ MODULE Recurring -----------------------------
(***************************************************************************)
(* RecurringIssuesService: the rules of a project, the operations of its   *)
(* managers, and the cron job that makes an issue for every rule that is   *)
(* due.  The job reads due rules, then for each makes the issue in a       *)
(* transaction and writes the next run in a call of its own.  Its schedule *)
(* is midnight on the first of January.  Time passes in hours; months and  *)
(* weeks are periods of some number of days.                               *)
(***************************************************************************)
EXTENDS Integers, FiniteSets

CONSTANTS
    Rule,         \* rule row ids
    Periods,      \* lengths of RecurringFrequency, in days
    HoursPerDay,  \* 24; bound: fewer in a run
    DaysPerYear,  \* 365; bound: fewer in a run
    JobTake,      \* most rules of a run of the job, 200; bound: fewer in a run
    MaxLate,      \* bound: a rule due for longer counts as due that long
    MaxLapses     \* bound: lost advances of a rule in a row

ASSUME RecurringAssumption ==
    /\ HoursPerDay \in Nat \ {0}
    /\ DaysPerYear \in Nat \ {0}
    /\ MaxLate \in Nat
    /\ MaxLapses \in Nat
    /\ JobTake \in Nat \ {0}
    /\ Periods \subseteq Nat \ {0} /\ Periods # {}

VARIABLES
    clock,   \* hours since the year began
    tick,    \* the cron's timer has gone off within the hour
    rule,    \* rule[r]: a RecurringIssueRule row
    job,     \* where the cron job is
    slots    \* slots[r]: issues made, and advances lost, since nextRunAt was written

recurringVars == <<clock, tick, rule, job, slots>>

-----------------------------------------------------------------------------
Hours == 0..HoursPerDay - 1
HoursPerYear == DaysPerYear * HoursPerDay

(* malformed: parseTemplate returns null.  broken: the transaction fails,  *)
(* as it does when an assignee is gone, and when a label is gone as well:  *)
(* the failed insert is caught, but it has aborted the transaction.        *)
Templates == {"good", "malformed", "broken"}

Plan == [hour: Hours, period: Periods, template: Templates]

(* next: the hours until nextRunAt *)
RuleRecord ==
    [row: {"UNUSED", "LIVE", "GONE"}, enabled: BOOLEAN, plan: Plan, next: Int]

JobRecord ==
    [pc: {"idle", "spawn", "advance", "rescue"}, todo: SUBSET Rule, seen: [Rule -> Plan]]

RecurringTypeOK ==
    /\ clock \in 0..HoursPerYear - 1
    /\ tick \in BOOLEAN
    /\ rule \in [Rule -> RuleRecord]
    /\ job \in JobRecord
    /\ slots \in [Rule -> [made: Nat, lapses: 0..MaxLapses]]

FirstPlan == [hour |-> 0, period |-> CHOOSE p \in Periods : TRUE, template |-> "good"]
NoRule == [row |-> "UNUSED", enabled |-> FALSE, plan |-> FirstPlan, next |-> 0]
NoSlots == [made |-> 0, lapses |-> 0]
NoJob == [pc |-> "idle", todo |-> {}, seen |-> [r \in Rule |-> FirstPlan]]

RecurringInit ==
    /\ clock = 0
    /\ tick = FALSE
    /\ rule = [r \in Rule |-> NoRule]
    /\ job = NoJob
    /\ slots = [r \in Rule |-> NoSlots]

LiveRule(r) == rule[r].row = "LIVE"
IsDue(r) == LiveRule(r) /\ rule[r].enabled /\ rule[r].next <= 0

(* computeNextRun(new Date(), plan, advance), in hours from now *)
NextRun(plan, advance) ==
    LET today == plan.hour - (clock % HoursPerDay)
    IN  IF ~advance /\ today > 0
        THEN today
        ELSE today + plan.period * HoursPerDay

(* nextRunAt of r is written; a row that is gone is not. *)
Advanced(r, plan) ==
    /\ rule' = [rule EXCEPT ![r].next = NextRun(plan, TRUE)]
    /\ slots' = [slots EXCEPT ![r] = NoSlots]

-----------------------------------------------------------------------------
(* The operations of the managers *)

CreateRule(r, plan) ==
    /\ rule[r].row = "UNUSED"
    /\ rule' = [rule EXCEPT ![r] = [row |-> "LIVE", enabled |-> TRUE, plan |-> plan,
                                    next |-> NextRun(plan, FALSE)]]
    /\ UNCHANGED <<clock, tick, job, slots>>

(* The next run is computed again only when the hour or frequency is given. *)
UpdatePlan(r, plan) ==
    /\ LiveRule(r)
    /\ rule' = [rule EXCEPT ![r].plan = plan, ![r].next = NextRun(plan, FALSE)]
    /\ slots' = [slots EXCEPT ![r] = NoSlots]
    /\ UNCHANGED <<clock, tick, job>>

UpdateOther(r, enabled, template) ==
    /\ LiveRule(r)
    /\ rule' = [rule EXCEPT ![r].enabled = enabled, ![r].plan.template = template]
    /\ UNCHANGED <<clock, tick, job, slots>>

DeleteRule(r) ==
    /\ LiveRule(r)
    /\ rule' = [rule EXCEPT ![r] = [NoRule EXCEPT !.row = "GONE"]]
    /\ slots' = [slots EXCEPT ![r] = NoSlots]
    /\ UNCHANGED <<clock, tick, job>>

-----------------------------------------------------------------------------
(* runDueRules *)

Due == {r \in Rule : IsDue(r)}

(* The query has no order: which of too many due rules come is open. *)
JobRead ==
    /\ tick
    /\ job.pc = "idle"
    /\ tick' = FALSE
    /\ \E todo \in SUBSET Due :
          /\ \/ todo = Due /\ Cardinality(Due) <= JobTake
             \/ Cardinality(todo) = JobTake
          /\ job' = IF todo = {} THEN NoJob
                    ELSE [pc |-> "spawn", todo |-> todo,
                          seen |-> [r \in Rule |-> IF r \in todo THEN rule[r].plan ELSE FirstPlan]]
    /\ UNCHANGED <<clock, rule, slots>>

(* The rules are taken in the order they were read, which is any order. *)
Current == CHOOSE r \in job.todo : TRUE
Step(pc) == job' = [job EXCEPT !.pc = pc]
NextRule ==
    job' = IF job.todo = {Current}
           THEN NoJob
           ELSE [job EXCEPT !.pc = "spawn", !.todo = @ \ {Current}, !.seen[Current] = FirstPlan]

(* The issue is made even when the rule was deleted meanwhile, unless its   *)
(* whole project is gone.                                                   *)
JobSpawn ==
    /\ job.pc = "spawn"
    /\ \/ /\ job.seen[Current].template = "good"
          /\ slots' = [slots EXCEPT ![Current].made = @ + 1]
       \/ /\ \/ job.seen[Current].template = "malformed"
             \/ job.seen[Current].template = "good" /\ ~LiveRule(Current)
          /\ UNCHANGED slots
    /\ Step("advance")
    /\ UNCHANGED <<clock, tick, rule>>

JobSpawnFails ==
    /\ job.pc = "spawn"
    /\ Step("rescue")
    /\ UNCHANGED <<clock, tick, rule, slots>>

JobAdvance ==
    /\ job.pc = "advance"
    /\ IF LiveRule(Current)
       THEN Advanced(Current, job.seen[Current]) /\ NextRule
       ELSE Step("rescue") /\ UNCHANGED <<rule, slots>>
    /\ UNCHANGED <<clock, tick>>

JobAdvanceFails ==
    /\ job.pc = "advance"
    /\ Step("rescue")
    /\ UNCHANGED <<clock, tick, rule, slots>>

(* The catch block: the rule is moved on whatever failed. *)
JobRescueNothing ==
    /\ job.pc = "rescue"
    /\ NextRule
    /\ UNCHANGED <<clock, tick, rule, slots>>

JobRescue ==
    /\ job.pc = "rescue"
    /\ IF LiveRule(Current)
       THEN Advanced(Current, job.seen[Current])
       ELSE UNCHANGED <<rule, slots>>
    /\ NextRule
    /\ UNCHANGED <<clock, tick>>

(* Its failure is logged and the rule stays due. *)
JobRescueFails ==
    /\ job.pc = "rescue"
    /\ slots[Current].lapses < MaxLapses
    /\ NextRule
    /\ slots' = [slots EXCEPT ![Current].lapses = @ + 1]
    /\ UNCHANGED <<clock, tick, rule>>

JobCrash ==
    /\ job.pc # "idle"
    /\ slots[Current].lapses < MaxLapses
    /\ job' = NoJob
    /\ slots' = [slots EXCEPT ![Current].lapses = @ + 1]
    /\ UNCHANGED <<clock, tick, rule>>

(* @Cron('0 0 0 1 1 *'), for a process that is up at that hour *)
HourPasses ==
    /\ clock' = (clock + 1) % HoursPerYear
    /\ tick' = (clock' = 0)
    /\ rule' = [r \in Rule |-> IF LiveRule(r) /\ rule[r].next > -MaxLate
                               THEN [rule[r] EXCEPT !.next = @ - 1]
                               ELSE rule[r]]
    /\ UNCHANGED <<job, slots>>

-----------------------------------------------------------------------------
RecurringNext ==
    \/ \E r \in Rule :
          \/ \E plan \in Plan : CreateRule(r, plan) \/ UpdatePlan(r, plan)
          \/ \E enabled \in BOOLEAN, t \in Templates : UpdateOther(r, enabled, t)
          \/ DeleteRule(r)
    \/ JobRead
    \/ JobSpawn
    \/ JobSpawnFails
    \/ JobAdvance
    \/ JobAdvanceFails
    \/ JobRescue
    \/ JobRescueFails
    \/ JobCrash
    \/ HourPasses

RecurringSpec == RecurringInit /\ [][RecurringNext]_recurringVars

-----------------------------------------------------------------------------
(* Between two writes of a rule's next run one issue is made of it, and    *)
(* one more only for every time the job stopped, or failed to write the    *)
(* next run in its catch block as well.                                    *)
OncePerSlot == \A r \in Rule : slots[r].made <= 1 + slots[r].lapses

(* A rule that is due moves on, be its template good, malformed or such    *)
(* that no issue can be made of it: it does not fire at every tick.  That  *)
(* is at the turn of some year, and if no more than JobTake are due.       *)
RuleMovesOn == \A r \in Rule : IsDue(r) ~> ~IsDue(r)
=============================================================================
