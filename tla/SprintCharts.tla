---------------------------- MODULE SprintCharts ----------------------------
(***************************************************************************)
(* The charts of a board: burndown, velocity and cumulative flow, computed *)
(* by SprintsService from the issues as they are now and the stamps they   *)
(* carry, while issues are worked on and the sprint runs.  Each chart is   *)
(* one read; Board has the handlers in their steps.  Time passes in half   *)
(* days, and a date is a whole day.                                        *)
(***************************************************************************)
EXTENDS Integers, FiniteSets

CONSTANTS
    Card,        \* issues of the project
    Pointed,     \* those that have story points
    Points,      \* story points of each of these
    FlowDays,    \* days of the cumulative flow
    LastHalf,    \* half days go up to this one
    DatesGiven   \* dates that users type in

ASSUME SprintChartsAssumption ==
    /\ IsFiniteSet(Card) /\ Pointed \subseteq Card /\ Points \in Nat /\ FlowDays \in Nat \ {0} /\ LastHalf \in Nat
    /\ DatesGiven \subseteq 0 .. LastHalf

VARIABLES
    half,      \* now
    card,      \* card[c]: the issue
    scrum,     \* the sprint: status, startDate, endDate
    meddled    \* the sprint or one of its cards changed since it was completed

sprintChartsVars == <<half, card, scrum, meddled>>

-----------------------------------------------------------------------------
Halves == 0 .. LastHalf
NoDate == -1
ToDate(h) == h \div 2

(* column: the category of the card's column, or that it has none.  done:  *)
(* completedAt, which only a move sets.                                    *)
Columns == {"none", "open", "done"}
CardRecord ==
    [there: BOOLEAN, made: Halves, column: Columns, done: Halves \cup {NoDate},
     planned: BOOLEAN]
NoCard == [there |-> FALSE, made |-> 0, column |-> "none", done |-> NoDate, planned |-> FALSE]

ScrumRecord ==
    [status: {"PLANNING", "ACTIVE", "COMPLETED"}, start: Halves \cup {NoDate},
     end: Halves \cup {NoDate}]
NewScrum == [status |-> "PLANNING", start |-> NoDate, end |-> NoDate]

SprintChartsTypeOK ==
    /\ half \in Halves
    /\ card \in [Card -> CardRecord]
    /\ scrum \in ScrumRecord
    /\ meddled \in BOOLEAN

SprintChartsInit ==
    /\ half = 0
    /\ card = [c \in Card |-> NoCard]
    /\ scrum = NewScrum
    /\ meddled = FALSE

Cards == {c \in Card : card[c].there}
Planned == {c \in Cards : card[c].planned}
StampedCards(S) == {c \in S : card[c].done # NoDate}
InColumn(S, column) == {c \in S : card[c].column = column}

-----------------------------------------------------------------------------
(* getBurndown: a card without points counts as 1. *)
Sum(S) == Points * Cardinality(S \cap Pointed) + Cardinality(S \ Pointed)
TotalPoints == Sum(Planned)

EndDate == IF scrum.end = NoDate THEN half ELSE scrum.end

(* Math.max(1, Math.ceil(...)) *)
AtLeastOne(n) == IF n < 1 THEN 1 ELSE n
TotalDays == AtLeastOne((EndDate - scrum.start + 1) \div 2)

BurndownDays == 0 .. TotalDays
DateOf(d) == ToDate(scrum.start) + d
Actual(d) ==
    TotalPoints - Sum({c \in StampedCards(Planned) : ToDate(card[c].done) <= DateOf(d)})

(* getCumulativeFlow: no Activity row has the field it looks for, so every *)
(* card of a day is in the column it has now; without one it is left out.  *)
FlowWindow == ToDate(half) - (FlowDays - 1) .. ToDate(half)
FlowOn(d, S) == Cardinality({c \in S : ToDate(card[c].made) <= d})
Flow(d) == [column \in Columns \ {"none"} |-> FlowOn(d, InColumn(Cards, column))]

-----------------------------------------------------------------------------
Meddle == meddled' = (meddled \/ scrum.status = "COMPLETED")

(* A new card goes to the board's first column, of whichever category. *)
MakeCard(c, column, planned) ==
    /\ card[c] = NoCard
    /\ card' = [card EXCEPT ![c] = [there |-> TRUE, made |-> half, column |-> column,
                                    done |-> NoDate, planned |-> planned]]
    /\ Meddle
    /\ UNCHANGED <<half, scrum>>

(* move: the stamp follows the column the card goes to, each time anew. *)
MoveCard(c, column) ==
    /\ c \in Cards
    /\ column # "none"
    /\ card' = [card EXCEPT ![c].column = column,
                            ![c].done = IF column = "done" THEN half ELSE NoDate]
    /\ Meddle
    /\ UNCHANGED <<half, scrum>>

(* updateColumn gives the column another category; the cards on it keep    *)
(* their stamps.                                                           *)
TurnColumn(S, column) ==
    /\ S # {} /\ S \subseteq Cards
    /\ column # "none" /\ \A c \in S : card[c].column \notin {"none", column}
    /\ card' = [c \in Card |-> IF c \in S THEN [card[c] EXCEPT !.column = column] ELSE card[c]]
    /\ Meddle
    /\ UNCHANGED <<half, scrum>>

(* update and the bulk update: in and out of the sprint *)
PlanCard(c, planned) ==
    /\ c \in Cards
    /\ card' = [card EXCEPT ![c].planned = planned]
    /\ Meddle
    /\ UNCHANGED <<half, scrum>>

DropCard(c) ==
    /\ c \in Cards
    /\ card' = [card EXCEPT ![c] = NoCard]
    /\ UNCHANGED <<half, scrum, meddled>>

(* create and update of the sprint: dates that the user sets *)
SetDates(start, end) ==
    /\ scrum' = [scrum EXCEPT !.start = start, !.end = end]
    /\ Meddle
    /\ UNCHANGED <<half, card>>

Start ==
    /\ scrum.status = "PLANNING"
    /\ scrum' = [scrum EXCEPT !.status = "ACTIVE",
                              !.start = IF @ = NoDate THEN half ELSE @]
    /\ UNCHANGED <<half, card, meddled>>

(* complete: what is in a column and not done leaves the sprint, endDate   *)
(* is now.                                                                 *)
CompleteScrum ==
    /\ scrum.status = "ACTIVE"
    /\ scrum' = [scrum EXCEPT !.status = "COMPLETED", !.end = half]
    /\ card' = [c \in Card |-> [card[c] EXCEPT !.planned = @ /\ card[c].column # "open"]]
    /\ UNCHANGED <<half, meddled>>

NextHalf ==
    /\ half < LastHalf
    /\ half' = half + 1
    /\ UNCHANGED <<card, scrum, meddled>>

SprintChartsNext ==
    \/ \E c \in Card :
          \/ \E column \in Columns, planned \in BOOLEAN :
                MakeCard(c, column, planned)
          \/ \E column \in Columns : MoveCard(c, column)
          \/ \E planned \in BOOLEAN : PlanCard(c, planned)
          \/ DropCard(c)
    \/ \E S \in SUBSET Card, column \in Columns : TurnColumn(S, column)
    \/ \E start, end \in DatesGiven : SetDates(start, end)
    \/ Start
    \/ CompleteScrum
    \/ NextHalf

SprintChartsSpec == SprintChartsInit /\ [][SprintChartsNext]_sprintChartsVars

-----------------------------------------------------------------------------
(* The charts add up.  A burndown never rises, and that of a completed     *)
(* sprint that nobody changed since ends at zero: complete moves the rest  *)
(* out and sets the end to now, and the last day of the chart is not       *)
(* before that.  Cards that have no column, or whose column was turned into a     *)
(* DONE column, never got their stamp and are the exception.  Every card   *)
(* on the board is once in the flow of each day since it was made, and     *)
(* today's flow is the board.                                              *)
ChartsAddUp ==
    /\ scrum.start # NoDate =>
          /\ \A d \in BurndownDays : Actual(d) >= 0
          /\ \A d \in BurndownDays \ {0} : Actual(d) <= Actual(d - 1)
    /\ /\ scrum.status = "COMPLETED" /\ ~meddled
       /\ InColumn(Planned, "done") \cup InColumn(Planned, "none") \subseteq StampedCards(Planned)
       => Actual(TotalDays) = 0
    /\ LET onBoard == Cards \ InColumn(Cards, "none") IN
          /\ \A d \in FlowWindow :
                Flow(d)["done"] + Flow(d)["open"] =
                    Cardinality({c \in onBoard : card[c].made < 2 * (d + 1)})
          /\ Flow(ToDate(half))["done"] = Cardinality(InColumn(Cards, "done"))
=============================================================================
