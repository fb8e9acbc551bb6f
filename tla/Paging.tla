------------------------------- MODULE Paging -------------------------------
(***************************************************************************)
(* Lists that are read page by page, newest first, while rows come and go. *)
(* Issues, activity, users and workspaces go on after the last row of the  *)
(* page before, the cursor, and fetch one row more than they show; the     *)
(* audit log, the request log and the mail log count the rows and skip     *)
(* those of the pages before.                                              *)
(***************************************************************************)
EXTENDS Naturals, FiniteSets, Sequences, Functions

CONSTANTS
    ListRow,     \* row ids of the listed table
    Take,        \* rows on a page
    LastStamp,   \* createdAt goes up to this one
    HardCap      \* rows of a list that is not paged, ALL_ISSUES_HARD_CAP

ASSUME PagingAssumption ==
    /\ IsFiniteSet(ListRow) /\ "none" \notin ListRow
    /\ {Take, LastStamp} \subseteq Nat \ {0} /\ HardCap \in Nat

VARIABLES
    stamp,     \* stamp[r]: createdAt of the row, or Unwritten, or Deleted
    stampNow,  \* now
    client     \* the caller who pages

pagingVars == <<stamp, stampNow, client>>

-----------------------------------------------------------------------------
Unwritten == 0
Deleted == LastStamp + 1

Styles == {"cursor", "offset", "all"}

(* total: what count returned.  seen: how often each row was shown, 2 for  *)
(* twice or more.  The rest is history.  steady: rows there since the list *)
(* was opened, and not written at the instant of a boundary.  fresh: rows  *)
(* written after the instant of the cursor.  lost: a known reason to miss  *)
(* rows came up.                                                           *)
ClientRecord ==
    [pc: {"idle", "count", "read", "done"}, style: Styles, cursor: ListRow \cup {"none"},
     page: Nat, total: Nat, seen: [ListRow -> 0 .. 2], steady: SUBSET ListRow,
     fresh: SUBSET ListRow, lost: BOOLEAN]
NoClient ==
    [pc |-> "idle", style |-> "all", cursor |-> "none", page |-> 1, total |-> 0,
     seen |-> [r \in ListRow |-> 0], steady |-> {}, fresh |-> {}, lost |-> FALSE]

PagingTypeOK ==
    /\ stamp \in [ListRow -> Unwritten .. Deleted]
    /\ stampNow \in 1 .. LastStamp
    /\ client \in ClientRecord

PagingInit ==
    /\ stamp = [r \in ListRow |-> Unwritten]
    /\ stampNow = 1
    /\ client = NoClient

Listed == {r \in ListRow : stamp[r] \in 1 .. LastStamp}
TiedTo(c) == {r \in Listed \ {c} : stamp[r] = stamp[c]}

(* orderBy createdAt desc: rows with one createdAt, as those of one        *)
(* transaction have, come in any order, and in another one next time.      *)
Ordered(rows) == \A i, j \in DOMAIN rows : i < j => stamp[rows[i]] >= stamp[rows[j]]
Orders == {rows \in Bijection(1 .. Cardinality(Listed), Listed) : Ordered(rows)}

UpTo(rows, n) == SubSeq(rows, 1, IF n < Len(rows) THEN n ELSE Len(rows))
From(rows, n) == SubSeq(rows, n + 1, Len(rows))

-----------------------------------------------------------------------------
(* Rows are written with the present time, and deleted by their ids, with  *)
(* what they belong to, or by age.  Nobody looks after the last page.      *)
Open == client.pc \in {"count", "read"}
AfterFirstPage == client.cursor \in ListRow /\ stamp[client.cursor] < stampNow

AddRow(r) ==
    /\ client.pc # "done"
    /\ stamp[r] = Unwritten
    /\ stamp' = [stamp EXCEPT ![r] = stampNow]
    /\ client' = IF ~Open THEN client
                 ELSE [client EXCEPT !.fresh = IF AfterFirstPage THEN @ \cup {r} ELSE @,
                                     !.lost = @ \/ (client.style = "offset" /\ client.pc = "read")]
    /\ UNCHANGED stampNow

RemoveRow(r) ==
    /\ client.pc # "done"
    /\ r \in Listed
    /\ stamp' = [stamp EXCEPT ![r] = Deleted]
    /\ client' = [client EXCEPT !.steady = @ \ {r},
                                !.fresh = @ \ {r},
                                !.lost = @ \/ IF client.style = "cursor" THEN client.cursor = r
                                             ELSE \E q \in Listed : stamp[q] < stamp[r]]
    /\ UNCHANGED stampNow

NextStamp ==
    /\ stampNow < LastStamp
    /\ stampNow' = stampNow + 1
    /\ UNCHANGED <<stamp, client>>

-----------------------------------------------------------------------------
OpenList(style) ==
    /\ client.pc = "idle"
    /\ client' = [NoClient EXCEPT !.pc = IF style = "offset" THEN "count" ELSE "read",
                                  !.style = style, !.steady = Listed]
    /\ UNCHANGED <<stamp, stampNow>>

(* Rows with one createdAt may change places around a page boundary. *)
Blurred(last) ==
    IF last # "none" THEN TiedTo(last)
    ELSE IF client.style = "offset" THEN {r \in Listed : TiedTo(r) # {}} ELSE {}

Seen(n) == IF n = 0 THEN 1 ELSE 2

Show(rows, more, last) ==
    [client EXCEPT !.seen = [r \in ListRow |-> IF r \in Range(rows) THEN Seen(@[r]) ELSE @[r]],
                   !.pc = IF ~more THEN "done" ELSE IF last = "none" THEN "count" ELSE "read",
                   !.page = IF last = "none" THEN @ + 1 ELSE @,
                   !.cursor = last,
                   !.steady = @ \ Blurred(last),
                   !.fresh = @ \ Blurred(last)]

(* What follows the cursor: skip 1 leaves the cursor itself out.  A cursor *)
(* whose row is gone selects nothing.                                      *)
FromCursor(rows) ==
    IF client.cursor = "none" THEN rows
    ELSE IF client.cursor \in Range(rows)
         THEN From(rows, AntiFunction(rows)[client.cursor] - 1) ELSE <<>>

AfterCursor(rows) ==
    IF client.cursor = "none" THEN rows
    ELSE IF client.cursor \in Range(rows)
         THEN From(rows, AntiFunction(rows)[client.cursor]) ELSE <<>>

(* One row more than the page shows whether there are more. *)
ReadCursorPage(rows) ==
    /\ client.pc = "read" /\ client.style = "cursor"
    /\ rows \in Orders
    /\ LET items == UpTo(AfterCursor(rows), Take + 1)
           data == UpTo(items, Take)
           hasMore == Len(items) > Take IN
          client' = IF hasMore THEN Show(data, TRUE, data[Len(data)])
                    ELSE [Show(data, FALSE, "none") EXCEPT !.cursor = client.cursor]
    /\ UNCHANGED <<stamp, stampNow>>

(* findAll of the logs: $transaction([count, findMany]) at READ COMMITTED  *)
(* is two reads.                                                           *)
CountRows ==
    /\ client.pc = "count"
    /\ client' = [client EXCEPT !.pc = "read", !.total = Cardinality(Listed)]
    /\ UNCHANGED <<stamp, stampNow>>

TotalPages(total) == (total + Take - 1) \div Take

ReadOffsetPage(rows) ==
    /\ client.pc = "read" /\ client.style = "offset"
    /\ rows \in Orders
    /\ client' = Show(UpTo(From(rows, (client.page - 1) * Take), Take),
                      client.page < TotalPages(client.total), "none")
    /\ UNCHANGED <<stamp, stampNow>>

(* take 0: everything at once, up to the cap *)
ReadAll(rows) ==
    /\ client.pc = "read" /\ client.style = "all"
    /\ rows \in Orders
    /\ client' = [Show(UpTo(rows, HardCap), FALSE, "none") EXCEPT
                      !.lost = Len(rows) > HardCap]
    /\ UNCHANGED <<stamp, stampNow>>

CloseList ==
    /\ client.pc # "idle"
    /\ client' = NoClient
    /\ UNCHANGED <<stamp, stampNow>>

PagingNext ==
    \/ \E r \in ListRow : AddRow(r) \/ RemoveRow(r)
    \/ NextStamp
    \/ \E style \in Styles : OpenList(style)
    \/ \E rows \in Orders : ReadCursorPage(rows) \/ ReadOffsetPage(rows) \/ ReadAll(rows)
    \/ CountRows
    \/ CloseList

PagingSpec == PagingInit /\ [][PagingNext]_pagingVars

-----------------------------------------------------------------------------
(* A list read to its end shows every row that was there all the while:    *)
(* once when it follows a cursor, and no row of after the first page; at   *)
(* least once when it counts pages, for rows that come in push others to   *)
(* the next page.  What it may miss has a known reason: the row of the     *)
(* cursor was deleted, a row came in between the count and the rows of a   *)
(* page, a row went from the middle, or the hard cap cut the list.         *)
PagesComplete ==
    client.pc = "done" /\ ~client.lost =>
        /\ \A r \in client.steady :
              /\ client.seen[r] >= 1
              /\ client.seen[r] > 1 => client.style = "offset" /\ client.cursor = "none"
        /\ \A r \in client.fresh : client.seen[r] = 0
=============================================================================
