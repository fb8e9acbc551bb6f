---------------------------- MODULE Reads_proofs ------------------------------
(*****************************************************************************)
(* Theorems about what is read in several steps, for any number of rows that *)
(* come, go and change meanwhile: Paging, Statistics and SprintCharts.       *)
(*****************************************************************************)
EXTENDS Paging, Statistics, SprintCharts, FiniteSetTheorems, SequenceTheorems, TLAPS

-----------------------------------------------------------------------------
(* Lists that are read page by page.  Of rows that are steady and of those *)
(* that are fresh it is known where they stand to the page before.         *)

RowsListed ==
    /\ client.steady \cup client.fresh \subseteq Listed
    /\ Open => \A r \in ListRow : stamp[r] = Unwritten => client.seen[r] = 0

StylesFormed ==
    Open =>
        /\ client.page >= 1
        /\ client.style # "cursor" => client.cursor = "none" /\ client.fresh = {}
        /\ client.style # "offset" => client.pc = "read"
        /\ client.cursor = "none" /\ client.style # "offset" =>
              client.fresh = {} /\ \A r \in ListRow : client.seen[r] = 0

(* What is not older than the row of the cursor was shown, once.           *)
CursorBetween ==
    Open /\ client.cursor # "none" /\ ~client.lost =>
        /\ client.cursor \in Listed
        /\ \A r \in client.steady :
              /\ stamp[r] = stamp[client.cursor] => r = client.cursor
              /\ stamp[r] >= stamp[client.cursor] => client.seen[r] = 1
              /\ stamp[r] < stamp[client.cursor] => client.seen[r] = 0
        /\ \A r \in client.fresh :
              stamp[r] > stamp[client.cursor] /\ client.seen[r] = 0

(* As many rows as the pages before have are newer than what was not shown *)
(* yet, and no row came since they were counted.                           *)
Newer(r) == {q \in Listed : stamp[q] > stamp[r]}
PagesCounted ==
    Open /\ client.style = "offset" /\ ~client.lost =>
        /\ \A r \in client.steady :
              Cardinality(Newer(r)) < (client.page - 1) * Take => client.seen[r] >= 1
        /\ client.pc = "read" => Cardinality(Listed) <= client.total

PagingInv ==
    PagingTypeOK /\ RowsListed /\ StylesFormed /\ CursorBetween /\ PagesCounted /\ PagesComplete

LEMMA RowsFinite ==
    /\ IsFiniteSet(Listed) /\ Cardinality(Listed) \in Nat
    /\ \A r \in ListRow : IsFiniteSet(Newer(r)) /\ Cardinality(Newer(r)) \in Nat
<1>1. Listed \in SUBSET ListRow /\ \A r \in ListRow : Newer(r) \in SUBSET Listed
  BY DEF Listed, Newer
<1> QED
  BY <1>1, PagingAssumption, FS_Subset, FS_CardinalityType

(* In every order each row that is listed has its place, those that are    *)
(* newer before it and those that are older after it.                      *)
LEMMA OrdersPlace ==
    ASSUME PagingTypeOK, NEW rows \in Orders
    PROVE  /\ rows \in [1 .. Cardinality(Listed) -> Listed] /\ rows \in Seq(ListRow)
           /\ Len(rows) = Cardinality(Listed) /\ Len(rows) \in Nat
           /\ \A r \in Listed : \E i \in 1 .. Len(rows) : rows[i] = r
           /\ \A i, j \in 1 .. Len(rows) : rows[i] = rows[j] => i = j
           /\ \A i, j \in 1 .. Len(rows) :
                 /\ i < j => stamp[rows[i]] >= stamp[rows[j]]
                 /\ stamp[rows[i]] > stamp[rows[j]] => i < j
           /\ Range(rows) = Listed
<1>1. /\ rows \in [1 .. Cardinality(Listed) -> Listed] /\ IsInjective(rows)
      /\ \A r \in Listed : \E i \in 1 .. Cardinality(Listed) : rows[i] = r
      /\ Ordered(rows)
  BY DEF Orders, Bijection, Injection, Surjection
<1>2. Cardinality(Listed) \in Nat /\ Listed \subseteq ListRow
  BY RowsFinite DEF Listed
<1>3. rows \in Seq(ListRow) /\ Len(rows) = Cardinality(Listed) /\ DOMAIN rows = 1 .. Len(rows)
  BY <1>1, <1>2
<1>4. \A i, j \in 1 .. Len(rows) :
         /\ stamp[rows[i]] \in Int /\ stamp[rows[j]] \in Int
         /\ i < j => stamp[rows[i]] >= stamp[rows[j]]
  BY <1>1, <1>3, PagingAssumption DEF Ordered, Listed
<1>5. \A i, j \in 1 .. Len(rows) : stamp[rows[i]] > stamp[rows[j]] => i < j
  <2> SUFFICES ASSUME NEW i \in 1 .. Len(rows), NEW j \in 1 .. Len(rows),
                      stamp[rows[i]] > stamp[rows[j]], ~(i < j)
               PROVE  FALSE
    OBVIOUS
  <2>1. i = j \/ j < i
    BY <1>2, <1>3
  <2> QED
    BY <1>4, <2>1
<1>6. Range(rows) = Listed
  BY <1>1, <1>3 DEF Range
<1> QED
  BY <1>1, <1>2, <1>3, <1>4, <1>5, <1>6 DEF IsInjective

(* A row that no other ties has its newer ones before it, and only those.  *)
LEMMA PlaceCounts ==
    ASSUME PagingTypeOK, NEW rows \in Orders, NEW j \in 1 .. Len(rows), TiedTo(rows[j]) = {}
    PROVE  Cardinality(Newer(rows[j])) = j - 1
<1>1. /\ rows \in [1 .. Len(rows) -> Listed] /\ Len(rows) \in Nat
      /\ \A r \in Listed : \E i \in 1 .. Len(rows) : rows[i] = r
      /\ \A i, k \in 1 .. Len(rows) : rows[i] = rows[k] => i = k
      /\ \A i, k \in 1 .. Len(rows) :
            /\ i < k => stamp[rows[i]] >= stamp[rows[k]]
            /\ stamp[rows[i]] > stamp[rows[k]] => i < k
  BY OrdersPlace
<1> DEFINE f == [i \in 1 .. j - 1 |-> rows[i]]
<1>2. ASSUME NEW i \in 1 .. j - 1 PROVE rows[i] \in Newer(rows[j])
  <2>1. i \in 1 .. Len(rows) /\ i < j /\ rows[i] # rows[j]
    BY <1>1
  <2>2. rows[i] \in Listed /\ stamp[rows[i]] # stamp[rows[j]]
    BY <1>1, <2>1 DEF TiedTo
  <2>3. stamp[rows[i]] \in Int /\ stamp[rows[j]] \in Int
    BY <1>1, <2>1, PagingAssumption DEF Listed
  <2> QED
    BY <1>1, <2>1, <2>2, <2>3 DEF Newer
<1>3. ASSUME NEW r \in Newer(rows[j]) PROVE \E i \in 1 .. j - 1 : f[i] = r
  <2>1. PICK i \in 1 .. Len(rows) : rows[i] = r
    BY <1>1 DEF Newer
  <2>2. i < j
    BY <1>1, <2>1 DEF Newer
  <2> QED
    BY <2>1, <2>2
<1>4. f \in Bijection(1 .. j - 1, Newer(rows[j]))
  BY <1>1, <1>2, <1>3 DEF Bijection, Injection, Surjection, IsInjective
<1> QED
  BY <1>4, FS_CountingElements DEF ExistsBijection

(* The page that begins after the first k rows of an order.                *)
LEMMA PageRows ==
    ASSUME NEW rows \in Seq(ListRow), NEW k \in Nat, NEW n \in Nat
    PROVE  LET page == UpTo(From(rows, k), n)
               size == IF Len(rows) <= k THEN 0 ELSE IF Len(rows) - k <= n THEN Len(rows) - k ELSE n
           IN  /\ page \in Seq(ListRow) /\ Len(page) = size
               /\ \A i \in 1 .. size : page[i] = rows[k + i]
               /\ Len(From(rows, k)) = IF Len(rows) <= k THEN 0 ELSE Len(rows) - k
               /\ From(rows, k) \in Seq(ListRow)
<1> DEFINE rest == From(rows, k)
           last == IF n < Len(rest) THEN n ELSE Len(rest)
<1>1. Len(rows) \in Nat /\ \A i \in k + 1 .. Len(rows) : rows[i] \in ListRow
  OBVIOUS
<1>2. /\ rest \in Seq(ListRow)
      /\ Len(rest) = IF k + 1 <= Len(rows) THEN Len(rows) - (k + 1) + 1 ELSE 0
      /\ \A i \in 1 .. Len(rows) - (k + 1) + 1 : rest[i] = rows[k + 1 + i - 1]
  BY <1>1, SubSeqProperties DEF From
<1> HIDE DEF rest
<1>3. Len(rest) \in Nat /\ last \in Nat /\ \A i \in 1 .. last : rest[i] \in ListRow
  BY <1>2
<1>4. /\ SubSeq(rest, 1, last) \in Seq(ListRow)
      /\ Len(SubSeq(rest, 1, last)) = IF 1 <= last THEN last - 1 + 1 ELSE 0
      /\ \A i \in 1 .. last - 1 + 1 : SubSeq(rest, 1, last)[i] = rest[1 + i - 1]
  <2> HIDE DEF last
  <2> QED
    BY <1>3, SubSeqProperties
<1>5. UpTo(rest, n) = SubSeq(rest, 1, last)
  BY DEF UpTo
<1>6. Len(rest) = IF Len(rows) <= k THEN 0 ELSE Len(rows) - k
  BY <1>1, <1>2
<1>7. last = IF Len(rows) <= k THEN 0 ELSE IF Len(rows) - k <= n THEN Len(rows) - k ELSE n
  BY <1>1, <1>6
<1> HIDE DEF last
<1>8. \A i \in 1 .. last : SubSeq(rest, 1, last)[i] = rows[k + i]
  <2> TAKE i \in 1 .. last
  <2>1. i \in Nat /\ 1 + i - 1 = i /\ k + 1 + i - 1 = k + i /\ i \in 1 .. Len(rows) - (k + 1) + 1
        /\ i \in 1 .. last - 1 + 1
    BY <1>1, <1>3, <1>7
  <2> QED
    BY <1>2, <1>4, <2>1
<1>9. Len(SubSeq(rest, 1, last)) = last
  BY <1>3, <1>4
<1> QED
  BY <1>2, <1>4, <1>5, <1>6, <1>7, <1>8, <1>9 DEF rest

LEMMA ClientFieldSet ==
    ASSUME NEW c \in ClientRecord
    PROVE  /\ \A x \in {"idle", "count", "read", "done"} : [c EXCEPT !.pc = x] \in ClientRecord
           /\ \A x \in Styles : [c EXCEPT !.style = x] \in ClientRecord
           /\ \A x \in ListRow \cup {"none"} : [c EXCEPT !.cursor = x] \in ClientRecord
           /\ \A x \in Nat : [c EXCEPT !.page = x] \in ClientRecord
           /\ \A x \in Nat : [c EXCEPT !.total = x] \in ClientRecord
           /\ \A x \in [ListRow -> 0 .. 2] : [c EXCEPT !.seen = x] \in ClientRecord
           /\ \A x \in SUBSET ListRow : [c EXCEPT !.steady = x] \in ClientRecord
           /\ \A x \in SUBSET ListRow : [c EXCEPT !.fresh = x] \in ClientRecord
           /\ \A x \in BOOLEAN : [c EXCEPT !.lost = x] \in ClientRecord
BY DEF ClientRecord

LEMMA NoClientTyped ==
    /\ NoClient \in ClientRecord /\ NoClient.pc = "idle" /\ NoClient.cursor = "none"
    /\ NoClient.page = 1 /\ NoClient.steady = {} /\ NoClient.fresh = {} /\ NoClient.lost = FALSE
    /\ NoClient.style = "all"
    /\ \A r \in ListRow : NoClient.seen[r] = 0
BY DEF NoClient, ClientRecord, Styles

LEMMA PagingInvInit == PagingInit => PagingInv
<1> SUFFICES ASSUME PagingInit PROVE PagingInv
  OBVIOUS
<1>1. client = NoClient /\ client.pc = "idle" /\ stampNow = 1 /\ \A r \in ListRow : stamp[r] = 0
  BY NoClientTyped DEF PagingInit, Unwritten
<1>2. PagingTypeOK
  BY PagingAssumption, NoClientTyped DEF PagingInit, PagingTypeOK, Unwritten, Deleted
<1> QED
  BY <1>1, <1>2, NoClientTyped
     DEF PagingInv, RowsListed, StylesFormed, CursorBetween, PagesCounted, PagesComplete, Open

(* A page is shown.                                                        *)
LEMMA ShowMakes ==
    ASSUME PagingTypeOK, NEW rows \in Seq(ListRow), NEW more \in BOOLEAN,
           NEW last \in ListRow \cup {"none"}
    PROVE  LET shown == Show(rows, more, last)
           IN  /\ shown \in ClientRecord
               /\ shown.pc = IF ~more THEN "done" ELSE IF last = "none" THEN "count" ELSE "read"
               /\ shown.page = (IF last = "none" THEN client.page + 1 ELSE client.page)
               /\ shown.cursor = last /\ shown.style = client.style
               /\ shown.total = client.total /\ shown.lost = client.lost
               /\ shown.steady = client.steady \ Blurred(last)
               /\ shown.fresh = client.fresh \ Blurred(last)
               /\ \A r \in ListRow :
                     shown.seen[r] = IF r \in Range(rows) THEN Seen(client.seen[r])
                                     ELSE client.seen[r]
<1> DEFINE seen == [r \in ListRow |-> IF r \in Range(rows) THEN Seen(client.seen[r])
                                      ELSE client.seen[r]]
           pc == IF ~more THEN "done" ELSE IF last = "none" THEN "count" ELSE "read"
           page == IF last = "none" THEN client.page + 1 ELSE client.page
           steady == client.steady \ Blurred(last)
           fresh == client.fresh \ Blurred(last)
           shown == [client EXCEPT !.seen = seen, !.pc = pc, !.page = page, !.cursor = last,
                                   !.steady = steady, !.fresh = fresh]
<1>1. client \in ClientRecord
  BY DEF PagingTypeOK
<1>2. /\ seen \in [ListRow -> 0 .. 2] /\ pc \in {"idle", "count", "read", "done"} /\ page \in Nat
      /\ steady \in SUBSET ListRow /\ fresh \in SUBSET ListRow
  BY <1>1 DEF ClientRecord, Seen
<1>3. Show(rows, more, last) = shown
  BY DEF Show
<1>4. \A r \in ListRow : seen[r] = IF r \in Range(rows) THEN Seen(client.seen[r])
                                   ELSE client.seen[r]
  OBVIOUS
<1> HIDE DEF seen, pc, page, steady, fresh
<1>5. shown \in ClientRecord
  BY <1>1, <1>2, ClientFieldSet
<1>6. /\ shown.seen = seen /\ shown.pc = pc /\ shown.page = page /\ shown.cursor = last
      /\ shown.steady = steady /\ shown.fresh = fresh /\ shown.style = client.style
      /\ shown.total = client.total /\ shown.lost = client.lost
  BY <1>1 DEF ClientRecord
<1> HIDE DEF shown
<1> QED
  BY <1>3, <1>4, <1>5, <1>6 DEF pc, page, steady, fresh

LeftOpen(shown, rows, last) ==
    /\ shown \in ClientRecord
    /\ shown.pc = "read" /\ shown.page = client.page
    /\ shown.cursor = last /\ shown.style = client.style
    /\ shown.total = client.total /\ shown.lost = client.lost
    /\ shown.steady = client.steady \ Blurred(last)
    /\ shown.fresh = client.fresh \ Blurred(last)
    /\ \A r \in ListRow :
          shown.seen[r] = IF r \in Range(rows) THEN Seen(client.seen[r])
                          ELSE client.seen[r]

LEMMA ShowGoesOn ==
    ASSUME PagingTypeOK, NEW rows \in Seq(ListRow), NEW last \in ListRow
    PROVE  LeftOpen(Show(rows, TRUE, last), rows, last)
<1> DEFINE seen == [r \in ListRow |-> IF r \in Range(rows) THEN Seen(client.seen[r])
                                      ELSE client.seen[r]]
           steady == client.steady \ Blurred(last)
           fresh == client.fresh \ Blurred(last)
           shown == [client EXCEPT !.seen = seen, !.pc = "read", !.page = client.page,
                                   !.cursor = last, !.steady = steady, !.fresh = fresh]
<1>1. client \in ClientRecord /\ last # "none"
  BY PagingAssumption DEF PagingTypeOK
<1>2. /\ seen \in [ListRow -> 0 .. 2] /\ client.page \in Nat
      /\ steady \in SUBSET ListRow /\ fresh \in SUBSET ListRow
  BY <1>1 DEF ClientRecord, Seen
<1>3. Show(rows, TRUE, last) = shown
  BY <1>1 DEF Show
<1>4. \A r \in ListRow : seen[r] = IF r \in Range(rows) THEN Seen(client.seen[r])
                                   ELSE client.seen[r]
  OBVIOUS
<1> HIDE DEF seen, steady, fresh
<1>5. shown \in ClientRecord
  BY <1>1, <1>2, ClientFieldSet
<1>6. /\ shown.seen = seen /\ shown.pc = "read" /\ shown.page = client.page
      /\ shown.cursor = last /\ shown.steady = steady /\ shown.fresh = fresh
      /\ shown.style = client.style /\ shown.total = client.total /\ shown.lost = client.lost
  BY <1>1 DEF ClientRecord
<1> HIDE DEF shown
<1> QED
  BY <1>3, <1>4, <1>5, <1>6 DEF steady, fresh, LeftOpen

LEMMA AddRowKeeps ==
    ASSUME PagingInv, NEW r \in ListRow, AddRow(r)
    PROVE  PagingInv'
<1> DEFINE fresh == IF AfterFirstPage THEN client.fresh \cup {r} ELSE client.fresh
           lost == client.lost \/ (client.style = "offset" /\ client.pc = "read")
<1>1. /\ client \in ClientRecord /\ stampNow \in 1 .. LastStamp /\ client.pc # "done"
      /\ stamp \in [ListRow -> Unwritten .. Deleted] /\ stamp[r] = Unwritten
      /\ stampNow' = stampNow /\ stamp' = [stamp EXCEPT ![r] = stampNow]
      /\ stampNow \in Int
  BY PagingAssumption DEF PagingInv, PagingTypeOK, AddRow
<1>2. /\ stamp'[r] = stampNow /\ \A q \in ListRow : q # r => stamp'[q] = stamp[q]
      /\ r \notin Listed /\ Listed' = Listed \cup {r} /\ Listed \subseteq ListRow
      /\ \A q \in ListRow : stamp'[q] = Unwritten => stamp[q] = Unwritten
  BY <1>1, PagingAssumption DEF Listed, Unwritten
<1>3. /\ client' = IF ~Open THEN client ELSE [client EXCEPT !.fresh = fresh, !.lost = lost]
      /\ fresh \in SUBSET ListRow /\ lost \in BOOLEAN
  BY <1>1 DEF AddRow, ClientRecord
<1> HIDE DEF fresh, lost
<1>4. /\ client' \in ClientRecord
      /\ client'.pc = client.pc /\ client'.style = client.style /\ client'.cursor = client.cursor
      /\ client'.page = client.page /\ client'.total = client.total
      /\ client'.seen = client.seen /\ client'.steady = client.steady
      /\ Open => client'.fresh = fresh /\ client'.lost = lost
      /\ ~Open => client'.fresh = client.fresh /\ client'.lost = client.lost
  BY <1>1, <1>3 DEF ClientRecord
<1>5. PagingTypeOK'
  <2>1. stampNow \in Unwritten .. Deleted
    BY <1>1, PagingAssumption DEF Unwritten, Deleted
  <2> QED
    BY <1>1, <1>4, <2>1 DEF PagingTypeOK, Unwritten, Deleted
<1>6. RowsListed'
  BY <1>2, <1>4 DEF PagingInv, RowsListed, Open, fresh
<1>7. StylesFormed'
  BY <1>4, PagingAssumption DEF PagingInv, StylesFormed, Open, fresh, AfterFirstPage
<1>8. CursorBetween'
  <2> SUFFICES ASSUME Open, client.cursor # "none", ~client.lost
               PROVE  /\ client.cursor \in Listed'
                      /\ \A q \in client.steady :
                            /\ stamp'[q] = stamp'[client.cursor] => q = client.cursor
                            /\ stamp'[q] >= stamp'[client.cursor] => client.seen[q] = 1
                            /\ stamp'[q] < stamp'[client.cursor] => client.seen[q] = 0
                      /\ \A q \in fresh :
                            stamp'[q] > stamp'[client.cursor] /\ client.seen[q] = 0
    <3>1. /\ client'.cursor = client.cursor /\ client'.steady = client.steady
          /\ client'.seen = client.seen /\ (Open' <=> Open)
          /\ Open => client'.fresh = fresh
          /\ ~client'.lost /\ Open => ~client.lost
      BY <1>4 DEF Open, lost
    <3> HIDE DEF fresh
    <3> QED
      BY <3>1 DEF CursorBetween
  <2>1. client.cursor \in Listed /\ client.cursor # r /\ client.cursor \in ListRow
    BY <1>2 DEF PagingInv, CursorBetween
  <2>2. \A q \in client.steady \cup client.fresh : q \in ListRow /\ q # r
    BY <1>2 DEF PagingInv, RowsListed
  <2>3. ASSUME r \in fresh, r \notin client.fresh
        PROVE  stamp'[r] > stamp'[client.cursor] /\ client.seen[r] = 0
    <3>1. stamp[client.cursor] < stampNow
      BY <2>3 DEF fresh, AfterFirstPage
    <3>2. stamp[client.cursor] \in Int
      BY <2>1, PagingAssumption DEF Listed
    <3> QED
      BY <1>1, <1>2, <2>1, <3>1, <3>2 DEF PagingInv, RowsListed
  <2>4. \A q \in fresh : q \in client.fresh \/ q = r
    BY DEF fresh
  <2> QED
    BY <1>2, <2>1, <2>2, <2>3, <2>4 DEF PagingInv, CursorBetween
<1>9. PagesCounted'
  <2> SUFFICES ASSUME Open, client.style = "offset", ~lost
               PROVE  /\ \A q \in client.steady :
                            Cardinality(Newer(q)') < (client.page - 1) * Take => client.seen[q] >= 1
                      /\ client.pc # "read"
    BY <1>4 DEF PagesCounted, Open
  <2>1. client.pc # "read" /\ ~client.lost
    BY DEF lost
  <2>2. ASSUME NEW q \in client.steady, Cardinality(Newer(q)') < (client.page - 1) * Take
        PROVE  client.seen[q] >= 1
    <3>1. q \in ListRow /\ q # r /\ q \in Listed
      BY <1>2 DEF PagingInv, RowsListed
    <3>2. Newer(q) \subseteq Newer(q)'
      BY <1>2, <3>1 DEF Newer
    <3>3. IsFiniteSet(Newer(q)') /\ Newer(q)' \subseteq ListRow
      <4>1. Newer(q)' \in SUBSET ListRow
        BY <1>2 DEF Newer
      <4> QED
        BY <4>1, PagingAssumption, FS_Subset
    <3>4. Cardinality(Newer(q)) <= Cardinality(Newer(q)') /\ Cardinality(Newer(q)) \in Nat
          /\ Cardinality(Newer(q)') \in Nat
      BY <3>1, <3>2, <3>3, FS_Subset, FS_CardinalityType, RowsFinite
    <3>5. (client.page - 1) * Take \in Int
      BY <1>1, PagingAssumption DEF ClientRecord
    <3>6. Cardinality(Newer(q)) < (client.page - 1) * Take
      BY <2>2, <3>4, <3>5
    <3> QED
      BY <2>1, <3>6 DEF PagingInv, PagesCounted
  <2> QED
    BY <2>1, <2>2
<1>10. PagesComplete'
  BY <1>1, <1>4 DEF PagesComplete
<1> QED
  BY <1>5, <1>6, <1>7, <1>8, <1>9, <1>10 DEF PagingInv

LEMMA RemoveRowKeeps ==
    ASSUME PagingInv, NEW r \in ListRow, RemoveRow(r)
    PROVE  PagingInv'
<1> DEFINE lost == client.lost \/ (IF client.style = "cursor" THEN client.cursor = r
                                   ELSE \E q \in Listed : stamp[q] < stamp[r])
<1>1. /\ client \in ClientRecord /\ stampNow \in 1 .. LastStamp /\ client.pc # "done"
      /\ stamp \in [ListRow -> Unwritten .. Deleted] /\ r \in Listed
      /\ stampNow' = stampNow /\ stamp' = [stamp EXCEPT ![r] = Deleted]
  BY DEF PagingInv, PagingTypeOK, RemoveRow
<1>2. /\ stamp'[r] = Deleted /\ \A q \in ListRow : q # r => stamp'[q] = stamp[q]
      /\ Listed' = Listed \ {r} /\ Listed \subseteq ListRow
      /\ \A q \in ListRow : stamp'[q] = Unwritten => stamp[q] = Unwritten
      /\ \A q \in Listed : stamp[q] \in Int
  BY <1>1, PagingAssumption DEF Listed, Unwritten, Deleted
<1>3. /\ client' = [client EXCEPT !.steady = client.steady \ {r}, !.fresh = client.fresh \ {r},
                                  !.lost = lost]
      /\ lost \in BOOLEAN
  BY <1>1 DEF RemoveRow, ClientRecord
<1> HIDE DEF lost
<1>4. /\ client' \in ClientRecord
      /\ client'.pc = client.pc /\ client'.style = client.style /\ client'.cursor = client.cursor
      /\ client'.page = client.page /\ client'.total = client.total
      /\ client'.seen = client.seen /\ client'.steady = client.steady \ {r}
      /\ client'.fresh = client.fresh \ {r} /\ client'.lost = lost
  BY <1>1, <1>3 DEF ClientRecord
<1>5. PagingTypeOK'
  <2>1. Deleted \in Unwritten .. Deleted
    BY PagingAssumption DEF Unwritten, Deleted
  <2> QED
    BY <1>1, <1>4, <2>1 DEF PagingTypeOK, Unwritten, Deleted
<1>6. RowsListed'
  BY <1>2, <1>4 DEF PagingInv, RowsListed, Open
<1>7. StylesFormed'
  BY <1>4 DEF PagingInv, StylesFormed, Open
<1>8. CursorBetween'
  <2> SUFFICES ASSUME Open, client.cursor # "none", ~lost
               PROVE  /\ client.cursor \in Listed'
                      /\ \A q \in client.steady \ {r} :
                            /\ stamp'[q] = stamp'[client.cursor] => q = client.cursor
                            /\ stamp'[q] >= stamp'[client.cursor] => client.seen[q] = 1
                            /\ stamp'[q] < stamp'[client.cursor] => client.seen[q] = 0
                      /\ \A q \in client.fresh \ {r} :
                            stamp'[q] > stamp'[client.cursor] /\ client.seen[q] = 0
    BY <1>4 DEF CursorBetween, Open
  <2>1. ~client.lost /\ client.style = "cursor" /\ client.cursor # r
    BY DEF lost, PagingInv, StylesFormed
  <2>2. client.cursor \in Listed
    BY <2>1 DEF PagingInv, CursorBetween
  <2>3. \A q \in client.steady \cup client.fresh : q \in ListRow
    BY <1>2 DEF PagingInv, RowsListed
  <2> QED
    BY <1>2, <2>1, <2>2, <2>3 DEF PagingInv, CursorBetween
<1>9. PagesCounted'
  <2> SUFFICES ASSUME Open, client.style = "offset", ~lost
               PROVE  /\ \A q \in client.steady \ {r} :
                            Cardinality(Newer(q)') < (client.page - 1) * Take => client.seen[q] >= 1
                      /\ client.pc = "read" => Cardinality(Listed') <= client.total
    BY <1>4 DEF PagesCounted, Open
  <2>1. ~client.lost /\ \A q \in Listed : ~(stamp[q] < stamp[r])
    BY DEF lost
  <2>2. ASSUME NEW q \in client.steady \ {r} PROVE Newer(q)' = Newer(q)
    <3>1. q \in ListRow /\ q # r /\ q \in Listed
      BY <1>2 DEF PagingInv, RowsListed
    <3>2. ~(stamp[r] > stamp[q])
      BY <1>1, <1>2, <2>1, <3>1
    <3> QED
      BY <1>2, <3>1, <3>2 DEF Newer
  <2>3. Cardinality(Listed') <= Cardinality(Listed) /\ Cardinality(Listed) \in Nat
        /\ Cardinality(Listed') \in Nat
    BY <1>2, RowsFinite, FS_Subset, FS_CardinalityType
  <2>4. client.total \in Nat
    BY <1>1 DEF ClientRecord
  <2> QED
    BY <2>1, <2>2, <2>3, <2>4 DEF PagingInv, PagesCounted
<1>10. PagesComplete'
  BY <1>1, <1>4 DEF PagesComplete
<1> QED
  BY <1>5, <1>6, <1>7, <1>8, <1>9, <1>10 DEF PagingInv

LEMMA NextStampKeeps == PagingInv /\ NextStamp => PagingInv'
<1> SUFFICES ASSUME PagingInv, NextStamp PROVE PagingInv'
  OBVIOUS
<1>1. stamp' = stamp /\ client' = client /\ stampNow' \in 1 .. LastStamp
  BY PagingAssumption DEF NextStamp, PagingInv, PagingTypeOK
<1> QED
  BY <1>1
     DEF PagingInv, PagingTypeOK, RowsListed, StylesFormed, CursorBetween, PagesCounted,
         PagesComplete, Open, Listed, Newer

LEMMA OpenListKeeps ==
    ASSUME PagingInv, NEW style \in Styles, OpenList(style)
    PROVE  PagingInv'
<1> DEFINE pc == IF style = "offset" THEN "count" ELSE "read"
           rec == [NoClient EXCEPT !.pc = pc, !.style = style, !.steady = Listed]
<1>1. /\ rec \in ClientRecord /\ rec.pc = pc /\ rec.style = style /\ rec.steady = Listed
      /\ rec.cursor = "none" /\ rec.fresh = {} /\ rec.page = 1
      /\ \A r \in ListRow : rec.seen[r] = 0
  BY NoClientTyped, ClientFieldSet DEF NoClient, Listed
<1>2. client' = rec /\ stamp' = stamp /\ stampNow' = stampNow /\ Listed' = Listed
  BY DEF OpenList, Listed
<1> HIDE DEF rec
<1>3. \A r \in ListRow : ~(Cardinality(Newer(r)) < (1 - 1) * Take)
  BY RowsFinite, PagingAssumption
<1>4. PagingTypeOK' /\ RowsListed' /\ StylesFormed' /\ CursorBetween' /\ PagesComplete'
  BY <1>1, <1>2
     DEF PagingInv, PagingTypeOK, RowsListed, StylesFormed, CursorBetween, PagesComplete, Open
<1>5. PagesCounted'
  <2> SUFFICES ASSUME style = "offset"
               PROVE  \A r \in Listed : ~(Cardinality(Newer(r)') < (1 - 1) * Take)
    BY <1>1, <1>2 DEF PagesCounted
  <2>1. \A r \in Listed : Newer(r)' = Newer(r) /\ r \in ListRow
    BY <1>2 DEF Newer, Listed
  <2> QED
    BY <1>3, <2>1
<1> QED
  BY <1>4, <1>5 DEF PagingInv

LEMMA CountRowsKeeps == PagingInv /\ CountRows => PagingInv'
<1> SUFFICES ASSUME PagingInv, CountRows PROVE PagingInv'
  OBVIOUS
<1>1. /\ client \in ClientRecord /\ client.pc = "count"
      /\ client' = [client EXCEPT !.pc = "read", !.total = Cardinality(Listed)]
      /\ stamp' = stamp /\ stampNow' = stampNow
  BY DEF CountRows, PagingInv, PagingTypeOK
<1>6. client' \in ClientRecord
  BY <1>1, RowsFinite, ClientFieldSet
<1>2. /\ client' \in ClientRecord /\ client'.pc = "read" /\ client'.total = Cardinality(Listed)
      /\ client'.style = client.style /\ client'.cursor = client.cursor
      /\ client'.page = client.page /\ client'.seen = client.seen
      /\ client'.steady = client.steady /\ client'.fresh = client.fresh
      /\ client'.lost = client.lost
  BY <1>1, <1>6 DEF ClientRecord
<1>3. Listed' = Listed /\ \A r : Newer(r)' = Newer(r)
  BY <1>1 DEF Listed, Newer
<1>4. Cardinality(Listed) <= Cardinality(Listed)
  BY RowsFinite
<1>5. client.style = "offset"
  BY <1>1 DEF PagingInv, StylesFormed, Open
<1> QED
  BY <1>1, <1>2, <1>3, <1>4, <1>5
     DEF PagingInv, PagingTypeOK, RowsListed, StylesFormed, CursorBetween, PagesCounted,
         PagesComplete, Open

LEMMA CloseListKeeps == PagingInv /\ CloseList => PagingInv'
BY NoClientTyped
   DEF CloseList, PagingInv, PagingTypeOK, RowsListed, StylesFormed, CursorBetween, PagesCounted,
       PagesComplete, Open

LEMMA FromStart == ASSUME NEW rows \in Seq(ListRow) PROVE From(rows, 0) = rows
<1>1. Len(rows) \in Nat /\ \A i \in 1 .. Len(rows) : rows[i] \in ListRow
  OBVIOUS
<1>2. /\ SubSeq(rows, 1, Len(rows)) \in Seq(ListRow)
      /\ Len(SubSeq(rows, 1, Len(rows))) = IF 1 <= Len(rows) THEN Len(rows) - 1 + 1 ELSE 0
      /\ \A i \in 1 .. Len(rows) - 1 + 1 : SubSeq(rows, 1, Len(rows))[i] = rows[1 + i - 1]
  BY <1>1, SubSeqProperties
<1>3. Len(SubSeq(rows, 1, Len(rows))) = Len(rows)
      /\ \A i \in 1 .. Len(rows) : SubSeq(rows, 1, Len(rows))[i] = rows[i]
  BY <1>1, <1>2
<1>4. SubSeq(rows, 1, Len(rows)) = rows
  BY <1>2, <1>3, SeqEqual
<1> QED
  BY <1>4 DEF From

(* The rows of a page that follows a cursor stand right after its place.   *)
LEMMA CursorPlaces ==
    ASSUME PagingTypeOK, NEW rows \in Orders
    PROVE  \E i \in 0 .. Len(rows) :
              /\ AfterCursor(rows) = From(rows, i)
              /\ client.cursor = "none" => i = 0
              /\ client.cursor \in Listed => i >= 1 /\ rows[i] = client.cursor
<1>1. /\ rows \in [1 .. Len(rows) -> Listed] /\ rows \in Seq(ListRow) /\ Len(rows) \in Nat
      /\ \A r \in Listed : \E i \in 1 .. Len(rows) : rows[i] = r
      /\ Range(rows) = Listed /\ "none" \notin Listed
  BY OrdersPlace, PagingAssumption DEF Listed
<1>2. CASE client.cursor = "none"
  <2>1. AfterCursor(rows) = From(rows, 0)
    BY <1>1, <1>2, FromStart DEF AfterCursor
  <2> QED
    BY <1>1, <1>2, <2>1
<1>3. CASE client.cursor \in Listed
  <2> DEFINE i == AntiFunction(rows)[client.cursor]
  <2>1. i \in DOMAIN rows /\ rows[i] = client.cursor
    <3>1. client.cursor \in Range(rows) /\ \E s \in DOMAIN rows : rows[s] = client.cursor
      BY <1>1, <1>3 DEF Range
    <3>2. i = CHOOSE s \in DOMAIN rows : client.cursor \in Range(rows) => rows[s] = client.cursor
      BY <3>1 DEF AntiFunction, Inverse
    <3> HIDE DEF i
    <3> QED
      BY <3>1, <3>2
  <2>2. i \in 1 .. Len(rows) /\ AfterCursor(rows) = From(rows, i)
    BY <1>1, <1>3, <2>1 DEF AfterCursor
  <2> HIDE DEF i
  <2>3. i \in 0 .. Len(rows) /\ i >= 1
    BY <1>1, <2>2
  <2> QED
    BY <1>1, <1>3, <2>1, <2>2, <2>3
<1>4. CASE client.cursor # "none" /\ client.cursor \notin Listed
  <2>1. AfterCursor(rows) = <<>>
    BY <1>1, <1>4 DEF AfterCursor
  <2>2. /\ From(rows, Len(rows)) \in Seq(ListRow) /\ Len(From(rows, Len(rows))) = 0
    BY <1>1, PageRows
  <2>3. From(rows, Len(rows)) = <<>>
    BY <2>2, EmptySeq
  <2> QED
    BY <1>1, <1>4, <2>1, <2>3
<1> QED
  BY <1>2, <1>3, <1>4

LEMMA CursorPageRows ==
    ASSUME PagingTypeOK, NEW rows \in Orders, NEW i \in 0 .. Len(rows),
           AfterCursor(rows) = From(rows, i)
    PROVE  LET items == UpTo(AfterCursor(rows), Take + 1)
               data == UpTo(items, Take)
               size == IF Len(rows) - i > Take THEN Take ELSE Len(rows) - i
           IN  /\ data \in Seq(ListRow) /\ Len(data) = size /\ size \in Nat
               /\ Len(items) > Take <=> Len(rows) - i > Take
               /\ \A k \in 1 .. size : data[k] = rows[i + k]
               /\ \A j \in 1 .. Len(rows) : rows[j] \in Range(data) <=> i < j /\ j <= i + size
               /\ Range(data) \subseteq Listed
<1> DEFINE items == UpTo(AfterCursor(rows), Take + 1)
           data == UpTo(items, Take)
           size == IF Len(rows) - i > Take THEN Take ELSE Len(rows) - i
           more == IF Len(rows) - i > Take THEN Take + 1 ELSE Len(rows) - i
<1>1. /\ rows \in [1 .. Len(rows) -> Listed] /\ rows \in Seq(ListRow) /\ Len(rows) \in Nat
      /\ \A j, k \in 1 .. Len(rows) : rows[j] = rows[k] => j = k
      /\ Take \in Nat /\ Take >= 1 /\ Take + 1 \in Nat /\ i \in Nat /\ i <= Len(rows)
  BY OrdersPlace, PagingAssumption
<1>2. /\ items \in Seq(ListRow) /\ Len(items) = more
      /\ \A k \in 1 .. more : items[k] = rows[i + k]
  <2> DEFINE page == UpTo(From(rows, i), Take + 1)
  <2>3. items = page
    OBVIOUS
  <2> HIDE DEF items, data, size, more
  <2>1. LET n == IF Len(rows) <= i THEN 0
                 ELSE IF Len(rows) - i <= Take + 1 THEN Len(rows) - i ELSE Take + 1
        IN  /\ page \in Seq(ListRow) /\ Len(page) = n
            /\ \A k \in 1 .. n : page[k] = rows[i + k]
    <3>1. rows \in Seq(ListRow) /\ i \in Nat /\ Take + 1 \in Nat
      BY <1>1
    <3> QED
      BY <3>1, PageRows
  <2> HIDE DEF page
  <2>2. (IF Len(rows) <= i THEN 0
         ELSE IF Len(rows) - i <= Take + 1 THEN Len(rows) - i ELSE Take + 1) = more
    BY <1>1 DEF more
  <2> QED
    BY <2>1, <2>2, <2>3
<1> HIDE DEF items
<1>3. /\ data \in Seq(ListRow) /\ Len(data) = size
      /\ \A k \in 1 .. size : data[k] = items[k]
  <2>1. LET n == IF Len(items) <= 0 THEN 0
                 ELSE IF Len(items) - 0 <= Take THEN Len(items) - 0 ELSE Take
        IN  /\ UpTo(From(items, 0), Take) \in Seq(ListRow)
            /\ Len(UpTo(From(items, 0), Take)) = n
            /\ \A k \in 1 .. n : UpTo(From(items, 0), Take)[k] = items[0 + k]
    <3>1. items \in Seq(ListRow) /\ 0 \in Nat /\ Take \in Nat
      BY <1>1, <1>2
    <3> QED
      BY <3>1, PageRows
  <2>2. From(items, 0) = items
    BY <1>2, FromStart
  <2>3. (IF Len(items) <= 0 THEN 0
         ELSE IF Len(items) - 0 <= Take THEN Len(items) - 0 ELSE Take) = size
    <3>1. CASE Len(rows) - i > Take
      <4>1. Len(items) = Take + 1
        BY <1>2, <3>1
      <4> QED
        BY <1>1, <3>1, <4>1
    <3>2. CASE ~(Len(rows) - i > Take)
      <4>1. Len(items) = Len(rows) - i /\ size = Len(rows) - i
        BY <1>2, <3>2
      <4>2. Len(items) \in Nat /\ Len(items) <= Take
        BY <1>1, <3>2, <4>1
      <4> HIDE DEF size
      <4> QED
        BY <4>1, <4>2
    <3> QED
      BY <3>1, <3>2
  <2>4. \A k \in 1 .. size : 0 + k = k
    OBVIOUS
  <2> QED
    BY <2>1, <2>2, <2>3, <2>4
<1> HIDE DEF data
<1>4. size \in Nat /\ (Len(items) > Take <=> Len(rows) - i > Take)
  <2>1. CASE Len(rows) - i > Take
    <3>1. Len(items) = Take + 1
      BY <1>2, <2>1
    <3> QED
      BY <1>1, <2>1, <3>1
  <2>2. CASE ~(Len(rows) - i > Take)
    <3>1. Len(items) = Len(rows) - i
      BY <1>2, <2>2
    <3> QED
      BY <1>1, <2>2, <3>1
  <2> QED
    BY <2>1, <2>2
<1>5. \A k \in 1 .. size : data[k] = rows[i + k] /\ i + k \in 1 .. Len(rows)
  <2> TAKE k \in 1 .. size
  <2>1. k \in 1 .. more /\ i + k \in 1 .. Len(rows)
    BY <1>1, <1>4
  <2> HIDE DEF size, more
  <2> QED
    BY <1>2, <1>3, <2>1
<1>6. DOMAIN data = 1 .. size
  BY <1>3
<1> HIDE DEF size, more
<1>7. Range(data) \subseteq Listed
  BY <1>1, <1>5, <1>6 DEF Range
<1>8. \A j \in 1 .. Len(rows) : rows[j] \in Range(data) <=> i < j /\ j <= i + size
  <2> TAKE j \in 1 .. Len(rows)
  <2>1. ASSUME rows[j] \in Range(data) PROVE i < j /\ j <= i + size
    <3>1. PICK k \in 1 .. size : data[k] = rows[j]
      BY <1>6, <2>1 DEF Range
    <3>2. j = i + k
      BY <1>1, <1>5, <3>1
    <3> QED
      BY <1>1, <1>4, <3>1, <3>2
  <2>2. ASSUME i < j, j <= i + size PROVE rows[j] \in Range(data)
    <3>1. j - i \in 1 .. size /\ i + (j - i) = j
      BY <1>1, <1>4, <2>2
    <3>2. data[j - i] = rows[j]
      BY <1>5, <3>1
    <3> QED
      BY <1>6, <3>1, <3>2 DEF Range
  <2> QED
    BY <2>1, <2>2
<1> QED
  BY <1>3, <1>4, <1>5, <1>7, <1>8 DEF size, data, items

(* What the client has seen of an order before it reads on from a cursor.  *)
LEMMA CursorShown ==
    ASSUME PagingInv, Open, client.style = "cursor", ~client.lost, NEW rows \in Orders,
           NEW i \in 0 .. Len(rows), NEW j \in 1 .. Len(rows),
           client.cursor = "none" => i = 0,
           client.cursor \in Listed => i >= 1 /\ rows[i] = client.cursor
    PROVE  /\ client.cursor \in Listed \cup {"none"}
           /\ rows[j] \in client.steady => client.seen[rows[j]] = IF j <= i THEN 1 ELSE 0
           /\ rows[j] \in client.fresh =>
                 j < i /\ client.seen[rows[j]] = 0 /\ stamp[rows[j]] > stamp[rows[i]]
<1>1. /\ rows \in [1 .. Len(rows) -> Listed] /\ Len(rows) \in Nat
      /\ \A k, m \in 1 .. Len(rows) : rows[k] = rows[m] => k = m
      /\ \A k, m \in 1 .. Len(rows) :
            /\ k < m => stamp[rows[k]] >= stamp[rows[m]]
            /\ stamp[rows[k]] > stamp[rows[m]] => k < m
  BY OrdersPlace DEF PagingInv
<1>2. CASE client.cursor = "none"
  <2>1. rows[j] \in ListRow
    BY <1>1 DEF Listed
  <2> QED
    BY <1>1, <1>2, <2>1 DEF PagingInv, StylesFormed
<1>3. CASE client.cursor # "none"
  <2>1. client.cursor \in Listed /\ i \in 1 .. Len(rows) /\ rows[i] = client.cursor
    BY <1>3 DEF PagingInv, CursorBetween
  <2>2. stamp[rows[j]] \in Int /\ stamp[rows[i]] \in Int
    BY <1>1, <2>1, PagingAssumption DEF Listed
  <2>3. ASSUME rows[j] \in client.steady
        PROVE  client.seen[rows[j]] = IF j <= i THEN 1 ELSE 0
    <3>1. /\ stamp[rows[j]] = stamp[rows[i]] => rows[j] = rows[i]
          /\ stamp[rows[j]] >= stamp[rows[i]] => client.seen[rows[j]] = 1
          /\ stamp[rows[j]] < stamp[rows[i]] => client.seen[rows[j]] = 0
      BY <1>3, <2>1, <2>3 DEF PagingInv, CursorBetween
    <3>2. CASE j <= i
      <4>1. stamp[rows[j]] >= stamp[rows[i]]
        <5>1. j = i \/ j < i
          BY <3>2
        <5> QED
          BY <1>1, <2>1, <2>2, <5>1
      <4> QED
        BY <3>1, <3>2, <4>1
    <3>3. CASE ~(j <= i)
      <4>1. stamp[rows[j]] < stamp[rows[i]]
        <5>1. i < j
          BY <1>1, <2>1, <3>3
        <5>2. stamp[rows[i]] >= stamp[rows[j]] /\ rows[j] # rows[i]
          BY <1>1, <2>1, <5>1
        <5> QED
          BY <2>2, <3>1, <5>2
      <4> QED
        BY <3>1, <3>3, <4>1
    <3> QED
      BY <3>2, <3>3
  <2>4. ASSUME rows[j] \in client.fresh
        PROVE  j < i /\ client.seen[rows[j]] = 0 /\ stamp[rows[j]] > stamp[rows[i]]
    <3>1. stamp[rows[j]] > stamp[rows[i]] /\ client.seen[rows[j]] = 0
      BY <1>3, <2>1, <2>4 DEF PagingInv, CursorBetween
    <3> QED
      BY <1>1, <2>1, <3>1
  <2> QED
    BY <2>1, <2>3, <2>4
<1> QED
  BY <1>2, <1>3

LEMMA ReadCursorPageKeeps ==
    ASSUME PagingInv, NEW rows \in Orders, ReadCursorPage(rows)
    PROVE  PagingInv'
<1> DEFINE items == UpTo(AfterCursor(rows), Take + 1)
           data == UpTo(items, Take)
<1>1. /\ client \in ClientRecord /\ client.pc = "read" /\ client.style = "cursor" /\ PagingTypeOK
      /\ Open /\ stamp' = stamp /\ stampNow' = stampNow
      /\ client' = IF Len(items) > Take THEN Show(data, TRUE, data[Len(data)])
                   ELSE [Show(data, FALSE, "none") EXCEPT !.cursor = client.cursor]
  BY DEF PagingInv, PagingTypeOK, ReadCursorPage, Open
<1>2. PICK i \in 0 .. Len(rows) :
         /\ AfterCursor(rows) = From(rows, i)
         /\ client.cursor = "none" => i = 0
         /\ client.cursor \in Listed => i >= 1 /\ rows[i] = client.cursor
  BY <1>1, CursorPlaces
<1> DEFINE size == IF Len(rows) - i > Take THEN Take ELSE Len(rows) - i
<1>3. /\ data \in Seq(ListRow) /\ Len(data) = size /\ size \in Nat
      /\ (Len(items) > Take <=> Len(rows) - i > Take)
      /\ \A k \in 1 .. size : data[k] = rows[i + k]
      /\ \A j \in 1 .. Len(rows) : rows[j] \in Range(data) <=> i < j /\ j <= i + size
      /\ Range(data) \subseteq Listed
  <2> HIDE DEF items, data, size
  <2> QED
    BY <1>1, <1>2, CursorPageRows DEF items, data, size
<1> HIDE DEF items, data
<1>4. /\ rows \in [1 .. Len(rows) -> Listed] /\ Len(rows) \in Nat
      /\ \A r \in Listed : \E j \in 1 .. Len(rows) : rows[j] = r
      /\ \A k, m \in 1 .. Len(rows) :
            /\ k < m => stamp[rows[k]] >= stamp[rows[m]]
            /\ stamp[rows[k]] > stamp[rows[m]] => k < m
      /\ Listed \subseteq ListRow /\ "none" \notin ListRow /\ i \in Nat /\ i <= Len(rows)
      /\ Take \in Nat /\ Take >= 1 /\ \A r \in Listed : stamp[r] \in Int
      /\ Listed' = Listed
  <2>1. /\ rows \in [1 .. Len(rows) -> Listed] /\ Len(rows) \in Nat
        /\ \A r \in Listed : \E j \in 1 .. Len(rows) : rows[j] = r
        /\ \A k, m \in 1 .. Len(rows) :
              /\ k < m => stamp[rows[k]] >= stamp[rows[m]]
              /\ stamp[rows[k]] > stamp[rows[m]] => k < m
    BY <1>1, OrdersPlace
  <2>2. /\ Listed \subseteq ListRow /\ "none" \notin ListRow
        /\ Take \in Nat /\ Take >= 1 /\ \A r \in Listed : stamp[r] \in Int
        /\ Listed' = Listed
    BY <1>1, PagingAssumption DEF Listed
  <2> QED
    BY <2>1, <2>2
<1>5. \A r \in ListRow : stamp[r] = Unwritten => r \notin Listed /\ client.seen[r] = 0
  BY <1>1 DEF PagingInv, RowsListed, Listed, Unwritten
<1>6. ASSUME ~client.lost, NEW j \in 1 .. Len(rows)
      PROVE  /\ client.cursor \in Listed \cup {"none"}
             /\ rows[j] \in client.steady => client.seen[rows[j]] = IF j <= i THEN 1 ELSE 0
             /\ rows[j] \in client.fresh =>
                   j < i /\ client.seen[rows[j]] = 0 /\ stamp[rows[j]] > stamp[rows[i]]
  BY <1>1, <1>2, <1>6, CursorShown
<1>7. client.steady \cup client.fresh \subseteq Listed
  BY DEF PagingInv, RowsListed
<1>8. CASE Len(rows) - i > Take
  <2> DEFINE edge == rows[i + Take]
  <2>1. /\ size = Take /\ i + Take \in 1 .. Len(rows) /\ edge \in Listed
        /\ Len(items) > Take /\ data[Len(data)] = edge
    <3>1. size = Take /\ Take \in 1 .. size /\ i + Take \in 1 .. Len(rows)
      BY <1>4, <1>8
    <3> HIDE DEF size
    <3> QED
      BY <1>3, <1>4, <1>8, <3>1
  <2> HIDE DEF size
  <2>2. /\ client' = Show(data, TRUE, edge) /\ edge \in ListRow \cup {"none"} /\ edge # "none"
        /\ TRUE \in BOOLEAN /\ Blurred(edge) = TiedTo(edge)
    BY <1>1, <1>4, <2>1 DEF Blurred
  <2> HIDE DEF edge
  <2>3. /\ client' \in ClientRecord /\ client'.pc = "read" /\ client'.page = client.page
        /\ client'.cursor = edge /\ client'.style = "cursor" /\ client'.lost = client.lost
        /\ client'.steady = client.steady \ TiedTo(edge)
        /\ client'.fresh = client.fresh \ TiedTo(edge)
        /\ \A r \in ListRow :
              client'.seen[r] = IF r \in Range(data) THEN Seen(client.seen[r]) ELSE client.seen[r]
    <3>1. data \in Seq(ListRow) /\ PagingTypeOK /\ edge \in ListRow
      BY <1>1, <1>3, <1>4, <2>1
    <3> HIDE DEF edge, size
    <3>2. LeftOpen(client', data, edge)
      BY <2>2, <3>1, ShowGoesOn
    <3> QED
      BY <1>1, <2>2, <3>2 DEF LeftOpen
  <2>4. PagingTypeOK' /\ StylesFormed' /\ PagesCounted' /\ PagesComplete'
    BY <1>1, <2>2, <2>3
       DEF PagingInv, PagingTypeOK, StylesFormed, PagesCounted, PagesComplete, Open
  <2>5. RowsListed'
    <3>1. \A r \in ListRow : stamp'[r] = Unwritten => client'.seen[r] = 0
      <4>1. \A r \in Range(data) : r \in Listed
        BY <1>3
      <4> QED
        BY <1>1, <1>5, <2>3, <4>1
    <3> QED
      BY <1>4, <1>7, <2>3, <3>1 DEF RowsListed
  <2>6. CursorBetween'
    <3> SUFFICES ASSUME ~client.lost
                 PROVE  /\ \A r \in client.steady \ TiedTo(edge) :
                              /\ stamp[r] = stamp[edge] => r = edge
                              /\ stamp[r] >= stamp[edge] => client'.seen[r] = 1
                              /\ stamp[r] < stamp[edge] => client'.seen[r] = 0
                        /\ \A r \in client.fresh \ TiedTo(edge) :
                              stamp[r] > stamp[edge] /\ client'.seen[r] = 0
      <4>1. stamp' = stamp /\ edge \in Listed' /\ client'.cursor = edge
            /\ client'.steady = client.steady \ TiedTo(edge)
            /\ client'.fresh = client.fresh \ TiedTo(edge)
            /\ client'.lost = client.lost
        BY <1>1, <1>4, <2>1, <2>3
      <4> QED
        BY <4>1 DEF CursorBetween
    <3>1. ASSUME NEW r \in client.steady \ TiedTo(edge)
          PROVE  /\ stamp[r] = stamp[edge] => r = edge
                 /\ stamp[r] >= stamp[edge] => client'.seen[r] = 1
                 /\ stamp[r] < stamp[edge] => client'.seen[r] = 0
      <4>1. r \in Listed /\ r \in ListRow /\ (stamp[r] = stamp[edge] => r = edge)
        BY <1>4, <1>7, <2>1 DEF TiedTo
      <4>2. PICK j \in 1 .. Len(rows) : rows[j] = r
        BY <1>4, <4>1
      <4>3. client.seen[r] = IF j <= i THEN 1 ELSE 0
        BY <1>6, <3>1, <4>2
      <4>4. client'.seen[r] = IF j <= i + Take THEN 1 ELSE 0
        <5>1. CASE j <= i
          BY <1>3, <1>4, <2>1, <2>3, <4>1, <4>2, <4>3, <5>1
        <5>2. CASE i < j /\ j <= i + Take
          <6>1. client.seen[r] = 0 /\ r \in Range(data)
            BY <1>3, <1>4, <2>1, <4>2, <4>3, <5>2
          <6> QED
            BY <2>3, <4>1, <5>2, <6>1 DEF Seen
        <5>3. CASE ~(j <= i + Take)
          <6>1. client.seen[r] = 0 /\ r \notin Range(data)
            BY <1>3, <1>4, <2>1, <4>2, <4>3, <5>3
          <6> QED
            BY <2>3, <4>1, <5>3, <6>1
        <5> QED
          BY <1>4, <5>1, <5>2, <5>3
      <4>5. stamp[r] >= stamp[edge] => j <= i + Take
        <5>1. stamp[r] > stamp[edge] => j < i + Take
          BY <1>4, <2>1, <4>2 DEF edge
        <5>2. r = edge => stamp[r] = stamp[edge]
          OBVIOUS
        <5>3. stamp[r] = stamp[edge] => j = i + Take
          <6>1. \A k, m \in 1 .. Len(rows) : rows[k] = rows[m] => k = m
            BY <1>1, OrdersPlace
          <6> QED
            BY <2>1, <4>1, <4>2, <6>1 DEF edge
        <5> QED
          BY <1>4, <2>1, <4>1, <5>1, <5>3
      <4>6. stamp[r] < stamp[edge] => ~(j <= i + Take)
        <5>1. j < i + Take => stamp[r] >= stamp[edge]
          BY <1>4, <2>1, <4>2 DEF edge
        <5>2. j = i + Take => r = edge
          BY <4>2 DEF edge
        <5> QED
          BY <1>4, <2>1, <4>1, <5>1, <5>2
      <4> QED
        BY <4>1, <4>4, <4>5, <4>6
    <3>2. ASSUME NEW r \in client.fresh \ TiedTo(edge)
          PROVE  stamp[r] > stamp[edge] /\ client'.seen[r] = 0
      <4>1. PICK j \in 1 .. Len(rows) : rows[j] = r
        BY <1>4, <1>7
      <4>2. j < i /\ client.seen[r] = 0 /\ stamp[r] > stamp[rows[i]]
        BY <1>6, <3>2, <4>1
      <4>3. i \in 1 .. Len(rows) /\ i < i + Take
        BY <1>4, <4>2
      <4>4. stamp[rows[i]] >= stamp[edge] /\ rows[i] \in Listed
        BY <1>4, <2>1, <4>3 DEF edge
      <4>5. r \in ListRow /\ r \notin Range(data) /\ r \in Listed
        BY <1>3, <1>4, <1>7, <4>1, <4>2
      <4> QED
        <5>1. stamp[r] > stamp[edge]
          <6>1. stamp[r] \in Int /\ stamp[edge] \in Int /\ stamp[rows[i]] \in Int
            BY <1>4, <2>1, <4>4, <4>5
          <6> QED
            BY <4>2, <4>4, <6>1
        <5>2. client'.seen[r] = 0
          BY <2>3, <4>2, <4>5
        <5> QED
          BY <5>1, <5>2
    <3> QED
      BY <3>1, <3>2
  <2> QED
    BY <2>4, <2>5, <2>6 DEF PagingInv
<1>9. CASE ~(Len(rows) - i > Take)
  <2> DEFINE shown == Show(data, FALSE, "none")
  <2>1. size = Len(rows) - i /\ ~(Len(items) > Take)
    BY <1>3, <1>9
  <2> HIDE DEF size
  <2>2. client' = [shown EXCEPT !.cursor = client.cursor] /\ Blurred("none") = {}
    BY <1>1, <2>1 DEF Blurred
  <2>3. /\ shown \in ClientRecord /\ shown.pc = "done" /\ shown.style = "cursor"
        /\ shown.lost = client.lost
        /\ shown.steady = client.steady /\ shown.fresh = client.fresh
        /\ \A r \in ListRow :
              shown.seen[r] = IF r \in Range(data) THEN Seen(client.seen[r]) ELSE client.seen[r]
    <3>1. data \in Seq(ListRow) /\ PagingTypeOK /\ client.style = "cursor"
          /\ "none" \in ListRow \cup {"none"}
      BY <1>1, <1>3
    <3> DEFINE more == FALSE
    <3>2. more \in BOOLEAN /\ ~more /\ shown = Show(data, more, "none")
      OBVIOUS
    <3> HIDE DEF more, shown
    <3>3. /\ shown \in ClientRecord
          /\ shown.pc = (IF ~more THEN "done" ELSE IF "none" = "none" THEN "count" ELSE "read")
          /\ shown.page = (IF "none" = "none" THEN client.page + 1 ELSE client.page)
          /\ shown.cursor = "none" /\ shown.style = client.style
          /\ shown.total = client.total /\ shown.lost = client.lost
          /\ shown.steady = client.steady \ Blurred("none")
          /\ shown.fresh = client.fresh \ Blurred("none")
          /\ \A r \in ListRow :
                shown.seen[r] = IF r \in Range(data) THEN Seen(client.seen[r]) ELSE client.seen[r]
      BY <3>1, <3>2, ShowMakes
    <3> QED
      BY <2>2, <3>1, <3>2, <3>3
  <2> HIDE DEF shown
  <2>4. client.cursor \in ListRow \cup {"none"}
    BY <1>1 DEF ClientRecord
  <2>5. client' \in ClientRecord
    BY <2>2, <2>3, <2>4, ClientFieldSet
  <2>6. /\ client'.pc = "done" /\ client'.style = "cursor" /\ client'.lost = client.lost
        /\ client'.steady = client.steady /\ client'.fresh = client.fresh
        /\ client'.seen = shown.seen
    BY <2>2, <2>3 DEF ClientRecord
  <2>7. PagingTypeOK' /\ StylesFormed' /\ PagesCounted' /\ CursorBetween'
    BY <1>1, <2>5, <2>6
       DEF PagingInv, PagingTypeOK, StylesFormed, PagesCounted, CursorBetween, Open
  <2>8. RowsListed'
    BY <1>4, <1>7, <2>6 DEF RowsListed, Open
  <2>9. PagesComplete'
    <3> SUFFICES ASSUME ~client.lost
                 PROVE  /\ \A r \in client.steady : shown.seen[r] = 1
                        /\ \A r \in client.fresh : shown.seen[r] = 0
      BY <2>6 DEF PagesComplete
    <3>1. ASSUME NEW r \in client.steady PROVE shown.seen[r] = 1
      <4>1. PICK j \in 1 .. Len(rows) : rows[j] = r
        BY <1>4, <1>7
      <4>2. client.seen[r] = (IF j <= i THEN 1 ELSE 0) /\ r \in ListRow
        BY <1>4, <1>6, <1>7, <3>1, <4>1
      <4>3. r \in Range(data) <=> i < j
        BY <1>3, <1>4, <2>1, <4>1
      <4> QED
        BY <1>4, <2>3, <4>2, <4>3 DEF Seen
    <3>2. ASSUME NEW r \in client.fresh PROVE shown.seen[r] = 0
      <4>1. PICK j \in 1 .. Len(rows) : rows[j] = r
        BY <1>4, <1>7
      <4>2. j < i /\ client.seen[r] = 0 /\ r \in ListRow
        BY <1>4, <1>6, <1>7, <3>2, <4>1
      <4>3. r \notin Range(data)
        BY <1>3, <1>4, <4>1, <4>2
      <4> QED
        BY <2>3, <4>2, <4>3
    <3> QED
      BY <3>1, <3>2
  <2> QED
    BY <2>7, <2>8, <2>9 DEF PagingInv
<1> QED
  BY <1>8, <1>9

LEMMA PagesCover ==
    ASSUME NEW total \in Nat, NEW page \in Nat, TotalPages(total) <= page
    PROVE  total <= page * Take
<1> DEFINE q == TotalPages(total)
<1>1. Take \in Nat /\ Take >= 1
  BY PagingAssumption
<1>2. q \in Int /\ Take * q <= total + Take - 1 /\ total + Take - 1 < Take * q + Take
  <2>1. total + Take - 1 \in Nat
    BY <1>1
  <2> QED
    BY <1>1, <2>1 DEF TotalPages
<1> HIDE DEF q
<1>3. Take * q <= page * Take
  <2>1. q <= page
    BY DEF q
  <2>2. page - q \in Nat
    BY <1>2, <2>1
  <2>3. Take * (page - q) \in Nat
    BY <1>1, <2>2
  <2>4. Take * (page - q) = page * Take - Take * q
    BY <1>1, <1>2
  <2>5. page * Take \in Int /\ Take * q \in Int
    BY <1>1, <1>2
  <2> QED
    BY <2>3, <2>4, <2>5
<1>4. page * Take \in Int /\ Take * q \in Int
  BY <1>1, <1>2
<1> QED
  BY <1>1, <1>2, <1>3, <1>4

(* The rows of a page that begins after the first k rows of an order.      *)
LEMMA PageRange ==
    ASSUME PagingTypeOK, NEW rows \in Orders, NEW k \in Nat, NEW n \in Nat
    PROVE  /\ UpTo(From(rows, k), n) \in Seq(ListRow)
           /\ Range(UpTo(From(rows, k), n)) \subseteq Listed
           /\ \A j \in 1 .. Len(rows) :
                 k < j /\ j <= k + n => rows[j] \in Range(UpTo(From(rows, k), n))
<1> DEFINE page == UpTo(From(rows, k), n)
           size == IF Len(rows) <= k THEN 0 ELSE IF Len(rows) - k <= n THEN Len(rows) - k ELSE n
<1>1. rows \in [1 .. Len(rows) -> Listed] /\ rows \in Seq(ListRow) /\ Len(rows) \in Nat
  BY OrdersPlace
<1>2. page \in Seq(ListRow) /\ Len(page) = size /\ \A i \in 1 .. size : page[i] = rows[k + i]
  <2>1. rows \in Seq(ListRow)
    BY <1>1
  <2> QED
    BY <2>1, PageRows
<1> HIDE DEF page
<1>3. size \in Nat /\ \A i \in 1 .. size : k + i \in 1 .. Len(rows)
  BY <1>1
<1>4. DOMAIN page = 1 .. size
  BY <1>2
<1>5. \A j \in 1 .. Len(rows) : k < j /\ j <= k + n => j - k \in 1 .. size /\ k + (j - k) = j
  BY <1>1
<1> HIDE DEF size
<1>6. \A j \in 1 .. Len(rows) : k < j /\ j <= k + n => rows[j] \in Range(page)
  <2> SUFFICES ASSUME NEW j \in 1 .. Len(rows), k < j, j <= k + n PROVE rows[j] \in Range(page)
    OBVIOUS
  <2>1. j - k \in 1 .. size /\ page[j - k] = rows[j]
    BY <1>2, <1>5
  <2> QED
    BY <1>4, <2>1 DEF Range
<1>7. Range(page) \subseteq Listed
  BY <1>1, <1>2, <1>3, <1>4 DEF Range
<1> QED
  BY <1>2, <1>6, <1>7 DEF page

(* The last page of a list that is not followed by a cursor, or one more.  *)
LEMMA ShowPage ==
    ASSUME PagingTypeOK, NEW rows \in Seq(ListRow), NEW more \in BOOLEAN
    PROVE  LET shown == Show(rows, more, "none")
           IN  /\ shown \in ClientRecord
               /\ shown.pc = (IF more THEN "count" ELSE "done") /\ shown.page = client.page + 1
               /\ shown.cursor = "none" /\ shown.style = client.style
               /\ shown.total = client.total /\ shown.lost = client.lost
               /\ shown.steady = client.steady \ Blurred("none")
               /\ shown.fresh = client.fresh \ Blurred("none")
               /\ \A r \in ListRow :
                     /\ r \in Range(rows) => shown.seen[r] = Seen(client.seen[r])
                     /\ r \notin Range(rows) => shown.seen[r] = client.seen[r]
<1> DEFINE shown == Show(rows, more, "none")
<1>1. "none" \in ListRow \cup {"none"}
  OBVIOUS
<1>2. /\ shown \in ClientRecord
      /\ shown.pc = (IF ~more THEN "done" ELSE IF "none" = "none" THEN "count" ELSE "read")
      /\ shown.page = (IF "none" = "none" THEN client.page + 1 ELSE client.page)
      /\ shown.cursor = "none" /\ shown.style = client.style
      /\ shown.total = client.total /\ shown.lost = client.lost
      /\ shown.steady = client.steady \ Blurred("none")
      /\ shown.fresh = client.fresh \ Blurred("none")
      /\ \A r \in ListRow :
            shown.seen[r] = IF r \in Range(rows) THEN Seen(client.seen[r]) ELSE client.seen[r]
  BY <1>1, ShowMakes
<1> HIDE DEF shown
<1> QED
  BY <1>2 DEF shown

LEMMA ReadOffsetPageKeeps ==
    ASSUME PagingInv, NEW rows \in Orders, ReadOffsetPage(rows)
    PROVE  PagingInv'
<1> DEFINE skip == (client.page - 1) * Take
           data == UpTo(From(rows, skip), Take)
           more == client.page < TotalPages(client.total)
           shown == Show(data, more, "none")
<1>1. /\ client \in ClientRecord /\ client.pc = "read" /\ client.style = "offset" /\ PagingTypeOK
      /\ Open /\ stamp' = stamp /\ stampNow' = stampNow /\ client' = shown
      /\ client.page \in Nat /\ client.page >= 1 /\ client.total \in Nat /\ client.cursor = "none"
      /\ client.fresh = {}
  BY DEF PagingInv, PagingTypeOK, ReadOffsetPage, Open, StylesFormed, ClientRecord
<1>2. Take \in Nat /\ Take >= 1 /\ skip \in Nat /\ client.page * Take = skip + Take
  <2>1. client.page - 1 \in Nat /\ Take \in Nat /\ Take >= 1
    BY <1>1, PagingAssumption
  <2> QED
    BY <1>1, <2>1
<1> HIDE DEF skip
<1>3. /\ data \in Seq(ListRow) /\ Range(data) \subseteq Listed
      /\ \A j \in 1 .. Len(rows) : skip < j /\ j <= skip + Take => rows[j] \in Range(data)
  BY <1>1, <1>2, PageRange
<1> HIDE DEF data
<1>4. more \in BOOLEAN
  OBVIOUS
<1>5. /\ shown \in ClientRecord
      /\ shown.pc = (IF more THEN "count" ELSE "done") /\ shown.page = client.page + 1
      /\ shown.cursor = "none" /\ shown.style = client.style
      /\ shown.total = client.total /\ shown.lost = client.lost
      /\ shown.steady = client.steady \ Blurred("none")
      /\ shown.fresh = client.fresh \ Blurred("none")
      /\ \A r \in ListRow :
            /\ r \in Range(data) => shown.seen[r] = Seen(client.seen[r])
            /\ r \notin Range(data) => shown.seen[r] = client.seen[r]
  <2> HIDE DEF more
  <2> QED
    BY <1>1, <1>3, <1>4, ShowPage
<1> HIDE DEF more, shown
<1>6. /\ rows \in [1 .. Len(rows) -> Listed] /\ Len(rows) \in Nat
      /\ Len(rows) = Cardinality(Listed)
      /\ \A r \in Listed : \E j \in 1 .. Len(rows) : rows[j] = r
  BY <1>1, OrdersPlace
<1>7. Listed' = Listed /\ Listed \subseteq ListRow /\ \A r : Newer(r)' = Newer(r)
  BY <1>1 DEF Listed, Newer
<1>8. client.steady \subseteq Listed /\ \A r \in ListRow : client.seen[r] \in 0 .. 2
  BY <1>1 DEF PagingInv, RowsListed, ClientRecord
<1>9. ASSUME ~client.lost, NEW r \in shown.steady, NEW j \in 1 .. Len(rows), rows[j] = r,
             j <= skip + Take
      PROVE  shown.seen[r] >= 1
  <2>1. r \in client.steady /\ r \in Listed /\ r \in ListRow /\ TiedTo(r) = {}
    BY <1>1, <1>5, <1>7, <1>8, <1>9 DEF Blurred
  <2>2. CASE r \in Range(data)
    BY <1>5, <1>8, <2>1, <2>2 DEF Seen
  <2>3. CASE r \notin Range(data)
    <3>1. j <= skip
      BY <1>2, <1>3, <1>6, <1>9, <2>3
    <3>2. Cardinality(Newer(r)) = j - 1
      BY <1>1, <1>9, <2>1, PlaceCounts
    <3>3. Cardinality(Newer(r)) < skip
      BY <1>2, <1>6, <3>1, <3>2
    <3>4. client.seen[r] >= 1
      BY <1>1, <1>9, <2>1, <3>3 DEF PagingInv, PagesCounted, skip
    <3> QED
      BY <1>5, <2>1, <2>3, <3>4
  <2> QED
    BY <2>2, <2>3
<1>10. PagingTypeOK' /\ StylesFormed' /\ CursorBetween'
  BY <1>1, <1>5 DEF PagingInv, PagingTypeOK, StylesFormed, CursorBetween, Open
<1>11. RowsListed'
  <2>1. \A r \in ListRow : stamp'[r] = Unwritten => shown.seen[r] = 0
    <3>1. \A r \in ListRow : stamp[r] = Unwritten => r \notin Listed /\ client.seen[r] = 0
      BY <1>1 DEF PagingInv, RowsListed, Listed, Unwritten
    <3>2. \A r \in Range(data) : r \in Listed
      BY <1>3
    <3> QED
      BY <1>1, <1>5, <3>1, <3>2
  <2>2. shown.steady \cup shown.fresh \subseteq Listed
    BY <1>1, <1>5, <1>8
  <2> QED
    BY <1>1, <1>7, <2>1, <2>2 DEF RowsListed
<1>12. PagesCounted'
  <2> SUFFICES ASSUME ~client.lost, NEW r \in shown.steady,
                      Cardinality(Newer(r)) < (shown.page - 1) * Take
               PROVE  shown.seen[r] >= 1
    <3>1. shown.pc # "read"
      BY <1>5
    <3> QED
      BY <1>1, <1>5, <1>7, <3>1 DEF PagesCounted
  <2>1. r \in Listed /\ TiedTo(r) = {}
    BY <1>1, <1>5, <1>8 DEF Blurred
  <2>2. PICK j \in 1 .. Len(rows) : rows[j] = r
    BY <1>6, <2>1
  <2>3. Cardinality(Newer(r)) = j - 1
    BY <1>1, <2>1, <2>2, PlaceCounts
  <2>4. shown.page - 1 = client.page
    BY <1>1, <1>5
  <2>5. j - 1 < skip + Take
    BY <1>2, <2>3, <2>4
  <2>6. j <= skip + Take
    BY <1>2, <1>6, <2>5
  <2> QED
    BY <1>9, <2>2, <2>6
<1>13. PagesComplete'
  <2> SUFFICES ASSUME ~client.lost, ~more, NEW r \in shown.steady
               PROVE  shown.seen[r] >= 1
    BY <1>1, <1>5 DEF PagesComplete
  <2>1. r \in Listed
    BY <1>5, <1>8
  <2>2. PICK j \in 1 .. Len(rows) : rows[j] = r
    BY <1>6, <2>1
  <2>3. Len(rows) <= client.total
    BY <1>1, <1>6 DEF PagingInv, PagesCounted
  <2>4. TotalPages(client.total) <= client.page
    <3>1. TotalPages(client.total) \in Int
      BY <1>1, <1>2 DEF TotalPages
    <3> QED
      BY <1>1, <3>1 DEF more
  <2>5. client.total <= skip + Take
    BY <1>1, <1>2, <2>4, PagesCover
  <2>6. j <= skip + Take
    BY <1>1, <1>2, <1>6, <2>3, <2>5
  <2> QED
    BY <1>9, <2>2, <2>6
<1> QED
  BY <1>10, <1>11, <1>12, <1>13 DEF PagingInv

LEMMA ReadAllKeeps ==
    ASSUME PagingInv, NEW rows \in Orders, ReadAll(rows)
    PROVE  PagingInv'
<1> DEFINE data == UpTo(rows, HardCap)
           shown == Show(data, FALSE, "none")
           lost == Len(rows) > HardCap
<1>1. /\ client \in ClientRecord /\ client.pc = "read" /\ client.style = "all" /\ PagingTypeOK
      /\ Open /\ stamp' = stamp /\ stampNow' = stampNow
      /\ client' = [shown EXCEPT !.lost = lost] /\ client.cursor = "none"
      /\ client.fresh = {} /\ \A r \in ListRow : client.seen[r] = 0
  BY DEF PagingInv, PagingTypeOK, ReadAll, Open, StylesFormed
<1>2. /\ rows \in Seq(ListRow) /\ Len(rows) \in Nat
      /\ \A r \in Listed : \E j \in 1 .. Len(rows) : rows[j] = r
  BY <1>1, OrdersPlace
<1>3. /\ data \in Seq(ListRow)
      /\ \A j \in 1 .. Len(rows) : j <= HardCap => rows[j] \in Range(data)
  <2>1. HardCap \in Nat /\ 0 \in Nat
    BY PagingAssumption
  <2>2. From(rows, 0) = rows
    BY <1>2, FromStart
  <2>3. /\ UpTo(From(rows, 0), HardCap) \in Seq(ListRow)
        /\ \A j \in 1 .. Len(rows) :
              0 < j /\ j <= 0 + HardCap => rows[j] \in Range(UpTo(From(rows, 0), HardCap))
    BY <1>1, <2>1, PageRange
  <2>4. \A j \in 1 .. Len(rows) : 0 < j /\ 0 + HardCap = HardCap
    BY <2>1
  <2> HIDE DEF data
  <2> QED
    BY <2>2, <2>3, <2>4 DEF data
<1>4. Blurred("none") = {}
  BY <1>1 DEF Blurred
<1> HIDE DEF data
<1>5. /\ shown \in ClientRecord /\ shown.pc = "done" /\ shown.cursor = "none"
      /\ shown.style = "all" /\ shown.steady = client.steady /\ shown.fresh = {}
      /\ \A r \in ListRow : r \in Range(data) => shown.seen[r] = 1
  <2> DEFINE more == FALSE
  <2>1. more \in BOOLEAN /\ ~more /\ shown = Show(data, more, "none")
    OBVIOUS
  <2> HIDE DEF more, shown
  <2>2. /\ shown \in ClientRecord
        /\ shown.pc = (IF more THEN "count" ELSE "done") /\ shown.page = client.page + 1
        /\ shown.cursor = "none" /\ shown.style = client.style
        /\ shown.total = client.total /\ shown.lost = client.lost
        /\ shown.steady = client.steady \ Blurred("none")
        /\ shown.fresh = client.fresh \ Blurred("none")
        /\ \A r \in ListRow :
              /\ r \in Range(data) => shown.seen[r] = Seen(client.seen[r])
              /\ r \notin Range(data) => shown.seen[r] = client.seen[r]
    BY <1>1, <1>3, <2>1, ShowPage
  <2> QED
    BY <1>1, <1>4, <2>1, <2>2 DEF Seen
<1>6. lost \in BOOLEAN
  OBVIOUS
<1> HIDE DEF shown
<1>7. client' \in ClientRecord
  <2> HIDE DEF lost
  <2> QED
    BY <1>1, <1>5, <1>6, ClientFieldSet
<1>8. /\ client'.pc = "done" /\ client'.style = "all" /\ client'.lost = lost
      /\ client'.steady = client.steady /\ client'.fresh = {} /\ client'.seen = shown.seen
  BY <1>1, <1>5 DEF ClientRecord
<1>9. client.steady \subseteq Listed /\ Listed' = Listed /\ Listed \subseteq ListRow
  BY <1>1 DEF PagingInv, RowsListed, Listed
<1>10. PagingTypeOK' /\ StylesFormed' /\ CursorBetween' /\ PagesCounted' /\ RowsListed'
  BY <1>1, <1>7, <1>8, <1>9
     DEF PagingTypeOK, StylesFormed, CursorBetween, PagesCounted, RowsListed, Open
<1>11. PagesComplete'
  <2> SUFFICES ASSUME ~lost, NEW r \in client.steady PROVE shown.seen[r] = 1
    <3>1. ~client'.lost => ~lost
      BY <1>6, <1>8
    <3> HIDE DEF lost
    <3>2. /\ \A r \in client'.fresh : client'.seen[r] = 0
          /\ client'.steady = client.steady /\ client'.seen = shown.seen
      BY <1>8
    <3>3. \A n : n = 1 => n >= 1 /\ ~(n > 1)
      OBVIOUS
    <3> QED
      BY <3>1, <3>2, <3>3 DEF PagesComplete
  <2>1. PICK j \in 1 .. Len(rows) : rows[j] = r
    BY <1>2, <1>9
  <2>2. j <= HardCap
    BY <1>2, PagingAssumption DEF lost
  <2> QED
    BY <1>3, <1>5, <1>9, <2>1, <2>2
<1> QED
  BY <1>10, <1>11 DEF PagingInv

LEMMA PagingInductive == PagingInv /\ [PagingNext]_pagingVars => PagingInv'
<1> SUFFICES ASSUME PagingInv, [PagingNext]_pagingVars PROVE PagingInv'
  OBVIOUS
<1>1. CASE \E r \in ListRow : AddRow(r) \/ RemoveRow(r)
  BY <1>1, AddRowKeeps, RemoveRowKeeps
<1>2. CASE NextStamp
  BY <1>2, NextStampKeeps
<1>3. CASE \E style \in Styles : OpenList(style)
  BY <1>3, OpenListKeeps
<1>4. CASE \E rows \in Orders : ReadCursorPage(rows) \/ ReadOffsetPage(rows) \/ ReadAll(rows)
  BY <1>4, ReadCursorPageKeeps, ReadOffsetPageKeeps, ReadAllKeeps
<1>5. CASE CountRows
  BY <1>5, CountRowsKeeps
<1>6. CASE CloseList
  BY <1>6, CloseListKeeps
<1>7. CASE UNCHANGED pagingVars
  BY <1>7
     DEF pagingVars, PagingInv, PagingTypeOK, RowsListed, StylesFormed, CursorBetween,
         PagesCounted, PagesComplete, Open, Listed, Newer
<1> QED
  BY <1>1, <1>2, <1>3, <1>4, <1>5, <1>6, <1>7 DEF PagingNext

(* A list read to its end showed every row that was there all the while,   *)
(* with a cursor once, or there is a known reason why not: findAll with a  *)
(* cursor and one row more, with skip and take, and up to the hard cap.    *)
THEOREM PagesSafety == PagingSpec => []PagesComplete
<1>1. PagingInv => PagesComplete
  BY DEF PagingInv
<1> QED
  BY <1>1, PagingInvInit, PagingInductive, PTL DEF PagingSpec

-----------------------------------------------------------------------------
(* Answers.  What an answer is made from while the tables change under it. *)

(* No row is from the future, and what a read returned was written.        *)
RowsOfThePast ==
    /\ \A r \in LiveItems : table[r].at <= tick
    /\ \A q \in AllReads : \A r \in answer.got[q] : table[r].state # "UNUSED"

AnswerFormed ==
    /\ answer.pc = "idle" => answer.left = {}
    /\ answer.pc = "done" => answer.left = {}
    /\ answer.pc # "idle" =>
          /\ answer.begun <= tick
          /\ answer.since = IF answer.kind = "analytics" THEN DaysBack(answer.begun)
                            ELSE answer.begun - TicksPerDay
          /\ answer.left \subseteq ReadsOf[answer.kind]

SteadyLive == answer.steady \subseteq LiveItems

(* A read returned what was due to it, or was cut before it.               *)
Returned(q, r) == r \in answer.got[q] \/ CutOff(q, r)

ReadsReturned ==
    answer.pc # "idle" =>
        \A q \in ReadsOf[answer.kind] \ answer.left, r \in answer.steady :
            Due(q, r) => Returned(q, r)

StatisticsInv ==
    StatisticsTypeOK /\ RowsOfThePast /\ AnswerFormed /\ SteadyLive /\ ReadsReturned

LEMMA DaysDivide ==
    ASSUME NEW t \in Int
    PROVE  /\ Day(t) \in Int
           /\ Day(t) * TicksPerDay <= t /\ t < (Day(t) + 1) * TicksPerDay
BY StatisticsAssumption DEF Day

LEMMA DayOfQuotient ==
    ASSUME NEW d \in Int, NEW t \in Int, d * TicksPerDay <= t, t < (d + 1) * TicksPerDay
    PROVE  Day(t) = d
<1>1. TicksPerDay \in Nat /\ TicksPerDay > 0
  BY StatisticsAssumption
<1>2. Day(t) \in Int /\ Day(t) * TicksPerDay <= t /\ t < (Day(t) + 1) * TicksPerDay
  BY DaysDivide
<1>3. ASSUME NEW a \in Int, NEW b \in Int, a * TicksPerDay < (b + 1) * TicksPerDay
      PROVE  a <= b
  <2>1. CASE a >= b + 1
    <3>1. a * TicksPerDay >= (b + 1) * TicksPerDay
      BY <1>1, <2>1
    <3> QED
      BY <1>1, <1>3, <3>1
  <2> QED
    BY <2>1
<1>4. d * TicksPerDay < (Day(t) + 1) * TicksPerDay
  BY <1>1, <1>2
<1>5. Day(t) * TicksPerDay < (d + 1) * TicksPerDay
  BY <1>1, <1>2
<1> QED
  BY <1>2, <1>3, <1>4, <1>5

(* The chart goes back to the beginning of its first day.                  *)
LEMMA ChartBegins ==
    ASSUME NEW t \in Int
    PROVE  /\ DaysBack(t) \in Int
           /\ DaysBack(t) = (Day(t) - Window + 1) * TicksPerDay
           /\ Day(DaysBack(t)) = Day(t) - Window + 1
<1> DEFINE first == Day(t) - Window + 1
           back == t - (Window - 1) * TicksPerDay
<1>1. TicksPerDay \in Nat /\ TicksPerDay > 0 /\ Window \in Nat /\ Window > 0
  BY StatisticsAssumption
<1>2. Day(t) \in Int /\ Day(t) * TicksPerDay <= t /\ t < (Day(t) + 1) * TicksPerDay
  BY DaysDivide
<1>3. first \in Int /\ back \in Int /\ first * TicksPerDay \in Int
  BY <1>1, <1>2
<1>4. /\ first * TicksPerDay = Day(t) * TicksPerDay - (Window - 1) * TicksPerDay
      /\ (first + 1) * TicksPerDay = (Day(t) + 1) * TicksPerDay - (Window - 1) * TicksPerDay
  BY <1>1, <1>2
<1>5. first * TicksPerDay <= back /\ back < (first + 1) * TicksPerDay
  BY <1>1, <1>2, <1>4
<1>6. Day(back) = first
  BY <1>3, <1>5, DayOfQuotient
<1>7. first * TicksPerDay < (first + 1) * TicksPerDay
  BY <1>1, <1>3
<1>8. Day(first * TicksPerDay) = first
  BY <1>1, <1>3, <1>7, DayOfQuotient
<1> QED
  BY <1>3, <1>6, <1>8 DEF DaysBack

LEMMA ReadsTyped == ASSUME NEW kind \in Answers PROVE ReadsOf[kind] \in SUBSET AllReads
BY DEF AllReads

LEMMA ReadsPerDay == ASSUME NEW kind \in Answers \ {"analytics"} PROVE ReadsOf[kind] \cap PerDay = {}
<1>1. Answers = {"analytics", "stats", "metrics", "activity", "export", "dashboard", "workspace"}
  BY DEF Answers, ReadsOf
<1> QED
  BY <1>1 DEF ReadsOf, GetStats, GetMetrics, GetUserActivity, ExportMyData, FindMyDashboard,
              GetWorkspaceById, PerDay

LEMMA ReadsKnown ==
    /\ "analytics" \in Answers /\ "stats" \in Answers
    /\ ReadsOf["analytics"] = PerDay /\ PerDay \cap CutReads = {}
<1>1. "analytics" \in Answers /\ "stats" \in Answers /\ ReadsOf["analytics"] = PerDay
  BY DEF Answers, ReadsOf, GetAnalytics, PerDay
<1>2. PerDay \cap CutReads = {}
  BY DEF PerDay, CutReads, NewestFirst, Grouped
<1> QED
  BY <1>1, <1>2

LEMMA StatisticsRecords ==
    /\ NoItem \in ItemRecord /\ NoItem.state = "UNUSED"
    /\ NoAnswer \in AnswerRecord /\ NoAnswer.pc = "idle" /\ NoAnswer.left = {}
    /\ NoAnswer.steady = {}
    /\ \A q \in AllReads : NoAnswer.got[q] = {}
BY StatisticsAssumption, ReadsKnown DEF NoItem, ItemRecord, NoAnswer, AnswerRecord

LEMMA StatisticsInvInit == StatisticsInit => StatisticsInv
BY StatisticsRecords, StatisticsAssumption
   DEF StatisticsInit, StatisticsInv, StatisticsTypeOK, RowsOfThePast, AnswerFormed, SteadyLive,
       ReadsReturned, LiveItems

(* The table changes under an answer: rows that are steady are as they     *)
(* were, what goes is steady no more, what comes is new, and no row        *)
(* changes its age.                                                        *)
LEMMA TableChanges ==
    ASSUME StatisticsInv, StatisticsTypeOK', tick <= tick',
           answer' = [answer EXCEPT !.steady = answer'.steady],
           answer'.steady \subseteq answer.steady,
           \A r \in answer'.steady : table'[r] = table[r],
           \A r \in Item : table[r].state # "UNUSED" => table'[r].state # "UNUSED",
           \A r \in Item : table'[r].state = "LIVE" =>
              \/ table[r].state = "LIVE" /\ table'[r].at = table[r].at
              \/ table[r].state = "UNUSED" /\ table'[r].at <= tick'
    PROVE  StatisticsInv'
<1>1. answer \in AnswerRecord /\ tick \in Int /\ tick' \in Int
      /\ \A r \in Item : table[r].at \in Int
  BY StatisticsAssumption DEF StatisticsInv, StatisticsTypeOK, ItemRecord
<1>2. /\ answer'.pc = answer.pc /\ answer'.kind = answer.kind /\ answer'.begun = answer.begun
      /\ answer'.since = answer.since /\ answer'.left = answer.left /\ answer'.got = answer.got
  BY <1>1 DEF AnswerRecord
<1>3. \A q \in AllReads : answer.got[q] \subseteq Item
  BY <1>1 DEF AnswerRecord
<1>4. RowsOfThePast'
  <2>1. ASSUME NEW r \in Item, table'[r].state = "LIVE" PROVE table'[r].at <= tick'
    BY <1>1, <2>1 DEF StatisticsInv, RowsOfThePast, LiveItems
  <2>2. ASSUME NEW q \in AllReads, NEW r \in answer'.got[q] PROVE table'[r].state # "UNUSED"
    BY <1>2, <1>3, <2>2 DEF StatisticsInv, RowsOfThePast
  <2> QED
    BY <2>1, <2>2 DEF RowsOfThePast, LiveItems
<1>5. AnswerFormed'
  <2>1. answer.pc # "idle" => answer.begun \in Int /\ answer.begun <= tick'
    BY <1>1 DEF StatisticsInv, AnswerFormed, AnswerRecord
  <2> QED
    BY <1>2, <2>1 DEF StatisticsInv, AnswerFormed, DaysBack
<1>6. SteadyLive'
  BY <1>2 DEF StatisticsInv, SteadyLive, LiveItems
<1>7. ReadsReturned'
  <2> SUFFICES ASSUME answer'.pc # "idle", NEW q \in ReadsOf[answer'.kind] \ answer'.left,
                      NEW r \in answer'.steady, Due(q, r)'
               PROVE  Returned(q, r)'
    BY DEF ReadsReturned
  <2>1. Due(q, r) /\ table'[r] = table[r]
    BY <1>2 DEF Due, ChartDays
  <2>2. Returned(q, r)
    BY <1>2, <2>1 DEF StatisticsInv, ReadsReturned
  <2>3. q \in AllReads
    BY <1>1, <1>2, ReadsTyped DEF AnswerRecord
  <2>4. \A x \in answer.got[q] \cap LiveItems' : x \in LiveItems /\ table'[x].at = table[x].at
    BY <1>3, <2>3 DEF LiveItems, StatisticsInv, RowsOfThePast
  <2>5. CutOff(q, r) => CutOff(q, r)'
    BY <1>2, <2>1, <2>4 DEF CutOff, Routes
  <2> QED
    BY <1>2, <2>2, <2>5 DEF Returned
<1> QED
  BY <1>4, <1>5, <1>6, <1>7 DEF StatisticsInv

LEMMA TableKeeps ==
    ASSUME StatisticsInv,
           \/ \E r \in Item : \/ \E picked \in BOOLEAN : WriteItem(r, picked)
                             \/ ChangeItem(r)
                             \/ DeleteItem(r)
           \/ NextTick
    PROVE  StatisticsInv'
<1>1. /\ table \in [Item -> ItemRecord] /\ tick \in 0 .. LastTick /\ answer \in AnswerRecord
      /\ tick <= tick /\ answer = [answer EXCEPT !.steady = answer.steady]
      /\ answer.steady \subseteq LiveItems
  BY StatisticsAssumption DEF StatisticsInv, StatisticsTypeOK, AnswerRecord, SteadyLive
<1>2. ASSUME NEW r \in Item, NEW picked \in BOOLEAN, WriteItem(r, picked) PROVE StatisticsInv'
  <2> DEFINE new == [state |-> "LIVE", at |-> tick, picked |-> picked]
  <2>1. new \in ItemRecord /\ new.at = tick /\ new.state = "LIVE"
    BY <1>1 DEF ItemRecord
  <2>2. /\ table' = [table EXCEPT ![r] = new] /\ table[r].state = "UNUSED"
        /\ tick' = tick /\ answer' = answer
    BY <1>2 DEF WriteItem
  <2> HIDE DEF new
  <2>3. table'[r] = new /\ \A x \in Item : x # r => table'[x] = table[x]
    BY <1>1, <2>2
  <2>4. \A x \in answer.steady : x \in Item /\ x # r
    BY <1>1, <2>2 DEF LiveItems
  <2>5. StatisticsTypeOK'
    BY <1>1, <2>1, <2>2 DEF StatisticsTypeOK
  <2> QED
    BY <1>1, <2>1, <2>2, <2>3, <2>4, <2>5, TableChanges
<1>3. ASSUME NEW r \in LiveItems, NEW new \in ItemRecord, new.state # "UNUSED",
             new.state = "LIVE" => new.at = table[r].at,
             table' = [table EXCEPT ![r] = new], Disturb(r), UNCHANGED tick
      PROVE  StatisticsInv'
  <2>1. r \in Item /\ table[r].state = "LIVE"
    BY <1>3 DEF LiveItems
  <2>2. table'[r] = new /\ \A x \in Item : x # r => table'[x] = table[x]
    BY <1>1, <1>3, <2>1
  <2>3. /\ answer' = [answer EXCEPT !.steady = answer.steady \ {r}]
        /\ answer'.steady = answer.steady \ {r} /\ answer' \in AnswerRecord
    BY <1>1, <1>3 DEF Disturb, AnswerRecord
  <2>4. StatisticsTypeOK'
    BY <1>1, <1>3, <2>3 DEF StatisticsTypeOK
  <2>5. \A x \in answer'.steady : table'[x] = table[x]
    BY <1>1, <2>2, <2>3 DEF LiveItems
  <2>6. \A x \in Item : table'[x].state = "LIVE" =>
                           table[x].state = "LIVE" /\ table'[x].at = table[x].at
    BY <1>3, <2>1, <2>2
  <2>7. \A x \in Item : table[x].state # "UNUSED" => table'[x].state # "UNUSED"
    BY <1>3, <2>2
  <2>8. tick <= tick' /\ answer' = [answer EXCEPT !.steady = answer'.steady]
        /\ answer'.steady \subseteq answer.steady
    BY <1>1, <1>3, <2>3
  <2> QED
    BY <2>4, <2>5, <2>6, <2>7, <2>8, TableChanges
<1>4. ASSUME NEW r \in Item, ChangeItem(r) PROVE StatisticsInv'
  <2> DEFINE new == [table[r] EXCEPT !.picked = ~@]
  <2>1. r \in LiveItems /\ table[r].state = "LIVE" /\ table[r] \in ItemRecord
    BY <1>1, <1>4 DEF ChangeItem, LiveItems
  <2>3. new \in ItemRecord /\ new.state = table[r].state /\ new.at = table[r].at
    BY <2>1 DEF ItemRecord
  <2>2. table' = [table EXCEPT ![r] = new] /\ Disturb(r) /\ UNCHANGED tick
    BY <1>4 DEF ChangeItem
  <2> HIDE DEF new
  <2> QED
    BY <1>3, <2>1, <2>2, <2>3
<1>5. ASSUME NEW r \in Item, DeleteItem(r) PROVE StatisticsInv'
  <2> DEFINE new == [NoItem EXCEPT !.state = "GONE"]
  <2>1. new \in ItemRecord /\ new.state = "GONE"
    BY StatisticsRecords DEF NoItem, ItemRecord
  <2>2. /\ r \in LiveItems /\ table' = [table EXCEPT ![r] = new] /\ Disturb(r)
        /\ UNCHANGED tick
    BY <1>5 DEF DeleteItem
  <2> HIDE DEF new
  <2> QED
    BY <1>3, <2>1, <2>2
<1>6. ASSUME NextTick PROVE StatisticsInv'
  <2>1. tick' = tick + 1 /\ tick < LastTick /\ table' = table /\ answer' = answer
    BY <1>6 DEF NextTick
  <2>2. StatisticsTypeOK' /\ tick <= tick'
    BY <1>1, <2>1, StatisticsAssumption DEF StatisticsTypeOK
  <2> QED
    BY <1>1, <2>1, <2>2, TableChanges
<1> QED
  BY <1>2, <1>4, <1>5, <1>6

LEMMA BeginAnswerKeeps ==
    ASSUME StatisticsInv, NEW kind \in Answers, BeginAnswer(kind)
    PROVE  StatisticsInv'
<1> DEFINE since == IF kind = "analytics" THEN DaysBack(tick) ELSE tick - TicksPerDay
           rec == [NoAnswer EXCEPT !.pc = "reading", !.kind = kind, !.begun = tick,
                     !.since = since, !.left = ReadsOf[kind], !.steady = LiveItems]
<1>1. tick \in 0 .. LastTick /\ tick \in Int /\ tick <= tick
  BY StatisticsAssumption DEF StatisticsInv, StatisticsTypeOK
<1>2. since \in Int
  BY <1>1, ChartBegins, StatisticsAssumption
<1> HIDE DEF since
<1>3. ReadsOf[kind] \subseteq AllReads /\ LiveItems \subseteq Item
  BY ReadsTyped DEF LiveItems
<1>4. /\ rec \in AnswerRecord /\ rec.pc = "reading" /\ rec.kind = kind /\ rec.begun = tick
      /\ rec.since = since /\ rec.left = ReadsOf[kind] /\ rec.steady = LiveItems
      /\ rec.got = NoAnswer.got
  BY <1>1, <1>2, <1>3, StatisticsRecords DEF NoAnswer, AnswerRecord
<1>5. answer' = rec /\ table' = table /\ tick' = tick
  BY DEF BeginAnswer, since
<1> HIDE DEF rec
<1>6. StatisticsTypeOK'
  BY <1>4, <1>5 DEF StatisticsInv, StatisticsTypeOK
<1>7. RowsOfThePast'
  BY <1>4, <1>5, StatisticsRecords DEF StatisticsInv, RowsOfThePast, LiveItems
<1>8. AnswerFormed'
  BY <1>1, <1>4, <1>5 DEF AnswerFormed, since, DaysBack
<1>9. SteadyLive'
  BY <1>4, <1>5 DEF SteadyLive, LiveItems
<1>10. ReadsReturned'
  BY <1>4, <1>5 DEF ReadsReturned
<1> QED
  BY <1>6, <1>7, <1>8, <1>9, <1>10 DEF StatisticsInv

(* Rows that are due to a read are selected by it, and those that are cut  *)
(* off are not newer than those that are not.                              *)
LEMMA DueIsSelected ==
    ASSUME StatisticsInv, answer.pc # "idle", NEW q \in ReadsOf[answer.kind],
           NEW r \in answer.steady, Due(q, r)
    PROVE  r \in Selected(q)
<1>1. /\ answer \in AnswerRecord /\ answer.kind \in Answers /\ answer.begun \in Int
      /\ answer.since \in Int /\ r \in LiveItems /\ table[r].at \in Int
  BY StatisticsAssumption
     DEF StatisticsInv, StatisticsTypeOK, AnswerRecord, ItemRecord, SteadyLive, LiveItems
<1>2. q \in PickedOnly => table[r].picked
  BY DEF Due
<1>3. CASE answer.kind = "analytics"
  <2>1. q \in PerDay
    BY <1>3, ReadsKnown
  <2>2. Day(table[r].at) \in ChartDays
    BY <2>1 DEF Due
  <2>3. answer.since = (Day(answer.begun) - Window + 1) * TicksPerDay
    BY <1>1, <1>3, ChartBegins DEF StatisticsInv, AnswerFormed
  <2>4. /\ Day(answer.begun) - Window + 1 <= Day(table[r].at)
        /\ Day(table[r].at) \in Int /\ Day(answer.begun) - Window + 1 \in Int
        /\ Day(table[r].at) * TicksPerDay <= table[r].at
    BY <1>1, <2>2, DaysDivide, StatisticsAssumption DEF ChartDays
  <2>5. (Day(answer.begun) - Window + 1) * TicksPerDay <= Day(table[r].at) * TicksPerDay
    BY <2>4, StatisticsAssumption
  <2>6. table[r].at >= answer.since
    <3> DEFINE from == (Day(answer.begun) - Window + 1) * TicksPerDay
               day == Day(table[r].at) * TicksPerDay
    <3>1. from \in Int /\ day \in Int
      BY <2>4, StatisticsAssumption
    <3>2. answer.since = from /\ from <= day /\ day <= table[r].at /\ table[r].at \in Int
      BY <1>1, <2>2, <2>3, <2>4, <2>5
    <3> HIDE DEF from, day
    <3> QED
      BY <3>1, <3>2
  <2> QED
    BY <1>1, <1>2, <2>6 DEF Selected
<1>4. CASE answer.kind # "analytics"
  <2>1. q \notin PerDay
    BY <1>1, <1>4, ReadsPerDay
  <2>2. answer.since = answer.begun - TicksPerDay
    BY <1>4 DEF StatisticsInv, AnswerFormed
  <2>3. q \in LastDay => table[r].at >= answer.since
    BY <2>2 DEF Due
  <2> QED
    BY <1>1, <1>2, <2>1, <2>3 DEF Selected
<1> QED
  BY <1>3, <1>4

(* What a read returns was selected, and what it leaves out was cut off.   *)
LEMMA ReturnedRows ==
    ASSUME NEW q \in AllReads, NEW rows \in Returns(q, Selected(q))
    PROVE  /\ rows \subseteq Selected(q) /\ rows \subseteq LiveItems
           /\ \A r \in Selected(q) \ rows :
                 /\ q \in CutReads
                 /\ q \in Grouped => /\ Cardinality(Routes(rows)) = ListTake
                                     /\ RouteOf(r) \notin Routes(rows)
                 /\ q \notin Grouped => Cardinality(rows) = ListTake
                 /\ q \in NewestFirst \ Grouped => \A x \in rows : table[x].at >= table[r].at
<1>1. rows \subseteq Selected(q)
  BY DEF Returns, TopOf, FirstOf
<1>2. Selected(q) \subseteq LiveItems
  BY DEF Selected
<1>3. CASE q \in Grouped
  <2>1. ASSUME NEW r \in Selected(q) \ rows
        PROVE  Cardinality(Routes(rows)) = ListTake /\ RouteOf(r) \notin Routes(rows)
    BY <1>3, <2>1 DEF Returns, TopOf, RowsOn
  <2> QED
    BY <1>1, <1>2, <1>3, <2>1 DEF CutReads
<1>4. CASE q \in CutReads \ Grouped
  BY <1>1, <1>2, <1>4 DEF Returns, FirstOf
<1>5. CASE q \notin CutReads
  BY <1>1, <1>2, <1>5 DEF Returns, CutReads
<1> QED
  BY <1>3, <1>4, <1>5

LEMMA RunReadKeeps ==
    ASSUME StatisticsInv, NEW q \in AllReads, RunRead(q)
    PROVE  StatisticsInv'
<1>1. PICK rows \in Returns(q, Selected(q)) :
         answer' = [answer EXCEPT !.left = @ \ {q}, !.got[q] = rows,
                                  !.pc = IF answer.left = {q} THEN "done" ELSE "reading"]
  BY DEF RunRead
<1>2. q \in answer.left /\ table' = table /\ tick' = tick
  BY DEF RunRead
<1>3. answer \in AnswerRecord /\ answer.pc # "idle" /\ answer.left \subseteq ReadsOf[answer.kind]
  BY <1>2 DEF StatisticsInv, StatisticsTypeOK, AnswerFormed
<1>4. rows \subseteq LiveItems /\ rows \subseteq Item
  BY ReturnedRows DEF LiveItems
<1>5. /\ answer'.left = answer.left \ {q} /\ answer'.kind = answer.kind
      /\ answer'.begun = answer.begun /\ answer'.since = answer.since
      /\ answer'.steady = answer.steady
      /\ answer'.pc \in {"done", "reading"} /\ (answer'.pc = "done" => answer.left = {q})
      /\ answer'.got = [answer.got EXCEPT ![q] = rows]
  BY <1>1, <1>3 DEF AnswerRecord
<1>6. answer' \in AnswerRecord
  <2>1. answer'.got \in [AllReads -> SUBSET Item]
    BY <1>3, <1>4, <1>5 DEF AnswerRecord
  <2>2. answer' = [pc |-> answer'.pc, kind |-> answer'.kind, begun |-> answer'.begun,
                   since |-> answer'.since, left |-> answer'.left, got |-> answer'.got,
                   steady |-> answer'.steady]
    BY <1>1, <1>3 DEF AnswerRecord
  <2> QED
    BY <1>3, <1>5, <2>1, <2>2 DEF AnswerRecord
<1>7. \A p \in AllReads : answer'.got[p] = IF p = q THEN rows ELSE answer.got[p]
  BY <1>3, <1>5 DEF AnswerRecord
<1>8. StatisticsTypeOK'
  BY <1>2, <1>6 DEF StatisticsInv, StatisticsTypeOK
<1>9. RowsOfThePast'
  <2>1. ASSUME NEW p \in AllReads, NEW r \in answer'.got[p] PROVE table'[r].state # "UNUSED"
    BY <1>2, <1>4, <1>7, <2>1 DEF StatisticsInv, RowsOfThePast, LiveItems
  <2> QED
    BY <1>2, <2>1 DEF StatisticsInv, RowsOfThePast, LiveItems
<1>10. AnswerFormed' /\ SteadyLive'
  BY <1>2, <1>3, <1>5 DEF StatisticsInv, AnswerFormed, SteadyLive, LiveItems, DaysBack
<1>11. ReadsReturned'
  <2> SUFFICES ASSUME NEW p \in ReadsOf[answer'.kind] \ answer'.left, NEW r \in answer'.steady,
                      Due(p, r)'
               PROVE  Returned(p, r)'
    BY DEF ReadsReturned
  <2>1. Due(p, r) /\ r \in answer.steady /\ p \in ReadsOf[answer.kind]
    BY <1>2, <1>5 DEF Due, ChartDays
  <2>2. p \in AllReads
    BY <1>3, <2>1, ReadsTyped DEF AnswerRecord
  <2>3. CASE p # q
    <3>1. Returned(p, r)
      BY <1>3, <1>5, <2>1, <2>3 DEF StatisticsInv, ReadsReturned
    <3> QED
      BY <1>2, <1>7, <2>2, <2>3, <3>1 DEF Returned, CutOff, LiveItems
  <2>4. CASE p = q
    <3>1. r \in Selected(q)
      BY <1>3, <2>1, <2>4, DueIsSelected
    <3>2. r \in rows \/ CutOff(q, r)'
      BY <1>2, <1>7, <3>1, ReturnedRows DEF CutOff, LiveItems
    <3> QED
      BY <1>7, <2>4, <3>2 DEF Returned
  <2> QED
    BY <2>3, <2>4
<1> QED
  BY <1>8, <1>9, <1>10, <1>11 DEF StatisticsInv

LEMMA EndAnswerKeeps == StatisticsInv /\ EndAnswer => StatisticsInv'
BY StatisticsRecords
   DEF EndAnswer, StatisticsInv, StatisticsTypeOK, RowsOfThePast, AnswerFormed, SteadyLive,
       ReadsReturned, LiveItems

LEMMA StatisticsInductive == StatisticsInv /\ [StatisticsNext]_statisticsVars => StatisticsInv'
<1> SUFFICES ASSUME StatisticsInv, [StatisticsNext]_statisticsVars PROVE StatisticsInv'
  OBVIOUS
<1>1. CASE UNCHANGED statisticsVars
  <2>1. table' = table /\ tick' = tick /\ answer' = answer
    BY <1>1 DEF statisticsVars
  <2>2. /\ StatisticsTypeOK' /\ tick <= tick'
        /\ answer = [answer EXCEPT !.steady = answer.steady]
    BY <2>1, StatisticsAssumption DEF StatisticsInv, StatisticsTypeOK, AnswerRecord
  <2> QED
    BY <2>1, <2>2, TableChanges
<1>2. ASSUME NEW kind \in Answers, BeginAnswer(kind) PROVE StatisticsInv'
  BY <1>2, BeginAnswerKeeps
<1>3. ASSUME NEW q \in AllReads, RunRead(q) PROVE StatisticsInv'
  BY <1>3, RunReadKeeps
<1> QED
  BY <1>1, <1>2, <1>3, TableKeeps, EndAnswerKeeps DEF StatisticsNext

LEMMA AnswersAreComplete == StatisticsInv => AnswersComplete
<1> SUFFICES ASSUME StatisticsInv, answer.pc = "done" PROVE AnswersComplete
  BY DEF AnswersComplete
<1>1. /\ answer \in AnswerRecord /\ answer.begun \in Int /\ answer.kind \in Answers
      /\ answer.left = {}
  BY StatisticsAssumption DEF StatisticsInv, StatisticsTypeOK, AnswerRecord, AnswerFormed
<1>2. ASSUME answer.kind = "analytics" PROVE BucketKeys = ChartDays
  <2>1. Day(answer.since) = Day(answer.begun) - Window + 1
    BY <1>1, <1>2, ChartBegins DEF StatisticsInv, AnswerFormed
  <2>2. Day(answer.begun) \in Int /\ Window \in Nat \ {0}
    BY <1>1, DaysDivide, StatisticsAssumption
  <2>3. ASSUME NEW d \in ChartDays PROVE d \in BucketKeys
    <3>1. d - Day(answer.since) \in 0 .. Window - 1 /\ d = Day(answer.since) + (d - Day(answer.since))
      BY <2>1, <2>2, <2>3 DEF ChartDays
    <3> QED
      BY <3>1 DEF BucketKeys
  <2>4. ASSUME NEW i \in 0 .. Window - 1 PROVE Day(answer.since) + i \in ChartDays
    BY <2>1, <2>2, <2>4 DEF ChartDays
  <2> QED
    BY <2>3, <2>4 DEF BucketKeys
<1>3. ASSUME NEW q \in ReadsOf[answer.kind], NEW r \in answer.steady, Due(q, r)
      PROVE  Returned(q, r)
  BY <1>1, <1>3 DEF StatisticsInv, ReadsReturned
<1>4. ASSUME NEW q \in ReadsOf[answer.kind], NEW r \in answer.steady, Due(q, r),
             answer.kind = "analytics"
      PROVE  r \in Bucket(q, Day(table[r].at)) /\ Day(table[r].at) \in BucketKeys
  <2>1. q \in PerDay
    BY <1>4, ReadsKnown
  <2>2. r \in answer.got[q]
    BY <1>3, <1>4, <2>1, ReadsKnown DEF Returned, CutOff
  <2>3. Day(table[r].at) \in ChartDays
    BY <1>4, <2>1 DEF Due
  <2> QED
    BY <1>2, <1>4, <2>2, <2>3 DEF Bucket
<1> QED
  BY <1>2, <1>3, <1>4 DEF AnswersComplete, Returned

(* An answer that is put together from several reads returns in each of    *)
(* them what was due to it while the request ran, up to its limit, for any *)
(* limits and any number of rows that are written, changed and deleted     *)
(* between the reads.                                                      *)
THEOREM AnswersAddUp == StatisticsSpec => []AnswersComplete
BY StatisticsInvInit, StatisticsInductive, AnswersAreComplete, PTL DEF StatisticsSpec

-----------------------------------------------------------------------------
(* The charts of a board.  Stamps are of the past, and a completed sprint  *)
(* that nobody changed since holds nothing that is open or was done later. *)

StampsPast == \A c \in Card : card[c].made <= half /\ card[c].done <= half
CompletedSwept ==
    scrum.status = "COMPLETED" /\ ~meddled =>
        /\ scrum.end # NoDate
        /\ \A c \in Planned : card[c].column # "open" /\ card[c].done <= scrum.end

ChartsInv == SprintChartsTypeOK /\ StampsPast /\ CompletedSwept

LEMMA CardFields ==
    ASSUME SprintChartsTypeOK, NEW c \in Card
    PROVE  /\ card[c] \in CardRecord /\ card[c].there \in BOOLEAN /\ card[c].planned \in BOOLEAN
           /\ card[c].made \in Nat /\ card[c].done \in Int /\ card[c].column \in Columns
           /\ half \in Nat /\ scrum.start \in Int /\ scrum.end \in Int /\ LastHalf \in Nat
BY SprintChartsAssumption DEF SprintChartsTypeOK, CardRecord, ScrumRecord, Halves, NoDate

LEMMA ScrumFields ==
    ASSUME SprintChartsTypeOK
    PROVE  half \in Nat /\ scrum.start \in Int /\ scrum.end \in Int /\ LastHalf \in Nat
BY SprintChartsAssumption DEF SprintChartsTypeOK, ScrumRecord, Halves, NoDate

(* A card that the step leaves alone, and a sprint that it leaves alone.   *)
LEMMA ChartsInvInit == SprintChartsInit => ChartsInv
<1> SUFFICES ASSUME SprintChartsInit PROVE ChartsInv
  OBVIOUS
<1>1. NoCard \in CardRecord /\ NoCard.made = 0 /\ NoCard.done = -1 /\ 0 \in Halves
  BY SprintChartsAssumption DEF NoCard, CardRecord, Halves, NoDate, Columns
<1>2. NewScrum \in ScrumRecord /\ NewScrum.status = "PLANNING"
  BY DEF NewScrum, ScrumRecord
<1>3. /\ half = 0 /\ scrum = NewScrum /\ meddled = FALSE
      /\ card \in [Card -> CardRecord] /\ \A c \in Card : card[c] = NoCard
  BY <1>1 DEF SprintChartsInit
<1>4. StampsPast
  BY <1>1, <1>3 DEF StampsPast
<1> QED
  BY <1>1, <1>2, <1>3, <1>4 DEF ChartsInv, SprintChartsTypeOK, CompletedSwept

(* The step changes cards only, and one that is completed is meddled with. *)
LEMMA CardStepKeeps ==
    ASSUME ChartsInv, UNCHANGED <<half, scrum>>,
           card' \in [Card -> CardRecord],
           \A c \in Card : card'[c].made <= half /\ card'[c].done <= half, Meddle
    PROVE  ChartsInv'
BY DEF ChartsInv, SprintChartsTypeOK, StampsPast, CompletedSwept, Meddle

LEMMA MakeCardKeeps ==
    ASSUME ChartsInv, NEW c \in Card, NEW column \in Columns, NEW planned \in BOOLEAN,
           MakeCard(c, column, planned)
    PROVE  ChartsInv'
<1> DEFINE made == [there |-> TRUE, made |-> half, column |-> column, done |-> NoDate,
                    planned |-> planned]
<1>1. /\ card' = [card EXCEPT ![c] = made] /\ UNCHANGED <<half, scrum>> /\ Meddle
      /\ card \in [Card -> CardRecord] /\ half \in Halves /\ half \in Nat
      /\ \A b \in Card : card[b].made <= half /\ card[b].done <= half
  BY ScrumFields DEF MakeCard, ChartsInv, SprintChartsTypeOK, StampsPast
<1>2. made \in CardRecord /\ made.made <= half /\ made.done <= half
  BY <1>1 DEF CardRecord, NoDate
<1> HIDE DEF made
<1>3. /\ card' \in [Card -> CardRecord]
      /\ \A b \in Card : card'[b].made <= half /\ card'[b].done <= half
  BY <1>1, <1>2
<1> QED
  BY <1>1, <1>3, CardStepKeeps

LEMMA MoveCardKeeps ==
    ASSUME ChartsInv, NEW c \in Card, NEW column \in Columns, MoveCard(c, column)
    PROVE  ChartsInv'
<1> DEFINE at == IF column = "done" THEN half ELSE NoDate
           moved == [card[c] EXCEPT !.column = column, !.done = at]
<1>1. /\ card' = [card EXCEPT ![c] = moved] /\ UNCHANGED <<half, scrum>> /\ Meddle
      /\ card \in [Card -> CardRecord] /\ half \in Halves /\ half \in Nat
      /\ \A b \in Card : card[b].made <= half /\ card[b].done <= half
  BY ScrumFields DEF MoveCard, ChartsInv, SprintChartsTypeOK, StampsPast
<1>2. at \in Halves \cup {NoDate} /\ at <= half
  BY <1>1 DEF NoDate
<1> HIDE DEF at
<1>3. moved \in CardRecord /\ moved.made <= half /\ moved.done <= half
  BY <1>1, <1>2 DEF CardRecord
<1> HIDE DEF moved
<1>4. /\ card' \in [Card -> CardRecord]
      /\ \A b \in Card : card'[b].made <= half /\ card'[b].done <= half
  BY <1>1, <1>3
<1> QED
  BY <1>1, <1>4, CardStepKeeps

LEMMA TurnColumnKeeps ==
    ASSUME ChartsInv, NEW S \in SUBSET Card, NEW column \in Columns, TurnColumn(S, column)
    PROVE  ChartsInv'
<1> DEFINE turned(c) == [card[c] EXCEPT !.column = column]
<1>1. /\ card' = [c \in Card |-> IF c \in S THEN turned(c) ELSE card[c]]
      /\ UNCHANGED <<half, scrum>> /\ Meddle /\ card \in [Card -> CardRecord]
      /\ \A b \in Card : card[b].made <= half /\ card[b].done <= half
  BY DEF TurnColumn, ChartsInv, SprintChartsTypeOK, StampsPast
<1>2. \A c \in Card : turned(c) \in CardRecord /\ turned(c).made <= half /\ turned(c).done <= half
  BY <1>1 DEF CardRecord
<1> HIDE DEF turned
<1>3. /\ card' \in [Card -> CardRecord]
      /\ \A b \in Card : card'[b].made <= half /\ card'[b].done <= half
  BY <1>1, <1>2
<1> QED
  BY <1>1, <1>3, CardStepKeeps

LEMMA PlanCardKeeps ==
    ASSUME ChartsInv, NEW c \in Card, NEW planned \in BOOLEAN, PlanCard(c, planned)
    PROVE  ChartsInv'
<1> DEFINE made == [card[c] EXCEPT !.planned = planned]
<1>1. /\ card' = [card EXCEPT ![c] = made] /\ UNCHANGED <<half, scrum>> /\ Meddle
      /\ card \in [Card -> CardRecord]
      /\ \A b \in Card : card[b].made <= half /\ card[b].done <= half
  BY DEF PlanCard, ChartsInv, SprintChartsTypeOK, StampsPast
<1>2. made \in CardRecord /\ made.made <= half /\ made.done <= half
  BY <1>1 DEF CardRecord
<1> HIDE DEF made
<1>3. /\ card' \in [Card -> CardRecord]
      /\ \A b \in Card : card'[b].made <= half /\ card'[b].done <= half
  BY <1>1, <1>2
<1> QED
  BY <1>1, <1>3, CardStepKeeps

LEMMA DropCardKeeps == ASSUME ChartsInv, NEW c \in Card, DropCard(c) PROVE ChartsInv'
<1>1. /\ card' = [card EXCEPT ![c] = NoCard] /\ UNCHANGED <<half, scrum, meddled>>
      /\ card \in [Card -> CardRecord] /\ half \in Nat
      /\ \A b \in Card : card[b].made <= half /\ card[b].done <= half
  BY ScrumFields DEF DropCard, ChartsInv, SprintChartsTypeOK, StampsPast
<1>2. NoCard \in CardRecord /\ NoCard.made <= half /\ NoCard.done <= half /\ ~NoCard.there
  BY <1>1, SprintChartsAssumption DEF NoCard, CardRecord, Halves, NoDate, Columns
<1>3. /\ card' \in [Card -> CardRecord]
      /\ \A b \in Card : card'[b].made <= half /\ card'[b].done <= half
      /\ \A b \in Card : card'[b].there => card'[b] = card[b]
  BY <1>1, <1>2
<1>4. \A b \in Planned' : b \in Planned /\ card'[b] = card[b]
  BY <1>3 DEF Planned, Cards
<1> QED
  BY <1>1, <1>3, <1>4 DEF ChartsInv, SprintChartsTypeOK, StampsPast, CompletedSwept

LEMMA SetDatesKeeps ==
    ASSUME ChartsInv, NEW start \in DatesGiven, NEW end \in DatesGiven, SetDates(start, end)
    PROVE  ChartsInv'
<1>1. /\ scrum' = [scrum EXCEPT !.start = start, !.end = end] /\ UNCHANGED <<half, card>> /\ Meddle
      /\ scrum \in ScrumRecord /\ start \in Halves /\ end \in Halves
  BY SprintChartsAssumption DEF SetDates, ChartsInv, SprintChartsTypeOK, Halves
<1>2. scrum' \in ScrumRecord /\ scrum'.status = scrum.status
  BY <1>1 DEF ScrumRecord
<1> QED
  BY <1>1, <1>2 DEF ChartsInv, SprintChartsTypeOK, StampsPast, CompletedSwept, Meddle

LEMMA StartKeeps == ChartsInv /\ Start => ChartsInv'
<1> SUFFICES ASSUME ChartsInv, Start PROVE ChartsInv'
  OBVIOUS
<1> DEFINE start == IF scrum.start = NoDate THEN half ELSE scrum.start
<1>1. /\ scrum' = [scrum EXCEPT !.status = "ACTIVE", !.start = start]
      /\ UNCHANGED <<half, card, meddled>> /\ scrum \in ScrumRecord /\ half \in Halves
  BY DEF Start, ChartsInv, SprintChartsTypeOK
<1>2. start \in Halves \cup {NoDate}
  BY <1>1 DEF ScrumRecord
<1> HIDE DEF start
<1>3. scrum' \in ScrumRecord /\ scrum'.status = "ACTIVE"
  BY <1>1, <1>2 DEF ScrumRecord
<1> QED
  BY <1>1, <1>3 DEF ChartsInv, SprintChartsTypeOK, StampsPast, CompletedSwept

LEMMA CompleteScrumKeeps == ChartsInv /\ CompleteScrum => ChartsInv'
<1> SUFFICES ASSUME ChartsInv, CompleteScrum PROVE ChartsInv'
  OBVIOUS
<1> DEFINE stays(c) == card[c].planned /\ card[c].column # "open"
           swept(c) == [card[c] EXCEPT !.planned = stays(c)]
<1>1. /\ scrum' = [scrum EXCEPT !.status = "COMPLETED", !.end = half]
      /\ card' = [c \in Card |-> swept(c)]
      /\ UNCHANGED <<half, meddled>> /\ scrum \in ScrumRecord /\ half \in Halves
      /\ card \in [Card -> CardRecord] /\ half \in Nat
      /\ \A b \in Card : card[b].made <= half /\ card[b].done <= half
  BY ScrumFields DEF CompleteScrum, ChartsInv, SprintChartsTypeOK, StampsPast
<1>2. \A c \in Card : stays(c) \in BOOLEAN
  OBVIOUS
<1>3. ASSUME NEW c \in Card
      PROVE  /\ swept(c) \in CardRecord /\ swept(c).made = card[c].made
             /\ swept(c).done = card[c].done /\ swept(c).column = card[c].column
             /\ swept(c).planned = stays(c)
  <2> HIDE DEF stays
  <2> QED
    BY <1>1, <1>2 DEF CardRecord
<1>4. scrum' \in ScrumRecord /\ scrum'.status = "COMPLETED" /\ scrum'.end = half /\ half # NoDate
  <2>1. half # NoDate
    BY <1>1 DEF NoDate
  <2>2. scrum' \in ScrumRecord /\ scrum'.status = "COMPLETED" /\ scrum'.end = half
    BY <1>1 DEF ScrumRecord
  <2> QED
    BY <2>1, <2>2
<1> HIDE DEF swept
<1>5. /\ card' \in [Card -> CardRecord]
      /\ \A c \in Card :
            /\ card'[c].made <= half /\ card'[c].done <= half
            /\ card'[c].planned => card'[c].column # "open"
  BY <1>1, <1>3
<1> QED
  BY <1>1, <1>4, <1>5
     DEF ChartsInv, SprintChartsTypeOK, StampsPast, CompletedSwept, Planned, Cards

LEMMA NextHalfKeeps == ChartsInv /\ NextHalf => ChartsInv'
<1> SUFFICES ASSUME ChartsInv, NextHalf PROVE ChartsInv'
  OBVIOUS
<1>1. /\ half' = half + 1 /\ half' \in Halves /\ UNCHANGED <<card, scrum, meddled>> /\ half \in Nat
  BY ScrumFields, SprintChartsAssumption DEF NextHalf, ChartsInv, SprintChartsTypeOK, Halves
<1>2. StampsPast'
  BY <1>1, CardFields DEF ChartsInv, StampsPast
<1> QED
  BY <1>1, <1>2 DEF ChartsInv, SprintChartsTypeOK, CompletedSwept, Planned, Cards

LEMMA ChartsInductive == ChartsInv /\ [SprintChartsNext]_sprintChartsVars => ChartsInv'
<1> SUFFICES ASSUME ChartsInv, [SprintChartsNext]_sprintChartsVars PROVE ChartsInv'
  OBVIOUS
<1>1. CASE \E c \in Card, column \in Columns, planned \in BOOLEAN : MakeCard(c, column, planned)
  BY <1>1, MakeCardKeeps
<1>2. CASE \E c \in Card, column \in Columns : MoveCard(c, column)
  BY <1>2, MoveCardKeeps
<1>3. CASE \E c \in Card, planned \in BOOLEAN : PlanCard(c, planned)
  BY <1>3, PlanCardKeeps
<1>4. CASE \E c \in Card : DropCard(c)
  BY <1>4, DropCardKeeps
<1>5. CASE \E S \in SUBSET Card, column \in Columns : TurnColumn(S, column)
  BY <1>5, TurnColumnKeeps
<1>6. CASE \E start, end \in DatesGiven : SetDates(start, end)
  BY <1>6, SetDatesKeeps
<1>7. CASE Start
  BY <1>7, StartKeeps
<1>8. CASE CompleteScrum
  BY <1>8, CompleteScrumKeeps
<1>9. CASE NextHalf
  BY <1>9, NextHalfKeeps
<1>10. CASE UNCHANGED sprintChartsVars
  BY <1>10
     DEF sprintChartsVars, ChartsInv, SprintChartsTypeOK, StampsPast, CompletedSwept, Planned, Cards
<1> QED
  BY <1>1, <1>2, <1>3, <1>4, <1>5, <1>6, <1>7, <1>8, <1>9, <1>10 DEF SprintChartsNext

-----------------------------------------------------------------------------
(* More cards have more points.                                            *)
LEMMA SumGrows ==
    ASSUME NEW S \in SUBSET Card, NEW T \in SUBSET S
    PROVE  Sum(S) \in Nat /\ Sum(T) \in Nat /\ Sum(T) <= Sum(S)
<1> DEFINE a == Cardinality(S \cap Pointed)
           b == Cardinality(S \ Pointed)
           c == Cardinality(T \cap Pointed)
           d == Cardinality(T \ Pointed)
<1>1. /\ IsFiniteSet(S \cap Pointed) /\ IsFiniteSet(S \ Pointed)
      /\ T \cap Pointed \subseteq S \cap Pointed /\ T \ Pointed \subseteq S \ Pointed
  BY SprintChartsAssumption, FS_Subset
<1>2. a \in Nat /\ b \in Nat /\ c \in Nat /\ d \in Nat /\ c <= a /\ d <= b
  BY <1>1, FS_Subset, FS_CardinalityType
<1>3. Sum(S) = Points * a + b /\ Sum(T) = Points * c + d
  BY DEF Sum
<1> HIDE DEF a, b, c, d
<1>4. Points \in Nat
  BY SprintChartsAssumption
<1>5. Points * a \in Nat /\ Points * c \in Nat /\ Points * (a - c) \in Nat
      /\ Points * (a - c) = Points * a - Points * c
  <2>1. a - c \in Nat
    BY <1>2
  <2> QED
    BY <1>2, <1>4, <2>1
<1> QED
  BY <1>2, <1>3, <1>5

LEMMA LastDayCoversEnd ==
    ASSUME NEW start \in Int, NEW end \in Int, NEW done \in Int, done <= end
    PROVE  ToDate(done) <= ToDate(start) + AtLeastOne((end - start + 1) \div 2)
<1> DEFINE a == done \div 2
           b == start \div 2
           n == (end - start + 1) \div 2
<1>1. a \in Int /\ 2 * a <= done /\ done < 2 * a + 2
  OBVIOUS
<1>2. b \in Int /\ 2 * b <= start /\ start < 2 * b + 2
  OBVIOUS
<1>3. n \in Int /\ 2 * n <= end - start + 1 /\ end - start + 1 < 2 * n + 2
  <2>1. end - start + 1 \in Int
    OBVIOUS
  <2> QED
    BY <2>1
<1>4. ToDate(done) = a /\ ToDate(start) = b /\ AtLeastOne(n) >= n /\ AtLeastOne(n) \in Int
  BY <1>3 DEF ToDate, AtLeastOne
<1> HIDE DEF a, b, n
<1>5. a <= b + n
  BY <1>1, <1>2, <1>3
<1> QED
  BY <1>1, <1>2, <1>3, <1>4, <1>5 DEF n

LEMMA BurndownAddsUp ==
    ASSUME ChartsInv
    PROVE  /\ \A d \in BurndownDays : Actual(d) >= 0
           /\ \A d \in BurndownDays \ {0} : Actual(d) <= Actual(d - 1)
<1> DEFINE Burnt(d) == {c \in StampedCards(Planned) : ToDate(card[c].done) <= DateOf(d)}
<1>1. Planned \in SUBSET Card
  BY DEF Planned, Cards
<1>2. \A d : Burnt(d) \in SUBSET Planned
  BY DEF StampedCards
<1>3. \A d \in Int : Burnt(d - 1) \subseteq Burnt(d)
  <2> SUFFICES ASSUME NEW d \in Int, NEW c \in Planned, ToDate(card[c].done) <= DateOf(d - 1)
               PROVE  ToDate(card[c].done) <= DateOf(d)
    BY DEF StampedCards
  <2>1. card[c].done \in Int /\ scrum.start \in Int
    BY <1>1, CardFields DEF ChartsInv
  <2>2. ToDate(card[c].done) \in Int /\ ToDate(scrum.start) \in Int
    BY <2>1 DEF ToDate
  <2> QED
    BY <2>2 DEF DateOf
<1>4. \A d : Actual(d) = TotalPoints - Sum(Burnt(d))
  BY DEF Actual
<1> HIDE DEF Burnt
<1>5. \A d : Sum(Burnt(d)) \in Nat /\ TotalPoints \in Nat /\ Sum(Burnt(d)) <= TotalPoints
  BY <1>1, <1>2, SumGrows DEF TotalPoints
<1>6. \A d \in Int : Sum(Burnt(d - 1)) <= Sum(Burnt(d))
  BY <1>1, <1>2, <1>3, SumGrows
<1>7. BurndownDays \subseteq Int
  BY DEF BurndownDays
<1> QED
  BY <1>4, <1>5, <1>6, <1>7

LEMMA CompletedAddsUp ==
    ASSUME ChartsInv, scrum.status = "COMPLETED", ~meddled,
           InColumn(Planned, "done") \cup InColumn(Planned, "none") \subseteq StampedCards(Planned)
    PROVE  Actual(TotalDays) = 0
<1>1. /\ Planned \in SUBSET Card /\ scrum.end # NoDate
      /\ \A c \in Planned : card[c].column # "open" /\ card[c].done <= scrum.end
  BY DEF ChartsInv, CompletedSwept, Planned, Cards
<1>2. \A c \in Planned : c \in InColumn(Planned, "done") \/ c \in InColumn(Planned, "none")
  BY <1>1, CardFields DEF ChartsInv, Columns, InColumn
<1>3. EndDate = scrum.end
  BY <1>1 DEF EndDate
<1>4. \A c \in Planned : ToDate(card[c].done) <= DateOf(TotalDays)
  <2> SUFFICES ASSUME NEW c \in Planned PROVE ToDate(card[c].done) <= DateOf(TotalDays)
    OBVIOUS
  <2>1. /\ card[c].done \in Int /\ scrum.start \in Int /\ scrum.end \in Int
        /\ card[c].done <= scrum.end
    BY <1>1, CardFields DEF ChartsInv
  <2>2. ToDate(card[c].done)
        <= ToDate(scrum.start) + AtLeastOne((scrum.end - scrum.start + 1) \div 2)
    BY <2>1, LastDayCoversEnd
  <2> QED
    BY <1>3, <2>2 DEF DateOf, TotalDays
<1>5. {c \in StampedCards(Planned) : ToDate(card[c].done) <= DateOf(TotalDays)} = Planned
  BY <1>2, <1>4 DEF StampedCards
<1>6. Sum(Planned) \in Nat
  BY <1>1, SumGrows
<1>7. Actual(TotalDays) = Sum(Planned) - Sum(Planned)
  BY <1>5 DEF Actual, TotalPoints
<1> QED
  BY <1>6, <1>7

LEMMA FlowAddsUp ==
    ASSUME ChartsInv
    PROVE  LET onBoard == Cards \ InColumn(Cards, "none")
           IN  /\ \A d \in FlowWindow :
                     Flow(d)["done"] + Flow(d)["open"] =
                         Cardinality({c \in onBoard : card[c].made < 2 * (d + 1)})
               /\ Flow(ToDate(half))["done"] = Cardinality(InColumn(Cards, "done"))
<1> DEFINE Made(d, column) == {c \in InColumn(Cards, column) : ToDate(card[c].made) <= d}
<1>1. Cards \in SUBSET Card /\ half \in Nat
  BY ScrumFields DEF Cards, ChartsInv
<1>2. \A d : /\ Flow(d)["done"] = Cardinality(Made(d, "done"))
             /\ Flow(d)["open"] = Cardinality(Made(d, "open"))
  BY DEF Flow, FlowOn, Columns
<1>3. \A d : IsFiniteSet(Made(d, "done")) /\ IsFiniteSet(Made(d, "open"))
  <2>1. \A d : Made(d, "done") \in SUBSET Card /\ Made(d, "open") \in SUBSET Card
    BY <1>1 DEF InColumn
  <2> HIDE DEF Made
  <2> QED
    BY <2>1, SprintChartsAssumption, FS_Subset
<1>4. \A d : Made(d, "done") \cap Made(d, "open") = {}
  BY DEF InColumn
<1>5. \A d \in Int : Made(d, "done") \cup Made(d, "open") =
          {c \in Cards \ InColumn(Cards, "none") : card[c].made < 2 * (d + 1)}
  <2> SUFFICES ASSUME NEW d \in Int, NEW c \in Cards
               PROVE  c \in Made(d, "done") \cup Made(d, "open") <=>
                      c \notin InColumn(Cards, "none") /\ card[c].made < 2 * (d + 1)
    BY DEF InColumn
  <2>1. card[c].made \in Nat /\ card[c].column \in {"none", "open", "done"}
    BY <1>1, CardFields DEF ChartsInv, Columns
  <2>2. ToDate(card[c].made) <= d <=> card[c].made < 2 * (d + 1)
    <3> DEFINE m == card[c].made
               q == m \div 2
    <3>1. q \in Int /\ 2 * q <= m /\ m < 2 * q + 2 /\ m \in Int
      BY <2>1
    <3>2. ToDate(card[c].made) = q
      BY DEF ToDate
    <3> HIDE DEF m, q
    <3>3. q <= d <=> m < 2 * (d + 1)
      BY <3>1
    <3> QED
      BY <3>2, <3>3 DEF m
  <2> QED
    BY <2>1, <2>2 DEF InColumn
<1>6. Made(ToDate(half), "done") = InColumn(Cards, "done")
  <2> SUFFICES ASSUME NEW c \in Cards PROVE ToDate(card[c].made) <= ToDate(half)
    BY DEF InColumn
  <2>1. card[c].made \in Nat /\ card[c].made <= half
    BY <1>1, CardFields DEF ChartsInv, StampsPast
  <2> QED
    BY <1>1, <2>1 DEF ToDate
<1>7. FlowWindow \subseteq Int
  BY DEF FlowWindow
<1> HIDE DEF Made
<1>8. \A d : Cardinality(Made(d, "done") \cup Made(d, "open")) =
             Cardinality(Made(d, "done")) + Cardinality(Made(d, "open"))
  <2> SUFFICES ASSUME NEW d
               PROVE  Cardinality(Made(d, "done") \cup Made(d, "open")) =
                      Cardinality(Made(d, "done")) + Cardinality(Made(d, "open"))
    OBVIOUS
  <2>1. Cardinality(Made(d, "done")) \in Nat /\ Cardinality(Made(d, "open")) \in Nat
    BY <1>3, FS_CardinalityType
  <2>2. Cardinality({}) = 0
    BY FS_EmptySet
  <2>3. Cardinality(Made(d, "done") \cup Made(d, "open")) =
        Cardinality(Made(d, "done")) + Cardinality(Made(d, "open"))
            - Cardinality(Made(d, "done") \cap Made(d, "open"))
    BY <1>3, FS_Union
  <2>4. Cardinality(Made(d, "done") \cap Made(d, "open")) = 0
    BY <1>4, <2>2
  <2>5. \A n \in Nat, m \in Nat : n + m - 0 = n + m
    OBVIOUS
  <2> QED
    BY <2>1, <2>3, <2>4, <2>5
<1> QED
  BY <1>2, <1>5, <1>6, <1>7, <1>8

LEMMA ChartsInvAddsUp == ChartsInv => ChartsAddUp
BY BurndownAddsUp, CompletedAddsUp, FlowAddsUp DEF ChartsAddUp

(* The charts of a board add up: getBurndown and getCumulativeFlow, for any *)
(* number of cards, points and days.                                        *)
THEOREM ChartsSafety == SprintChartsSpec => []ChartsAddUp
BY ChartsInvAddsUp, ChartsInvInit, ChartsInductive, PTL DEF SprintChartsSpec
=============================================================================
