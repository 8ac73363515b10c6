--------------------------- MODULE BrowsingProofs ---------------------------
(***************************************************************************)
(* Theorems about Browsing, for all page sizes, all widths of an int and   *)
(* all tables that SizesAssumption allows.                                 *)
(***************************************************************************)
EXTENDS Browsing, PaginationProofs

-----------------------------------------------------------------------------
(* The invariant: the answer satisfies PageOK.                             *)

Inv == total \in Totals /\ PageOK(pages)

LEMMA InvInductive == Spec => []Inv
<1>1. Init => Inv
  BY FromRequestOK DEF Init, Inv
<1>2. Inv /\ [Next]_vars => Inv'
  <2> SUFFICES ASSUME Inv, [Next]_vars PROVE Inv'
    OBVIOUS
  <2> USE DEF Inv
  <2>1. ASSUME NEW query \in Queries, Request(query) PROVE Inv'
    BY <2>1, FromRequestOK DEF Request
  <2>2. ASSUME NEW rel \in {"first", "prev", "next", "last"}, Follow(rel) PROVE Inv'
    BY <2>2, LinksOK, FromRequestOK DEF Follow
  <2>3. CASE RowsChange
    BY <2>3, SizesAssumption DEF RowsChange, Totals, Unknown
  <2>4. CASE UNCHANGED vars
    BY <2>4 DEF vars
  <2> QED BY <2>1, <2>2, <2>3, <2>4 DEF Next
<1> QED BY <1>1, <1>2, PTL DEF Spec

\* Every answer has a page of at least 1 and a size of at least 1 and at most
\* MaxPageSize (New).
THEOREM TypeCorrect == Spec => []TypeOK
<1>1. Inv => TypeOK
  BY PageType DEF Inv, TypeOK
<1> QED BY <1>1, InvInductive, PTL

\* A page is the rows from its offset on (New, Offset, Limit).
THEOREM OffsetsExact == Spec => []ReadsItsPage
<1>1. Inv => ReadsItsPage
  <2> SUFFICES ASSUME PageOK(pages), pages.totalCount # Unknown
               PROVE  LET read == Read(Offset(pages), Limit(pages), pages.totalCount)
                      IN  /\ read = RowsOf(pages.page, pages.perPage, pages.totalCount)
                          /\ read = {} => pages.totalCount = 0
    BY DEF Inv, ReadsItsPage
  <2> DEFINE k == pages.page
             n == pages.perPage
             count == pages.totalCount
  <2>1. k \in 1 .. MaxInt /\ n \in 1 .. MaxPageSize /\ count \in 0 .. MaxTotal
    BY SizesAssumption DEF PageOK, Totals, Unknown
  <2>2. k * n = (k - 1) * n + n /\ (k - 1) * n \in Int
    BY <2>1, Z3
  <2>3. Offset(pages) = (k - 1) * n /\ Offset(pages) \in 0 .. count
        /\ (count > 0 => Offset(pages) < count) /\ Limit(pages) = n
    BY OffsetOK DEF Limit
  <2> HIDE DEF k, n, count
  <2>4. Read(Offset(pages), Limit(pages), count) = RowsOf(k, n, count)
    BY <2>1, <2>2, <2>3 DEF Read, RowsOf
  <2>5. ASSUME count > 0 PROVE Offset(pages) + 1 \in Read(Offset(pages), Limit(pages), count)
    BY <2>1, <2>3, <2>5 DEF Read
  <2> QED BY <2>1, <2>4, <2>5 DEF k, n, count
<1> QED BY <1>1, InvInductive, PTL

\* Browsing the pages 1 to pageCount shows every row once (New).
THEOREM Partition == Spec => []PagesPartition
<1>1. Inv => PagesPartition
  <2> SUFFICES ASSUME PageOK(pages), pages.totalCount # Unknown
               PROVE  PagesPartition
    BY DEF Inv, PagesPartition
  <2> DEFINE n == pages.perPage
             count == pages.totalCount
             c == pages.pageCount
             Page(k) == RowsOf(k, n, count)
  <2>1. n \in 1 .. MaxPageSize /\ n \in Nat \ {0} /\ count \in 0 .. MaxTotal /\ count \in Nat
    BY SizesAssumption DEF PageOK, Totals, Unknown
  <2>2. c \in 0 .. count /\ count <= c * n /\ (count > 0 => (c - 1) * n < count)
        /\ (count > 0 => c >= 1)
    BY <2>1, CountOK DEF PageOK
  <2> HIDE DEF n, count, c
  <2>3. ASSUME NEW i \in 1 .. count
        PROVE  \E k \in 1 .. c : i \in Page(k) /\ \A m \in 1 .. c : i \in Page(m) => m = k
    <3> DEFINE q == (i - 1) \div n
    <3>1. i - 1 \in Nat /\ i \in Int /\ i <= count
      BY <2>1
    <3>2. q \in Nat /\ q * n <= i - 1 /\ i - 1 < q * n + n
      BY <2>1, <3>1, Division
    <3> HIDE DEF q
    <3>3. (q + 1) * n = q * n + n /\ q * n \in Int
      BY <2>1, <3>2, Z3
    <3>4. q + 1 <= c
      <4>1. SUFFICES ASSUME c <= q PROVE FALSE
        BY <2>1, <2>2, <3>2
      <4>2. c * n <= q * n
        BY <4>1, <2>1, <2>2, <3>2, Monotone
      <4>3. c * n \in Int
        BY <2>1, <2>2
      <4> QED BY <4>2, <4>3, <2>1, <2>2, <3>1, <3>2, <3>3
    <3>5. i \in Page(q + 1)
      BY <2>1, <3>1, <3>2, <3>3 DEF RowsOf
    <3>6. ASSUME NEW m \in 1 .. c, i \in Page(m) PROVE m = q + 1
      <4>1. (m - 1) * n < i /\ i <= m * n /\ m \in Int
        BY <3>6 DEF RowsOf
      <4>2. (m - 1) * n \in Int /\ m * n \in Int
        BY <2>1, <4>1
      <4>3. CASE m <= q
        <5>1. m * n <= q * n
          BY <4>3, <4>1, <2>1, <3>2, Monotone
        <5> QED BY <5>1, <4>1, <4>2, <3>1, <3>2, <3>3
      <4>4. CASE q + 1 <= m - 1
        <5>1. (q + 1) * n <= (m - 1) * n
          BY <4>4, <4>1, <2>1, <3>2, Monotone
        <5>2. i <= (q + 1) * n
          BY <2>1, <3>1, <3>2, <3>3
        <5> HIDE DEF Page
        <5>3. (q + 1) * n \in Int
          BY <2>1, <3>2
        <5> QED BY <5>1, <5>2, <5>3, <4>1, <4>2, <3>1
      <4> QED BY <4>1, <4>3, <4>4, <3>2
    <3> QED BY <3>2, <3>4, <3>5, <3>6, <2>1, <2>2
  <2>4. ASSUME NEW k \in 1 .. c PROVE Page(k) # {}
    <3>1. k \in Int /\ k - 1 <= c - 1 /\ 0 <= k - 1 /\ count > 0 /\ c \in Int
      BY <2>1, <2>2
    <3>2. (k - 1) * n <= (c - 1) * n
      BY <3>1, <2>1, Monotone
    <3>3. (k - 1) * n \in Nat /\ (c - 1) * n \in Int /\ k * n = (k - 1) * n + n
      BY <3>1, <2>1, Z3
    <3>4. (k - 1) * n + 1 \in Page(k)
      BY <3>1, <3>2, <3>3, <2>1, <2>2 DEF RowsOf
    <3> QED BY <3>4
  <2> QED BY <2>3, <2>4 DEF PagesPartition, n, count, c
<1> QED BY <1>1, InvInductive, PTL

\* Links lead to the neighbouring page (BuildLinks, BuildLinkHeader).
THEOREM LinksCorrect == Spec => LinksTile
<1> DEFINE Rels == {"first", "prev", "next", "last"}
           Tile == /\ \A rel \in Rels : Follow(rel) => pages'.perPage = pages.perPage
                   /\ total = pages.totalCount /\ total # Unknown =>
                        /\ Follow("next")  => Offset(pages') = Offset(pages) + Limit(pages)
                        /\ Follow("prev")  => Offset(pages') + Limit(pages') = Offset(pages)
                        /\ Follow("first") => Offset(pages') = 0
                        /\ Follow("last")  => Offset(pages') + Limit(pages') >= total
<1>1. Inv /\ Inv' => Tile
  <2> SUFFICES ASSUME Inv, Inv' PROVE Tile
    OBVIOUS
  <2>1. ASSUME NEW rel \in Rels, Follow(rel) PROVE pages'.perPage = pages.perPage
    BY <2>1, LinkKeepsSize DEF Inv, Follow
  <2>2. ASSUME total = pages.totalCount, total # Unknown, NEW rel \in Rels, Follow(rel)
        PROVE  /\ rel = "next"  => Offset(pages') = Offset(pages) + Limit(pages)
               /\ rel = "prev"  => Offset(pages') + Limit(pages') = Offset(pages)
               /\ rel = "first" => Offset(pages') = 0
               /\ rel = "last"  => Offset(pages') + Limit(pages') >= total
    <3> DEFINE n == pages.perPage
               k == pages.page
    <3>1. n \in 1 .. MaxPageSize /\ k \in 1 .. MaxInt /\ total \in 0 .. MaxTotal
      BY <2>2, SizesAssumption DEF Inv, PageOK, Totals, Unknown
    <3>2. pages'.perPage = n /\ pages'.totalCount = total
      <4>1. BuildLinkHeader(pages)[rel] \in Queries
        BY <2>2, LinksOK DEF Inv, Follow
      <4> QED BY <4>1, <2>1, <2>2, FromRequestOK DEF Inv, Follow
    <3>3. pages'.page = CASE rel = "first" -> 1
                          [] rel = "prev"  -> k - 1
                          [] rel = "next"  -> k + 1
                          [] rel = "last"  -> pages.pageCount
      BY <2>2, LinkTarget DEF Inv, Follow
    <3>4. Offset(pages) = (k - 1) * n /\ Limit(pages) = n
      BY <2>2, OffsetOK DEF Inv, Limit
    <3>5. Offset(pages') = (pages'.page - 1) * n /\ Limit(pages') = n
      <4>1. PageOK(pages') /\ pages'.totalCount # Unknown
        BY <2>2, <3>2 DEF Inv
      <4>2. Offset(pages') = (pages'.page - 1) * pages'.perPage
        BY <4>1, OffsetOK
      <4> QED BY <4>2, <3>2 DEF Limit
    <3> HIDE DEF n, k
    <3>6. CASE rel = "next"
      <4>1. k * n = (k - 1) * n + n
        BY <3>1, Z3
      <4>2. pages'.page - 1 = k
        BY <3>1, <3>3, <3>6
      <4> QED BY <4>1, <4>2, <3>4, <3>5, <3>6
    <3>7. CASE rel = "prev"
      <4>1. (k - 1 - 1) * n + n = (k - 1) * n
        BY <3>1, Z3
      <4> QED BY <4>1, <3>7, <3>3, <3>4, <3>5
    <3>8. CASE rel = "first"
      <4>1. (1 - 1) * n = 0
        BY <3>1
      <4> QED BY <4>1, <3>8, <3>3, <3>4, <3>5
    <3>9. CASE rel = "last"
      <4> DEFINE c == pages.pageCount
      <4>1. c \in 0 .. total /\ total <= c * n
        BY <2>2, <3>1, CountOK DEF Inv, PageOK, n
      <4> HIDE DEF c
      <4>2. (c - 1) * n + n = c * n /\ c * n \in Int
        BY <3>1, <4>1, Z3
      <4>3. pages'.page = c
        BY <3>9, <3>3 DEF c
      <4> QED BY <4>1, <4>2, <4>3, <3>1, <3>5, <3>9
    <3> QED BY <3>6, <3>7, <3>8, <3>9
  <2> QED BY <2>1, <2>2
<1>2. Spec => [][Tile]_vars
  BY <1>1, InvInductive, PTL
<1> QED BY <1>2 DEF LinksTile

=============================================================================
