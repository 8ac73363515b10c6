-------------------------- MODULE PaginationProofs --------------------------
(***************************************************************************)
(* What the operators of Pagination compute, for all page sizes, all       *)
(* widths of an int and all numbers of rows that SizesAssumption allows.   *)
(***************************************************************************)
EXTENDS Pagination, TLAPS

-----------------------------------------------------------------------------
(* Arithmetic.                                                             *)

\* Multiplication by a page size keeps the order.
LEMMA Monotone ==
  ASSUME NEW a \in Int, NEW b \in Int, NEW n \in Nat, a <= b
  PROVE  a * n <= b * n
  BY Z3

\* What division by a page size returns.
LEMMA Division ==
  ASSUME NEW n \in Nat \ {0}, NEW x \in Nat
  PROVE  /\ x \div n \in Nat
         /\ (x \div n) * n <= x
         /\ x < (x \div n) * n + n
  BY Z3

\* An int that needs no wrapping is left as it is.
LEMMA WrapId ==
  ASSUME NEW i \in Ints
  PROVE  Wrap(i) = i
  BY SizesAssumption, Z3 DEF Wrap, Ints

-----------------------------------------------------------------------------
(* What New computes.                                                      *)

LEMMA SizeOK ==
  ASSUME NEW perPage \in Ints
  PROVE  /\ PageSize(perPage) \in 1 .. MaxPageSize
         /\ perPage \in 1 .. MaxPageSize => PageSize(perPage) = perPage
  BY SizesAssumption DEF PageSize, Ints

\* pageCount is the least number of pages that hold all rows.
LEMMA CountOK ==
  ASSUME NEW n \in 1 .. MaxPageSize, NEW count \in 0 .. MaxTotal
  PROVE  /\ PageCount(n, count) \in 0 .. count
         /\ count <= PageCount(n, count) * n
         /\ count > 0 => /\ PageCount(n, count) >= 1
                         /\ (PageCount(n, count) - 1) * n < count
<1> DEFINE c == (count + n - 1) \div n
<1>1. count + n - 1 \in Ints /\ count + n - 1 \in Nat /\ n \in Nat \ {0} /\ count \in Nat
  BY SizesAssumption DEF Ints
<1>2. PageCount(n, count) = c
  BY <1>1, WrapId DEF PageCount
<1>3. c \in Nat /\ c * n <= count + n - 1 /\ count + n - 1 < c * n + n
  BY <1>1, Division
<1>4. (c - 1) * n = c * n - n
  BY <1>1, <1>3, Z3
<1>5. c <= count
  <2>1. CASE count = 0
    <3>1. SUFFICES ASSUME c >= 1 PROVE FALSE
      BY <1>3, <2>1
    <3>2. 1 * n <= c * n
      BY <3>1, <1>1, <1>3, Monotone
    <3> QED BY <3>2, <1>1, <1>3, <2>1
  <2>2. CASE count > 0
    <3>1. SUFFICES ASSUME c - 1 >= count PROVE FALSE
      BY <1>1, <1>3
    <3>2. count * n <= (c - 1) * n
      BY <3>1, <1>1, <1>3, Monotone
    <3>3. count * 1 <= count * n
      BY <1>1, Z3
    <3> QED BY <3>2, <3>3, <1>1, <1>3, <1>4
  <2> QED BY <2>1, <2>2, <1>1
<1>6. count > 0 => c >= 1
  <2>1. SUFFICES ASSUME count > 0, c = 0 PROVE FALSE
    BY <1>3
  <2> QED BY <2>1, <1>1, <1>3
<1> QED BY <1>1, <1>2, <1>3, <1>4, <1>5, <1>6

\* What every answer satisfies: it says what New would say of its page size
\* and its number of rows, and its page is one of the pages, if there are any.
PageOK(p) ==
  /\ p = [page |-> p.page, perPage |-> p.perPage,
          pageCount |-> p.pageCount, totalCount |-> p.totalCount]
  /\ p.perPage \in 1 .. MaxPageSize
  /\ p.totalCount \in Totals
  /\ p.pageCount = PageCount(p.perPage, p.totalCount)
  /\ p.page \in 1 .. MaxInt
  /\ p.totalCount # Unknown => p.page <= p.pageCount \/ p.page = 1

LEMMA NewOK ==
  ASSUME NEW page \in Ints, NEW perPage \in Ints, NEW count \in Totals
  PROVE  /\ PageOK(New(page, perPage, count))
         /\ New(page, perPage, count).totalCount = count
         /\ New(page, perPage, count).perPage = PageSize(perPage)
         /\ (page >= 1 /\ (count = Unknown \/ page <= PageCount(PageSize(perPage), count)))
              => New(page, perPage, count).page = page
         /\ page = 1 => New(page, perPage, count).page = 1
<1> DEFINE size == PageSize(perPage)
           c    == PageCount(size, count)
<1>1. size \in 1 .. MaxPageSize
  BY SizeOK
<1>2. count \in 0 .. MaxTotal => c \in 0 .. count
  BY <1>1, CountOK
<1>3. count \in 0 .. MaxTotal \/ (count = Unknown /\ c = -1)
  BY SizesAssumption DEF Totals, Unknown, PageCount
<1> HIDE DEF size, c
<1>4. /\ PageAt(page, c, count) \in 1 .. MaxInt
      /\ count # Unknown => PageAt(page, c, count) <= c \/ PageAt(page, c, count) = 1
      /\ (page >= 1 /\ (count = Unknown \/ page <= c)) => PageAt(page, c, count) = page
      /\ page = 1 => PageAt(page, c, count) = 1
  BY <1>2, <1>3, SizesAssumption DEF PageAt, Ints, Unknown
<1>5. New(page, perPage, count) = [page |-> PageAt(page, c, count), perPage |-> size,
                                   pageCount |-> c, totalCount |-> count]
  BY DEF New, size, c
<1> QED BY <1>1, <1>4, <1>5 DEF PageOK, size, c

\* A text that is no int is never taken for one.
LEMMA ParsedOK ==
  ASSUME NEW value \in Values, NEW default \in Ints
  PROVE  /\ parseInt(value, default) \in Ints
         /\ value \in Ints => parseInt(value, default) = value
         /\ value = NotAnInt => parseInt(value, default) = default
  BY SizesAssumption DEF parseInt, Values, Ints, NotAnInt

LEMMA FromRequestOK ==
  ASSUME NEW query \in Queries, NEW count \in Totals
  PROVE  PageOK(NewFromRequest(query, count)) /\ NewFromRequest(query, count).totalCount = count
<1>1. 1 \in Ints /\ DefaultPageSize \in Ints
  BY SizesAssumption DEF Ints
<1>2. query.page \in Values /\ query.perPage \in Values
  BY DEF Queries
<1> QED BY <1>1, <1>2, ParsedOK, NewOK DEF NewFromRequest

-----------------------------------------------------------------------------
(* The links.                                                              *)

\* Every link of an answer is a query of the server's own format.
LEMMA LinksOK ==
  ASSUME NEW p, PageOK(p), NEW rel \in DOMAIN BuildLinkHeader(p)
  PROVE  /\ BuildLinkHeader(p)[rel] \in Queries
         /\ BuildLinkHeader(p)[rel] = BuildLinks(p)[rel]
         /\ rel \in {"first", "prev", "next", "last"}
         /\ BuildLinkHeader(p)[rel].perPage = LinkSize(p)
<1> DEFINE links == BuildLinks(p)
           P == IF p.pageCount >= 0 /\ p.page > p.pageCount THEN p.pageCount ELSE p.page
           Target(x) == CASE x = "first" -> 1
                          [] x = "prev"  -> Wrap(P - 1)
                          [] x = "next"  -> Wrap(P + 1)
                          [] x = "last"  -> p.pageCount
<1>1. rel \in DOMAIN links /\ BuildLinkHeader(p)[rel] = links[rel]
  BY DEF BuildLinkHeader
<1>2. DOMAIN links \subseteq {"first", "prev", "next", "last"}
  BY DEF BuildLinks
<1>3. links[rel] = [perPage |-> LinkSize(p), page |-> Target(rel)]
  BY <1>1 DEF BuildLinks
<1>4. p.pageCount \in Ints /\ P \in Int
  <2>1. p.totalCount \in 0 .. MaxTotal => p.pageCount \in 0 .. p.totalCount
    BY CountOK DEF PageOK
  <2>2. p.totalCount \in 0 .. MaxTotal \/ p.pageCount = -1
    BY SizesAssumption DEF PageOK, Totals, Unknown, PageCount
  <2> QED BY <2>1, <2>2, SizesAssumption DEF PageOK, Ints
<1>5. \A n \in Int : Wrap(n) \in Ints
  BY SizesAssumption, Z3 DEF Wrap, Ints
<1>6. 1 \in Ints
  BY SizesAssumption DEF Ints
<1>7. Target(rel) \in Ints
  BY <1>1, <1>2, <1>4, <1>5, <1>6
<1>8. LinkSize(p) \in Values
  BY SizesAssumption DEF PageOK, LinkSize, Values, Ints, NotAnInt
<1> HIDE DEF Target
<1>9. links[rel] \in Queries
  BY <1>3, <1>7, <1>8 DEF Queries, Values
<1>10. links[rel].perPage = LinkSize(p)
  BY <1>3
<1> QED BY <1>1, <1>2, <1>9, <1>10

\* Following a link asks for the size of the page it was on.
LEMMA LinkKeepsSize ==
  ASSUME NEW p, PageOK(p), NEW rel \in DOMAIN BuildLinkHeader(p), NEW count \in Totals
  PROVE  NewFromRequest(BuildLinkHeader(p)[rel], count).perPage = p.perPage
<1> DEFINE q == BuildLinkHeader(p)[rel]
<1>1. q \in Queries /\ q.perPage = LinkSize(p)
  BY LinksOK
<1>2. parseInt(q.perPage, DefaultPageSize) = p.perPage
  <2>1. p.perPage \in Ints /\ DefaultPageSize \in Ints
    BY SizesAssumption DEF PageOK, Ints
  <2>2. CASE p.perPage = LinkDefault
    BY <1>1, <2>1, <2>2, ParsedOK, SizesAssumption DEF LinkSize, Values
  <2>3. CASE p.perPage # LinkDefault
    BY <1>1, <2>1, <2>3, ParsedOK DEF LinkSize, Values
  <2> QED BY <2>2, <2>3
<1>3. parseInt(q.page, 1) \in Ints
  BY <1>1, ParsedOK, SizesAssumption DEF Queries, Ints
<1>4. PageSize(p.perPage) = p.perPage /\ p.perPage \in Ints
  BY SizeOK, SizesAssumption DEF PageOK, Ints
<1> HIDE DEF q
<1> QED BY <1>2, <1>3, <1>4, NewOK DEF NewFromRequest, q

\* The page a link leads to, if the table is as it was.
LEMMA LinkTarget ==
  ASSUME NEW p, PageOK(p), p.totalCount # Unknown, NEW rel \in DOMAIN BuildLinkHeader(p)
  PROVE  NewFromRequest(BuildLinkHeader(p)[rel], p.totalCount).page =
           CASE rel = "first" -> 1
             [] rel = "prev"  -> p.page - 1
             [] rel = "next"  -> p.page + 1
             [] rel = "last"  -> p.pageCount
<1> DEFINE q == BuildLinkHeader(p)[rel]
           target == CASE rel = "first" -> 1
                       [] rel = "prev"  -> p.page - 1
                       [] rel = "next"  -> p.page + 1
                       [] rel = "last"  -> p.pageCount
<1>1. q \in Queries /\ q = BuildLinks(p)[rel] /\ rel \in {"first", "prev", "next", "last"}
  BY LinksOK
<1>2. p.totalCount \in 0 .. MaxTotal
  BY SizesAssumption DEF PageOK, Totals, Unknown
<1>3. p.pageCount \in 0 .. p.totalCount
  BY <1>2, CountOK DEF PageOK
<1>4. p.page \in 1 .. MaxInt /\ (p.page <= p.pageCount \/ p.page = 1)
  BY DEF PageOK
<1>5. rel \in DOMAIN BuildLinks(p)
  BY DEF BuildLinkHeader
<1>6. /\ rel \in {"first", "prev"} => p.page > 1
      /\ rel \in {"next", "last"} => p.page < p.pageCount
  BY <1>3, <1>4, <1>5, <1>2 DEF BuildLinks
<1>7. target \in 1 .. p.pageCount /\ target \in Ints
  BY <1>1, <1>2, <1>3, <1>4, <1>6, SizesAssumption DEF Ints
<1>8. q.page = target
  <2>1. Wrap(p.page - 1) = p.page - 1 \/ rel # "prev"
    BY <1>1, <1>7, WrapId
  <2>2. Wrap(p.page + 1) = p.page + 1 \/ rel # "next"
    BY <1>1, <1>7, WrapId
  <2>3. p.page <= p.pageCount
    BY <1>1, <1>3, <1>4, <1>6
  <2> DEFINE P == IF p.pageCount >= 0 /\ p.page > p.pageCount THEN p.pageCount ELSE p.page
             Target(x) == CASE x = "first" -> 1
                            [] x = "prev"  -> Wrap(P - 1)
                            [] x = "next"  -> Wrap(P + 1)
                            [] x = "last"  -> p.pageCount
  <2>4. q = [perPage |-> LinkSize(p), page |-> Target(rel)]
    BY <1>1, <1>5 DEF BuildLinks
  <2>5. P = p.page
    BY <1>3, <1>4, <2>3
  <2>6. Target(rel) = target
    BY <1>1, <2>1, <2>2, <2>5
  <2> HIDE DEF Target, q, target
  <2> QED BY <2>4, <2>6
<1>9. parseInt(q.page, 1) = target
  BY <1>7, <1>8 DEF parseInt
<1>10. parseInt(q.perPage, DefaultPageSize) \in Ints
  BY <1>1, ParsedOK, SizesAssumption DEF Queries, Ints
<1>11. PageCount(PageSize(parseInt(q.perPage, DefaultPageSize)), p.totalCount) = p.pageCount
  <2>1. p.totalCount \in Totals /\ p.pageCount = PageCount(p.perPage, p.totalCount)
    BY DEF PageOK
  <2>2. NewFromRequest(q, p.totalCount).perPage = p.perPage
    BY <2>1, LinkKeepsSize
  <2>3. NewFromRequest(q, p.totalCount).perPage = PageSize(parseInt(q.perPage, DefaultPageSize))
    BY <2>1, <1>7, <1>9, <1>10, NewOK DEF NewFromRequest
  <2> QED BY <2>1, <2>2, <2>3
<1> HIDE DEF q, target
<1>12. NewFromRequest(q, p.totalCount).page = target
  BY <1>7, <1>9, <1>10, <1>11, NewOK DEF NewFromRequest, PageOK
<1> QED BY <1>12 DEF q, target

\* The offset of an answer is exact.
LEMMA OffsetOK ==
  ASSUME NEW p, PageOK(p), p.totalCount # Unknown
  PROVE  /\ Offset(p) = (p.page - 1) * p.perPage
         /\ Offset(p) \in 0 .. p.totalCount
         /\ p.totalCount > 0 => Offset(p) < p.totalCount
<1> DEFINE offset == (p.page - 1) * p.perPage
<1>1. p.totalCount \in 0 .. MaxTotal /\ p.perPage \in 1 .. MaxPageSize /\ p.page \in 1 .. MaxInt
  BY SizesAssumption DEF PageOK, Totals, Unknown
<1>2. p.pageCount \in 0 .. p.totalCount
      /\ (p.totalCount > 0 => (p.pageCount - 1) * p.perPage < p.totalCount)
  BY <1>1, CountOK DEF PageOK
<1>3. offset \in Nat
  BY <1>1, Z3
<1>4. offset <= p.totalCount /\ (p.totalCount > 0 => offset < p.totalCount)
  <2>1. CASE p.page = 1
    <3>1. offset = 0
      BY <1>1, <2>1
    <3> QED BY <3>1, <1>1
  <2>2. CASE p.page # 1
    <3>1. p.page - 1 <= p.pageCount - 1 /\ p.totalCount > 0
      BY <1>1, <1>2, <2>2 DEF PageOK
    <3>2. offset <= (p.pageCount - 1) * p.perPage
      BY <3>1, <1>1, <1>2, Monotone
    <3>3. (p.pageCount - 1) * p.perPage \in Int
      BY <1>1, <1>2
    <3> QED BY <3>1, <3>2, <3>3, <1>1, <1>2, <1>3
  <2> QED BY <2>1, <2>2
<1>5. offset \in Ints
  BY <1>1, <1>3, <1>4, SizesAssumption DEF Ints
<1>6. Offset(p) = offset
  BY <1>5, WrapId DEF Offset
<1> QED BY <1>1, <1>3, <1>4, <1>6

\* The fields of an answer.
LEMMA PageType ==
  ASSUME NEW p, PageOK(p)
  PROVE  p \in [page : 1 .. MaxInt, perPage : 1 .. MaxPageSize,
                pageCount : Totals, totalCount : Totals]
<1>1. p.totalCount \in 0 .. MaxTotal => p.pageCount \in 0 .. p.totalCount
  BY CountOK DEF PageOK
<1>2. p.totalCount \in 0 .. MaxTotal \/ p.pageCount = -1
  BY SizesAssumption DEF PageOK, Totals, Unknown, PageCount
<1>3. p.pageCount \in Totals
  BY <1>1, <1>2, SizesAssumption DEF Totals, Unknown
<1> QED BY <1>3 DEF PageOK

=============================================================================
