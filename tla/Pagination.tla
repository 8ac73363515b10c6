----------------------------- MODULE Pagination -----------------------------
(***************************************************************************)
(* Pages of a listing (pkg/pagination/pages.go) as operators.              *)
(***************************************************************************)
EXTENDS Integers

CONSTANTS DefaultPageSize,  \* 100
          MaxPageSize,      \* 1000
          LinkDefault,      \* the defaultPerPage that BuildLinks is given
          MaxInt,           \* the largest int, 2^63 - 1
          MaxTotal          \* bound on the number of rows

\* Every page of a table can be counted in an int with room for one more, and
\* links leave out the page size that a request without one is given.
ASSUME SizesAssumption ==
  /\ DefaultPageSize \in Nat \ {0} /\ MaxPageSize \in Nat \ {0} /\ MaxInt \in Nat
  /\ MaxTotal \in Nat /\ MaxTotal + MaxPageSize <= MaxInt
  /\ DefaultPageSize <= MaxPageSize
  /\ LinkDefault = DefaultPageSize

Unknown == -1
Ints    == (-MaxInt - 1) .. MaxInt

\* An int after an operation whose exact result is n: two's complement.
Wrap(n) == ((n + MaxInt + 1) % (2 * (MaxInt + 1))) - MaxInt - 1

PageSize(perPage) ==
  LET asked == IF perPage <= 0 THEN DefaultPageSize ELSE perPage
  IN  IF asked > MaxPageSize THEN MaxPageSize ELSE asked

\* Mutant of PageCount: the last page is counted only if it is full.
PageCountFull(size, count) == IF count >= 0 THEN count \div size ELSE -1

\* The numerator is not negative, where Go's division is \div.
PageCount(size, count) ==
  IF count >= 0 THEN Wrap(count + size - 1) \div size ELSE -1

\* Mutant of PageAt: a page beyond the last one is not moved back.
PageAtAny(page, pageCount, count) == IF page < 1 THEN 1 ELSE page

\* Mutant of PageAt: the page is first raised to 1, then moved back.
PageAtSwapped(page, pageCount, count) ==
  LET raised == IF page < 1 THEN 1 ELSE page
  IN  IF count >= 0 /\ raised > pageCount THEN pageCount ELSE raised

PageAt(page, pageCount, count) ==
  LET capped == IF count >= 0 /\ page > pageCount THEN pageCount ELSE page
  IN  IF capped < 1 THEN 1 ELSE capped

New(page, perPage, count) ==
  LET size      == PageSize(perPage)
      pageCount == PageCount(size, count)
  IN  [page |-> PageAt(page, pageCount, count), perPage |-> size,
       pageCount |-> pageCount, totalCount |-> count]

\* A value of the query: an int, or a text that is none (absent, not a number,
\* or out of range).
NotAnInt == MaxInt + 1
Values   == Ints \cup {NotAnInt}
Queries  == [page : Values, perPage : Values]

parseInt(value, default) == IF value \in Ints THEN value ELSE default

NewFromRequest(query, count) ==
  New(parseInt(query.page, 1), parseInt(query.perPage, DefaultPageSize), count)

Offset(p) == Wrap((p.page - 1) * p.perPage)
Limit(p)  == p.perPage

\* Mutant of LinkSize: no link says how large its pages are.
LinkSizeOmitted(p) == NotAnInt

\* The per_page of a link: left out if it is the default.
LinkSize(p) == IF p.perPage = LinkDefault THEN NotAnInt ELSE p.perPage

\* The links that are not empty, each as the query it carries.
BuildLinks(p) ==
  LET page    == IF p.pageCount >= 0 /\ p.page > p.pageCount THEN p.pageCount ELSE p.page
      back    == IF page > 1 THEN {"first", "prev"} ELSE {}
      forward == IF p.pageCount < 0 THEN {"next"}
                 ELSE IF page < p.pageCount THEN {"next", "last"} ELSE {}
  IN  [rel \in back \cup forward |->
        [perPage |-> LinkSize(p),
         page |-> CASE rel = "first" -> 1
                    [] rel = "prev"  -> Wrap(page - 1)
                    [] rel = "next"  -> Wrap(page + 1)
                    [] rel = "last"  -> p.pageCount]]

\* The header shows prev if there is a first link, and last only after next.
BuildLinkHeader(p) ==
  LET links == BuildLinks(p)
      shown == (IF "first" \in DOMAIN links THEN {"first", "prev"} ELSE {})
               \cup (IF "next" \in DOMAIN links THEN {"next", "last"} ELSE {})
  IN  [rel \in shown \cap DOMAIN links |-> links[rel]]

Totals == Unknown .. MaxTotal

=============================================================================
