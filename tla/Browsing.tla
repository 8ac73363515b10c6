------------------------------ MODULE Browsing ------------------------------
(***************************************************************************)
(* A client that browses a listing: it asks for any page of any size, or   *)
(* follows a link of the answer it holds, while rows come and go between   *)
(* its requests (New, NewFromRequest and BuildLinkHeader of                *)
(* pkg/pagination together).                                               *)
(***************************************************************************)
EXTENDS Pagination

VARIABLES
  total,  \* rows of the table; -1 if the caller does not count them
  pages   \* the Pages of the last answer

vars == <<total, pages>>

-----------------------------------------------------------------------------
Init ==
  /\ total \in Totals
  /\ pages \in {NewFromRequest(query, total) : query \in Queries}

Request(query) == pages' = NewFromRequest(query, total) /\ UNCHANGED total

Follow(rel) ==
  /\ rel \in DOMAIN BuildLinkHeader(pages)
  /\ pages' = NewFromRequest(BuildLinkHeader(pages)[rel], total)
  /\ UNCHANGED total

\* A row is inserted or removed.
RowsChange ==
  /\ total # Unknown
  /\ total' \in {total - 1, total + 1} \cap (0 .. MaxTotal)
  /\ UNCHANGED pages

Next ==
  \/ \E query \in Queries : Request(query)
  \/ \E rel \in {"first", "prev", "next", "last"} : Follow(rel)
  \/ RowsChange

Spec == Init /\ [][Next]_vars

-----------------------------------------------------------------------------
TypeOK ==
  /\ total \in Totals
  /\ pages \in [page : 1 .. MaxInt, perPage : 1 .. MaxPageSize,
                pageCount : Totals, totalCount : Totals]

\* The rows of page k of size n of a table of count rows, without arithmetic
\* that could wrap: the definition the code is compared with.
RowsOf(k, n, count) == {i \in 1 .. count : (k - 1) * n < i /\ i <= k * n}

\* The rows a statement with OFFSET skip and LIMIT n reads.
Read(skip, n, count) == {i \in 1 .. count : skip < i /\ i <= skip + n}

\* When rows are counted, a statement with the offset and the limit of the
\* answer reads just the rows of its page, and reads some if there are any,
\* whatever page and size the client asked for: the product in Offset does not
\* wrap, and a page beyond the end is moved back (New, Offset, Limit).
ReadsItsPage ==
  pages.totalCount # Unknown =>
    LET read == Read(Offset(pages), Limit(pages), pages.totalCount)
    IN  /\ read = RowsOf(pages.page, pages.perPage, pages.totalCount)
        /\ read = {} => pages.totalCount = 0

\* The pages 1 to pageCount of an answer are disjoint, none is empty, and
\* together they hold every row: browsing all pages shows everything once.
PagesPartition ==
  pages.totalCount # Unknown =>
    LET Page(k) == RowsOf(k, pages.perPage, pages.totalCount)
    IN  /\ \A i \in 1 .. pages.totalCount :
             \E k \in 1 .. pages.pageCount :
               i \in Page(k) /\ \A m \in 1 .. pages.pageCount : i \in Page(m) => m = k
        /\ \A k \in 1 .. pages.pageCount : Page(k) # {}

\* A link leads from one answer to the right neighbour: whatever happened to
\* the table, the page keeps its size; if nothing did, next starts where this
\* page ends, prev ends where it starts, first has nothing before it and last
\* nothing behind it, so that links skip no row and show none twice.
LinksTile ==
  [][ /\ \A rel \in {"first", "prev", "next", "last"} :
           Follow(rel) => pages'.perPage = pages.perPage
      /\ total = pages.totalCount /\ total # Unknown =>
           /\ Follow("next")  => Offset(pages') = Offset(pages) + Limit(pages)
           /\ Follow("prev")  => Offset(pages') + Limit(pages') = Offset(pages)
           /\ Follow("first") => Offset(pages') = 0
           /\ Follow("last")  => Offset(pages') + Limit(pages') >= total ]_vars

=============================================================================
