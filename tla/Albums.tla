------------------------------- MODULE Albums -------------------------------
(***************************************************************************)
(* The album endpoints (internal/album) on the database context            *)
(* (pkg/dbcontext).  Every request runs in a goroutine of its own and      *)
(* issues its SQL statements one by one; the requests in InTx run behind   *)
(* TransactionHandler, which commits after the handler has answered and    *)
(* rolls back when it returns an error.                                    *)
(*                                                                         *)
(* The database runs its statements one at a time and isolates             *)
(* transactions by PostgreSQL's default, read committed: a statement sees  *)
(* what is committed and what its own transaction wrote, and a write waits *)
(* for the transaction that wrote the row before.                          *)
(*                                                                         *)
(* Of the columns of an album the name is modelled; the name a request     *)
(* submits is represented by the request itself.                           *)
(***************************************************************************)
EXTENDS Pagination, FiniteSets

CONSTANTS Ids,       \* identifiers of albums, in the order of the id column
          Requests,  \* requests to the endpoints, each served once
          InTx,      \* those served behind TransactionHandler
          ListQueries, \* the pages that lists may ask for
          Seed,      \* the name of an album that was there before them
          NoRow      \* no album with this id

ASSUME AlbumsAssumption ==
  /\ Ids \subseteq Int /\ IsFiniteSet(Ids) /\ Ids # {}
  /\ Cardinality(Ids) <= MaxTotal
  /\ InTx \subseteq Requests /\ ListQueries \subseteq Queries
  /\ Seed \notin Requests /\ NoRow \notin Requests \cup {Seed}

Names   == Requests \cup {Seed}
Ops     == {"get", "list", "create", "update", "delete"}
Answers == {"none", "ok", "error"}

VARIABLES
  rows,     \* the committed table: the name of every album, or NoRow
  pending,  \* requests in InTx with a change that is not committed
  pc,       \* where each request is
  op, id,   \* what it asks for
  album,    \* the name of the album it has read first
  pages,    \* the Pages of a list, between its two statements
  answer,   \* what the client has been told
  gone,     \* history: albums that have been deleted
  stored    \* history: requests with a change that is committed

locals == <<op, id, album, pages>>
vars   == <<rows, pending, pc, op, id, album, pages, answer, gone, stored>>

NoPages == New(1, 1, 0)

Init ==
  /\ rows \in [Ids -> {Seed, NoRow}]
  /\ pending = {} /\ gone = {} /\ stored = {}
  /\ pc = [r \in Requests |-> "idle"] /\ op = [r \in Requests |-> "get"]
  /\ id = [r \in Requests |-> CHOOSE i \in Ids : TRUE] /\ album = [r \in Requests |-> NoRow]
  /\ pages = [r \in Requests |-> NoPages]
  /\ answer = [r \in Requests |-> "none"]

-----------------------------------------------------------------------------
(* The database.                                                           *)

\* The row that request r writes.
NewRow(r) == IF op[r] = "delete" THEN NoRow ELSE r

\* Mutant of View: there is one transaction for all requests.
ViewShared(r, i) ==
  IF \E q \in pending : id[q] = i
  THEN NewRow(CHOOSE q \in pending : id[q] = i) ELSE rows[i]

\* What a statement of request r sees of album i.
View(r, i) == IF r \in pending /\ i = id[r] THEN NewRow(r) ELSE rows[i]
Present(r) == {i \in Ids : View(r, i) # NoRow}

\* The row that r is about to write is held by another transaction.
Locked(r) == \E q \in pending \ {r} : id[q] = id[r]

\* The change of request r becomes part of the committed table.
Store(r) ==
  /\ rows' = [rows EXCEPT ![id[r]] = NewRow(r)]
  /\ gone' = IF op[r] = "delete" THEN gone \cup {id[r]} ELSE gone
  /\ stored' = stored \cup {r}

\* Mutant of With: every request finds a transaction in its context.
WithAlways(r) == pending' = pending \cup {r} /\ UNCHANGED <<rows, gone, stored>>

\* A statement that writes runs on the transaction in the context, if there is
\* one, and on the database itself otherwise.
With(r) ==
  IF r \in InTx
  THEN pending' = pending \cup {r} /\ UNCHANGED <<rows, gone, stored>>
  ELSE Store(r) /\ UNCHANGED pending

NoChange == UNCHANGED <<rows, pending, gone, stored>>

-----------------------------------------------------------------------------
(* How a request ends.                                                     *)

To(r, place) == pc' = [pc EXCEPT ![r] = place]

\* The handler has written its response and returns no error.
Succeed(r) ==
  /\ answer' = [answer EXCEPT ![r] = "ok"]
  /\ To(r, IF r \in InTx THEN "commit" ELSE "done")

\* Mutant of Fail: the error is answered inside the transaction, which then
\* sees none and commits.
FailInside(r) ==
  /\ answer' = [answer EXCEPT ![r] = "error"]
  /\ To(r, IF r \in InTx THEN "commit" ELSE "done")
  /\ NoChange

\* The handler returns an error: the transaction, if any, is rolled back, and
\* the error handler answers.
Fail(r) ==
  /\ answer' = [answer EXCEPT ![r] = "error"]
  /\ To(r, "done")
  /\ pending' = pending \ {r}
  /\ UNCHANGED <<rows, gone, stored>>

Commit(r) ==
  /\ pc[r] = "commit"
  /\ To(r, "done")
  /\ IF r \in pending THEN Store(r) ELSE UNCHANGED <<rows, gone, stored>>
  /\ pending' = pending \ {r}
  /\ UNCHANGED <<locals, answer>>

\* Mutant of CommitFails: nobody ends a transaction that was not committed.
CommitFailsOpen(r) ==
  /\ pc[r] = "commit"
  /\ To(r, "done")
  /\ NoChange
  /\ UNCHANGED <<locals, answer>>

\* The database refuses to commit; the answer has been sent.
CommitFails(r) ==
  /\ pc[r] = "commit"
  /\ To(r, "done")
  /\ pending' = pending \ {r}
  /\ UNCHANGED <<rows, gone, stored, locals, answer>>

-----------------------------------------------------------------------------
(* The handlers.                                                           *)

FirstStep == [get |-> "get", list |-> "count", create |-> "insert",
              update |-> "get", delete |-> "get"]

\* A request that may not write, that cannot be read or that asks for an
\* invalid name is refused; so is one whose transaction does not begin.
Refuse(r) ==
  /\ pc[r] = "idle"
  /\ Fail(r)
  /\ UNCHANGED locals

\* entity.GenerateID makes a new id; a client may name any.
Used == {i \in Ids : rows[i] # NoRow} \cup gone
          \cup {id[r] : r \in {q \in Requests : pc[q] # "idle" /\ op[q] = "create"}}

Arrive(r) ==
  /\ pc[r] = "idle"
  /\ \E what \in Ops, i \in Ids :
       /\ what = "create" => i \notin Used
       /\ op' = [op EXCEPT ![r] = what] /\ id' = [id EXCEPT ![r] = i]
       /\ To(r, FirstStep[what])
  /\ NoChange /\ UNCHANGED <<album, pages, answer>>

\* Mutant of StatementFails: the error of a statement is dropped.
StatementFailsUnseen(r) ==
  /\ pc[r] \notin {"idle", "commit", "done"}
  /\ Succeed(r)
  /\ NoChange /\ UNCHANGED locals

\* Any statement may fail, on the database or because the client has left.
StatementFails(r) ==
  /\ pc[r] \notin {"idle", "commit", "done"}
  /\ Fail(r)
  /\ UNCHANGED locals

\* service.Get: the first statement of get, update and delete.
Get(r) ==
  /\ pc[r] = "get"
  /\ IF View(r, id[r]) = NoRow
     THEN Fail(r) /\ UNCHANGED album
     ELSE /\ album' = [album EXCEPT ![r] = View(r, id[r])]
          /\ NoChange
          /\ CASE op[r] = "get"    -> Succeed(r)
               [] op[r] = "update" -> To(r, "write") /\ UNCHANGED answer
               [] op[r] = "delete" -> To(r, "confirm") /\ UNCHANGED answer
  /\ UNCHANGED <<op, id, pages>>

\* repository.Create.
Insert(r) ==
  /\ pc[r] = "insert"
  /\ With(r)
  /\ To(r, "reread")
  /\ UNCHANGED <<locals, answer>>

\* service.Create answers with what it reads back.
Reread(r) ==
  /\ pc[r] = "reread"
  /\ IF View(r, id[r]) = NoRow
     THEN Fail(r) /\ UNCHANGED album
     ELSE /\ album' = [album EXCEPT ![r] = View(r, id[r])]
          /\ NoChange /\ Succeed(r)
  /\ UNCHANGED <<op, id, pages>>

\* Mutant of Write: an album that has disappeared is inserted again.
WriteUpsert(r) ==
  /\ pc[r] = "write" /\ ~ Locked(r)
  /\ With(r)
  /\ Succeed(r)
  /\ UNCHANGED locals

\* repository.Update: the whole row is written where its id is found.
Write(r) ==
  /\ pc[r] = "write" /\ ~ Locked(r)
  /\ IF View(r, id[r]) = NoRow THEN NoChange ELSE With(r)
  /\ Succeed(r)
  /\ UNCHANGED locals

\* repository.Delete reads the album once more.
Confirm(r) ==
  /\ pc[r] = "confirm"
  /\ IF View(r, id[r]) = NoRow
     THEN Fail(r)
     ELSE To(r, "delete") /\ NoChange /\ UNCHANGED answer
  /\ UNCHANGED locals

\* The DELETE statement; it finds one row or none.
Delete(r) ==
  /\ pc[r] = "delete" /\ ~ Locked(r)
  /\ IF View(r, id[r]) = NoRow THEN NoChange ELSE With(r)
  /\ Succeed(r)
  /\ UNCHANGED locals

\* The list handler counts the albums to find the page to show.
Count(r) ==
  /\ pc[r] = "count"
  /\ \E query \in ListQueries :
       pages' = [pages EXCEPT ![r] = NewFromRequest(query, Cardinality(Present(r)))]
  /\ To(r, "query")
  /\ NoChange /\ UNCHANGED <<op, id, album, answer>>

\* Mutant of Rank: albums are ordered from the last to the first.
RankDown(i, S) == Cardinality({j \in S : j >= i})

\* The place of an album in ORDER BY id.
Rank(i, S) == Cardinality({j \in S : j <= i})

\* The albums that OFFSET and LIMIT let through.
Items(r) ==
  {i \in Present(r) : /\ Rank(i, Present(r)) > Offset(pages[r])
                      /\ Rank(i, Present(r)) <= Offset(pages[r]) + Limit(pages[r])}

\* repository.Query: the handler answers with Items(r) and forgets its Pages.
Query(r) ==
  /\ pc[r] = "query"
  /\ pages' = [pages EXCEPT ![r] = NoPages]
  /\ Succeed(r)
  /\ NoChange /\ UNCHANGED <<op, id, album>>

-----------------------------------------------------------------------------
Step(r) ==
  \/ Get(r) \/ Insert(r) \/ Reread(r) \/ Write(r) \/ Confirm(r) \/ Delete(r)
  \/ Count(r) \/ Query(r) \/ Commit(r) \/ CommitFails(r)

Finished == (\A r \in Requests : pc[r] = "done") /\ UNCHANGED vars

Next == (\E r \in Requests : Arrive(r) \/ Refuse(r) \/ Step(r) \/ StatementFails(r)) \/ Finished

Spec == Init /\ [][Next]_vars

\* The scheduler runs every request that can go on, and every statement that
\* waits for nobody and every commit comes back from the database.  That a
\* statement fails, or a client leaves, is not counted on.
FairSpec == Spec /\ \A r \in Requests : WF_vars(Step(r))

-----------------------------------------------------------------------------
PCs == {"idle", "get", "count", "query", "insert", "reread", "write", "confirm",
        "delete", "commit", "done"}

TypeOK ==
  /\ rows \in [Ids -> Names \cup {NoRow}]
  /\ pending \subseteq InTx /\ stored \subseteq Requests
  /\ pc \in [Requests -> PCs] /\ op \in [Requests -> Ops] /\ id \in [Requests -> Ids]
  /\ album \in [Requests -> Names \cup {NoRow}]
  /\ answer \in [Requests -> Answers] /\ gone \subseteq Ids

\* The committed table is an album table: updates and deletions of rows that
\* disappeared in the meantime bring nothing back, an uncommitted insertion is
\* nobody else's album, and every commit is one change of one album.
Table == INSTANCE AlbumTable
TableSpec == Table!Spec

\* A request behind TransactionHandler that was answered with an error has
\* changed nothing, at whatever statement it failed (TransactionalContext,
\* errors.Handler around it).
FailedLeavesNothing ==
  \A r \in InTx : pc[r] = "done" /\ answer[r] # "ok" => r \notin stored

\* Without a transaction, a success that was answered is a fact: the created
\* album is or was there, the updated one carries the name until it is changed,
\* the deleted one is gone.  An update whose album disappears under it
\* succeeds too.
AnsweredIsStored ==
  \A r \in Requests \ InTx : pc[r] = "done" /\ answer[r] = "ok" =>
    CASE op[r] = "create" -> r \in stored
      [] op[r] = "update" -> r \in stored \/ id[r] \in gone
      [] op[r] = "delete" -> id[r] \in gone
      [] OTHER -> r \notin stored

\* What a request has read of an album was committed, or is its own: no answer
\* is made of a change that is rolled back later.
ReadsCommitted ==
  \A r \in Requests : album[r] \in Requests \ {r} => album[r] \in stored

\* What a list shows are consecutive albums, as many as its page has room for
\* unless they are the last, and those before them fill exactly the pages before
\* this one.
ShowsItsPage(r) ==
  LET all    == Present(r)
      shown  == Items(r)
      before == {i \in all : \A j \in shown : i < j}
      after  == {i \in all : \A j \in shown : i > j}
  IN  /\ before \cup shown \cup after = all
      /\ all # {} => /\ shown # {}
                     /\ Cardinality(before) = (pages[r].page - 1) * pages[r].perPage
      /\ after # {} => Cardinality(shown) = pages[r].perPage

\* If there are as many albums at SELECT as there were at COUNT, a list shows the
\* albums of its page, by COUNT and ORDER BY id, OFFSET and LIMIT together.
SteadyPage ==
  [][\A r \in Requests :
       Query(r) /\ Cardinality(Present(r)) = pages[r].totalCount => ShowsItsPage(r)]_vars

\* Every request that has arrived comes to an end: whoever holds a row goes on
\* to the end of its transaction, whatever that is, and releases it.
AllEnd == \A r \in Requests : pc[r] # "idle" ~> pc[r] = "done"

\* "Update saves the changes to an album in the database" and "Delete deletes
\* an album with the specified ID from the database" (repository.go): a client
\* that was answered with the album has changed the table.
AnswerMeansChange ==
  \A r \in Requests \ InTx :
    pc[r] = "done" /\ answer[r] = "ok" /\ op[r] \in {"update", "delete"} => r \in stored

=============================================================================
