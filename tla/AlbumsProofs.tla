---------------------------- MODULE AlbumsProofs ----------------------------
(***************************************************************************)
(* Theorems about Albums, for all tables, any number of requests and any   *)
(* choice of those that run in a transaction.  The invariant says of each  *)
(* request what it has established by now (RequestOK), and of the table    *)
(* that an uncommitted row has one writer, that its names are committed    *)
(* and that the ids of creations differ.  Lists are at the end: the place  *)
(* of an album in the order of ids numbers the albums from 1 on, without   *)
(* gaps, and a page is a range of these numbers.                           *)
(***************************************************************************)
EXTENDS Albums, PaginationProofs, FiniteSetTheorems

Writes == {"create", "update", "delete"}

\* What a request does where, and what it keeps at its end.
Placed(r) ==
  /\ pc[r] = "idle" => op[r] = "get" /\ album[r] = NoRow /\ answer[r] = "none"
  /\ pc[r] = "get" => op[r] \in {"get", "update", "delete"}
  /\ pc[r] \in {"count", "query"} => op[r] = "list"
  /\ pc[r] \in {"insert", "reread"} => op[r] = "create"
  /\ pc[r] = "write" => op[r] = "update"
  /\ pc[r] \in {"confirm", "delete"} => op[r] = "delete"
  /\ pc[r] = "commit" => r \in InTx /\ answer[r] = "ok"
  /\ r \in pending => pc[r] \in {"reread", "commit"} /\ op[r] \in Writes

\* What the table has for a request: no row for an insertion, a row for any
\* other uncommitted change, and for one that has read a row that row or its
\* deletion.
Founded(r) ==
  /\ op[r] = "create" /\ (pc[r] = "insert" \/ r \in pending)
       => rows[id[r]] = NoRow /\ id[r] \notin gone
  /\ op[r] # "create" /\ r \in pending => rows[id[r]] # NoRow
  /\ pc[r] \in {"write", "confirm", "delete"} => rows[id[r]] # NoRow \/ id[r] \in gone

\* What a request has stored when it is where it is.
Effected(r) ==
  /\ r \in stored => op[r] \in Writes
  /\ r \in stored /\ r \in InTx => pc[r] = "done" /\ answer[r] = "ok"
  /\ r \in stored /\ r \notin InTx => pc[r] \in {"reread", "done"}
  /\ r \notin InTx /\ pc[r] = "reread" => r \in stored
  /\ r \notin InTx /\ pc[r] = "done" /\ answer[r] = "ok" =>
       /\ op[r] = "create" => r \in stored
       /\ op[r] = "update" => r \in stored \/ id[r] \in gone
       /\ op[r] = "delete" => id[r] \in gone
  /\ album[r] \in Requests \ {r} => album[r] \in stored

RequestOK(r) == Placed(r) /\ Founded(r) /\ Effected(r)

OneHolder == \A q, r \in pending : id[q] = id[r] => q = r

Rows ==
  \A i \in Ids : /\ rows[i] \in Requests => rows[i] \in stored
                 /\ i \in gone => rows[i] = NoRow

Creators ==
  \A q, r \in Requests : op[q] = "create" /\ op[r] = "create" /\ id[q] = id[r] => q = r

IInv ==
  /\ TypeOK
  /\ \A r \in Requests : RequestOK(r)
  /\ OneHolder /\ Rows /\ Creators

-----------------------------------------------------------------------------
(* What a step leaves alone.                                               *)

\* The step is not one of request q.
Same(q) ==
  /\ pc'[q] = pc[q] /\ op'[q] = op[q] /\ id'[q] = id[q]
  /\ album'[q] = album[q] /\ answer'[q] = answer[q]
  /\ q \in pending' <=> q \in pending

Quiet == rows' = rows /\ gone' = gone /\ stored' = stored

LEMMA Undisturbed ==
  ASSUME IInv, NEW q \in Requests, Same(q), Quiet
  PROVE  RequestOK(q)'
  BY DEF IInv, RequestOK, Placed, Founded, Effected, Same, Quiet

\* A change that may be stored: it has a row or none, as it should, and nobody
\* else holds that row.
Fits(r) ==
  /\ op[r] \in Writes
  /\ op[r] = "create" => rows[id[r]] = NoRow /\ id[r] \notin gone
  /\ op[r] # "create" => rows[id[r]] # NoRow
  /\ \A q \in pending \ {r} : id[q] # id[r]

\* The table as a stored change leaves it.
LEMMA StoredRow ==
  ASSUME IInv, NEW r \in Requests, Store(r)
  PROVE  /\ rows'[id[r]] = NewRow(r)
         /\ \A i \in Ids : i # id[r] => rows'[i] = rows[i]
         /\ gone' = IF op[r] = "delete" THEN gone \cup {id[r]} ELSE gone
         /\ stored' = stored \cup {r}
         /\ rows' \in [Ids -> Names \cup {NoRow}] /\ gone' \subseteq Ids
         /\ stored' \subseteq Requests
  BY AlbumsAssumption DEF IInv, TypeOK, Store, NewRow, Names

LEMMA OthersStored ==
  ASSUME IInv, NEW r \in Requests, Store(r), Fits(r),
         NEW q \in Requests \ {r}, Same(q)
  PROVE  RequestOK(q)'
<1>1. id[q] \in Ids /\ id[r] \in Ids /\ RequestOK(q)
  BY DEF IInv, TypeOK
<1>2. Placed(q)'
  BY <1>1 DEF RequestOK, Placed, Same
<1>3. Founded(q)'
  <2>1. CASE id[q] # id[r]
    BY <1>1, <2>1, StoredRow DEF RequestOK, Founded, Same
  <2>2. CASE id[q] = id[r]
    BY <1>1, <2>2, StoredRow, AlbumsAssumption
       DEF IInv, RequestOK, Founded, Same, Fits, Creators, NewRow, Writes
  <2>3. QED BY <2>1, <2>2
<1>4. Effected(q)'
  BY <1>1, StoredRow DEF RequestOK, Effected, Same
<1>5. QED BY <1>2, <1>3, <1>4 DEF RequestOK

LEMMA RowsStored ==
  ASSUME IInv, NEW r \in Requests, Store(r), Fits(r)
  PROVE  Rows'
<1>1. id[r] \in Ids
  BY DEF IInv, TypeOK
<1>2. SUFFICES ASSUME NEW i \in Ids
               PROVE  /\ rows'[i] \in Requests => rows'[i] \in stored'
                      /\ i \in gone' => rows'[i] = NoRow
  BY DEF Rows
<1>3. CASE i # id[r]
  BY <1>1, <1>3, StoredRow DEF IInv, Rows
<1>4. CASE i = id[r]
  BY <1>1, <1>4, StoredRow, AlbumsAssumption DEF IInv, Rows, NewRow, Fits, Writes
<1>5. QED BY <1>3, <1>4

\* A step of request r keeps the invariant if it keeps what r has established,
\* and if r takes a row, stored or not, only where Fits(r).
LEMMA OneStep ==
  ASSUME IInv, NEW r \in Requests, TypeOK', RequestOK(r)',
         \A q \in Requests \ {r} : Same(q),
         op'[r] = op[r], id'[r] = id[r],
         Quiet \/ (Store(r) /\ Fits(r)),
         r \in pending' => r \in pending \/ Fits(r)
  PROVE  IInv'
<1>1. ASSUME NEW q \in Requests \ {r} PROVE RequestOK(q)'
  BY <1>1, Undisturbed, OthersStored
<1>2. OneHolder'
  <2>1. SUFFICES ASSUME NEW q \in pending', NEW s \in pending', id'[q] = id'[s]
                 PROVE  q = s
    BY DEF OneHolder
  <2>2. q \in Requests /\ s \in Requests /\ id'[q] = id[q] /\ id'[s] = id[s]
    BY AlbumsAssumption DEF TypeOK, Same
  <2>3. CASE q # r /\ s # r
    BY <2>1, <2>2, <2>3 DEF IInv, OneHolder, Same
  <2>4. \A p \in pending' \ {r} : p \in pending
    BY AlbumsAssumption DEF IInv, TypeOK, Same
  <2>5. CASE r \in pending
    BY <2>1, <2>2, <2>4, <2>5 DEF IInv, OneHolder
  <2>6. CASE r \notin pending /\ Fits(r)
    BY <2>1, <2>2, <2>4, <2>6 DEF IInv, OneHolder, Fits
  <2>7. QED BY <2>3, <2>5, <2>6
<1>3. Rows'
  BY RowsStored DEF IInv, Rows, Quiet
<1>4. Creators'
  BY DEF IInv, Creators, Same
<1>5. QED BY <1>1, <1>2, <1>3, <1>4 DEF IInv

-----------------------------------------------------------------------------
(* The steps of a request.                                                 *)

\* A request changes its own entry of a function only.
LEMMA Own ==
  ASSUME NEW S, NEW T, NEW f \in [S -> T], NEW r \in S, NEW v \in T
  PROVE  /\ [f EXCEPT ![r] = v] \in [S -> T]
         /\ [f EXCEPT ![r] = v][r] = v
         /\ \A q \in S \ {r} : [f EXCEPT ![r] = v][q] = f[q]
  OBVIOUS

LEMMA FailStep ==
  ASSUME IInv, NEW r \in Requests, Fail(r), UNCHANGED locals, pc[r] # "done"
  PROVE  IInv'
<1>1. /\ pc'[r] = "done" /\ answer'[r] = "error" /\ r \notin pending'
      /\ \A q \in Requests \ {r} : Same(q)
      /\ op' = op /\ id' = id /\ album' = album
  BY DEF IInv, TypeOK, Fail, To, Same, locals
<1>2. Quiet
  BY DEF Fail, Quiet
<1>3. TypeOK'
  BY DEF IInv, TypeOK, Fail, To, locals, PCs, Answers
<1>4. RequestOK(r)'
  BY <1>1, <1>2 DEF IInv, RequestOK, Placed, Founded, Effected, Quiet
<1>5. QED BY <1>1, <1>2, <1>3, <1>4, OneStep

\* Succeed, with no change of the table.
LEMMA SucceedStep ==
  ASSUME IInv, NEW r \in Requests, Succeed(r), NoChange,
         pc[r] \in {"get", "reread", "write", "delete", "query"},
         op' = op, id' = id,
         album' = album \/ album' = [album EXCEPT ![r] = View(r, id[r])],
         pc[r] = "write" /\ r \notin InTx => id[r] \in gone,
         pc[r] = "delete" /\ r \notin InTx => id[r] \in gone,
         pc[r] = "get" => op[r] = "get"
  PROVE  IInv'
<1>1. /\ pc'[r] = (IF r \in InTx THEN "commit" ELSE "done") /\ answer'[r] = "ok"
      /\ pc' \in [Requests -> PCs] /\ answer' \in [Requests -> Answers]
      /\ \A q \in Requests \ {r} : pc'[q] = pc[q] /\ answer'[q] = answer[q]
  BY DEF IInv, TypeOK, Succeed, To, PCs, Answers
<1>2. View(r, id[r]) \in Names \cup {NoRow} /\ id[r] \in Ids
      /\ (View(r, id[r]) \in Requests \ {r} => View(r, id[r]) \in stored)
  BY AlbumsAssumption DEF IInv, TypeOK, View, NewRow, Rows, Names
<1>3. /\ album' \in [Requests -> Names \cup {NoRow}]
      /\ \A q \in Requests \ {r} : album'[q] = album[q]
      /\ album'[r] = album[r] \/ album'[r] = View(r, id[r])
  BY <1>2 DEF IInv, TypeOK
<1>4. Quiet /\ pending' = pending
  BY DEF NoChange, Quiet
<1>5. TypeOK'
  BY <1>1, <1>3, <1>4 DEF IInv, TypeOK, Quiet
<1>6. RequestOK(r)'
  <2>1. RequestOK(r) /\ (r \in pending => r \in InTx)
    BY DEF IInv, TypeOK
  <2>2. Placed(r)'
    BY <1>1, <1>4, <2>1 DEF RequestOK, Placed, Writes
  <2>3. Founded(r)'
    BY <1>1, <1>4, <2>1 DEF RequestOK, Founded, Quiet
  <2>4. Effected(r)'
    BY <1>1, <1>2, <1>3, <1>4, <2>1 DEF RequestOK, Placed, Effected, Quiet, Writes
  <2>5. QED BY <2>2, <2>3, <2>4 DEF RequestOK
<1>7. \A q \in Requests \ {r} : Same(q)
  BY <1>1, <1>3, <1>4 DEF Same
<1>8. QED BY <1>4, <1>5, <1>6, <1>7, OneStep

\* A statement that writes a row, and what the request does after it.
LEMMA WithStep ==
  ASSUME IInv, NEW r \in Requests, With(r), Fits(r), UNCHANGED locals,
         \/ pc[r] = "insert" /\ To(r, "reread") /\ UNCHANGED answer
         \/ pc[r] \in {"write", "delete"} /\ Succeed(r)
  PROVE  IInv'
<1>1. /\ \/ pc[r] = "insert" /\ pc'[r] = "reread" /\ answer' = answer
         \/ /\ pc[r] \in {"write", "delete"} /\ answer'[r] = "ok"
            /\ pc'[r] = (IF r \in InTx THEN "commit" ELSE "done")
      /\ pc' \in [Requests -> PCs] /\ answer' \in [Requests -> Answers]
      /\ \A q \in Requests \ {r} : pc'[q] = pc[q] /\ answer'[q] = answer[q]
  BY DEF IInv, TypeOK, Succeed, To, PCs, Answers
<1>2. op' = op /\ id' = id /\ album' = album
  BY DEF locals
<1>3. RequestOK(r) /\ id[r] \in Ids /\ (pending \subseteq InTx)
  BY DEF IInv, TypeOK
<1>4. CASE r \in InTx
  <2>1. Quiet /\ pending' = pending \cup {r}
    BY <1>4 DEF With, Quiet
  <2>2. TypeOK'
    BY <1>1, <1>2, <1>4, <2>1 DEF IInv, TypeOK, Quiet
  <2>3. RequestOK(r)'
    BY <1>1, <1>2, <1>3, <1>4, <2>1
       DEF RequestOK, Placed, Founded, Effected, Quiet, Fits
  <2>4. \A q \in Requests \ {r} : Same(q)
    BY <1>1, <1>2, <2>1 DEF Same
  <2>5. QED BY <1>2, <2>1, <2>2, <2>3, <2>4, OneStep
<1>5. CASE r \notin InTx
  <2>1. Store(r) /\ pending' = pending /\ r \notin pending
    BY <1>3, <1>5 DEF With
  <2>2. TypeOK'
    BY <1>1, <1>2, <2>1, StoredRow DEF IInv, TypeOK
  <2>3. Placed(r)'
    BY <1>1, <1>2, <1>3, <1>5, <2>1 DEF RequestOK, Placed
  <2>4. Founded(r)'
    BY <1>1, <1>2, <1>5, <2>1 DEF Founded
  <2>5. Effected(r)'
    BY <1>1, <1>2, <1>3, <1>5, <2>1, StoredRow DEF RequestOK, Effected, Fits
  <2>6. \A q \in Requests \ {r} : Same(q)
    BY <1>1, <1>2, <2>1 DEF Same
  <2>7. QED BY <1>2, <2>1, <2>2, <2>3, <2>4, <2>5, <2>6, OneStep DEF RequestOK
<1>6. QED BY <1>4, <1>5

\* A request goes on to its next statement.
LEMMA MoveStep ==
  ASSUME IInv, NEW r \in Requests, NoChange, UNCHANGED <<op, id, answer>>,
         \/ pc[r] = "get" /\ op[r] = "update" /\ To(r, "write")
         \/ pc[r] = "get" /\ op[r] = "delete" /\ To(r, "confirm")
         \/ pc[r] = "confirm" /\ To(r, "delete")
         \/ pc[r] = "count" /\ To(r, "query"),
         album' = album \/ album' = [album EXCEPT ![r] = View(r, id[r])],
         pc[r] # "count" => View(r, id[r]) # NoRow
  PROVE  IInv'
<1>1. /\ pc' \in [Requests -> PCs] /\ \A q \in Requests \ {r} : pc'[q] = pc[q]
      /\ \/ pc[r] = "get" /\ op[r] = "update" /\ pc'[r] = "write"
         \/ pc[r] = "get" /\ op[r] = "delete" /\ pc'[r] = "confirm"
         \/ pc[r] = "confirm" /\ pc'[r] = "delete"
         \/ pc[r] = "count" /\ pc'[r] = "query"
  BY DEF IInv, TypeOK, To, PCs
<1>2. RequestOK(r) /\ r \notin pending
  BY <1>1 DEF IInv, RequestOK, Placed
<1>3. id[r] \in Ids /\ View(r, id[r]) = rows[id[r]] /\ rows[id[r]] \in Names \cup {NoRow}
      /\ (rows[id[r]] \in Requests => rows[id[r]] \in stored)
  BY <1>2 DEF IInv, TypeOK, View, Rows
<1>4. /\ album' \in [Requests -> Names \cup {NoRow}]
      /\ \A q \in Requests \ {r} : album'[q] = album[q]
      /\ album'[r] = album[r] \/ album'[r] = rows[id[r]]
  BY <1>3 DEF IInv, TypeOK
<1>5. Quiet /\ pending' = pending
  BY DEF NoChange, Quiet
<1>6. TypeOK'
  BY <1>1, <1>4, <1>5 DEF IInv, TypeOK, Quiet
<1>7. RequestOK(r)'
  BY <1>1, <1>2, <1>3, <1>4, <1>5
     DEF RequestOK, Placed, Founded, Effected, Quiet
<1>8. \A q \in Requests \ {r} : Same(q)
  BY <1>1, <1>4, <1>5 DEF Same
<1>9. QED BY <1>5, <1>6, <1>7, <1>8, OneStep

\* The end of a transaction, committed or not.
LEMMA EndStep ==
  ASSUME IInv, NEW r \in Requests, pc[r] = "commit", To(r, "done"),
         UNCHANGED <<locals, answer>>, pending' = pending \ {r},
         Quiet \/ (r \in pending /\ Store(r))
  PROVE  IInv' /\ (Quiet \/ Fits(r))
<1>1. /\ pc' \in [Requests -> PCs] /\ pc'[r] = "done"
      /\ \A q \in Requests \ {r} : pc'[q] = pc[q]
  BY DEF IInv, TypeOK, To, PCs
<1>2. op' = op /\ id' = id /\ album' = album /\ answer' = answer
  BY DEF locals
<1>3. RequestOK(r) /\ id[r] \in Ids /\ r \in InTx /\ answer[r] = "ok"
  BY DEF IInv, TypeOK, RequestOK, Placed
<1>4. r \in pending => Fits(r)
  <2>1. ASSUME r \in pending, NEW q \in pending \ {r} PROVE id[q] # id[r]
    BY <2>1 DEF IInv, OneHolder
  <2>2. QED BY <1>3, <2>1 DEF RequestOK, Placed, Founded, Fits
<1>5. TypeOK'
  BY <1>1, <1>2, StoredRow DEF IInv, TypeOK, Quiet
<1>6. Placed(r)' /\ Founded(r)'
  BY <1>1, <1>2, <1>3 DEF RequestOK, Placed, Founded
<1>7. Effected(r)'
  BY <1>1, <1>2, <1>3, <1>4, StoredRow DEF RequestOK, Effected, Fits, Quiet
<1>8. \A q \in Requests \ {r} : Same(q)
  BY <1>1, <1>2 DEF Same
<1>9. QED BY <1>2, <1>4, <1>5, <1>6, <1>7, <1>8, OneStep DEF RequestOK

\* Nothing, or one change that fits, is stored.
Change(r) == Quiet \/ (Store(r) /\ Fits(r))

\* A write that nobody holds the row for fits, where the row is.
LEMMA FreeFits ==
  ASSUME IInv, NEW r \in Requests, pc[r] \in {"write", "delete"}, ~ Locked(r),
         View(r, id[r]) # NoRow
  PROVE  Fits(r)
  BY DEF IInv, RequestOK, Placed, View, Locked, Fits, Writes

\* The row of a new album fits: its id is nobody else's.
LEMMA NewFits ==
  ASSUME IInv, NEW r \in Requests, pc[r] = "insert"
  PROVE  Fits(r)
<1>1. op[r] = "create" /\ rows[id[r]] = NoRow /\ id[r] \notin gone
  BY DEF IInv, RequestOK, Placed, Founded
<1>2. ASSUME NEW q \in pending \ {r} PROVE id[q] # id[r]
  <2>1. q \in Requests /\ RequestOK(q)
    BY AlbumsAssumption DEF IInv, TypeOK
  <2>2. CASE op[q] = "create"
    BY <1>1, <2>1, <2>2 DEF IInv, Creators
  <2>3. CASE op[q] # "create"
    BY <1>1, <2>1, <2>3 DEF RequestOK, Founded
  <2>4. QED BY <2>2, <2>3
<1>3. QED BY <1>1, <1>2 DEF Fits, Writes

LEMMA FailKeeps ==
  ASSUME IInv, NEW r \in Requests, Fail(r), UNCHANGED locals, pc[r] # "done"
  PROVE  IInv' /\ Change(r)
  BY FailStep DEF Fail, Change, Quiet

LEMMA ArriveStep ==
  ASSUME IInv, NEW r \in Requests, Arrive(r)
  PROVE  IInv' /\ Change(r)
<1>1. PICK what \in Ops, i \in Ids :
        /\ what = "create" => i \notin Used
        /\ op' = [op EXCEPT ![r] = what] /\ id' = [id EXCEPT ![r] = i]
        /\ To(r, FirstStep[what])
  BY DEF Arrive
<1>2. /\ op' \in [Requests -> Ops] /\ id' \in [Requests -> Ids] /\ pc' \in [Requests -> PCs]
      /\ op'[r] = what /\ id'[r] = i /\ pc'[r] = FirstStep[what]
      /\ \A q \in Requests \ {r} : op'[q] = op[q] /\ id'[q] = id[q] /\ pc'[q] = pc[q]
  BY <1>1 DEF IInv, TypeOK, To, PCs, Ops, FirstStep
<1>3. /\ Quiet /\ pending' = pending /\ album' = album /\ answer' = answer
      /\ pc[r] = "idle"
  BY DEF Arrive, NoChange, Quiet
<1>4. \A q \in Requests \ {r} : Same(q)
  BY <1>2, <1>3 DEF Same
<1>5. /\ r \notin pending /\ r \notin stored /\ album[r] = NoRow /\ answer[r] = "none"
      /\ what = "create" => rows[i] = NoRow /\ i \notin gone
  BY <1>1, <1>3 DEF IInv, RequestOK, Placed, Effected, Used, Writes
<1>6. TypeOK'
  BY <1>2, <1>3 DEF IInv, TypeOK, Quiet
<1>7. RequestOK(r)'
  BY <1>2, <1>3, <1>5, AlbumsAssumption
     DEF RequestOK, Placed, Founded, Effected, Quiet, FirstStep, Ops
<1>8. \A q \in Requests : RequestOK(q)'
  BY <1>3, <1>4, <1>7, Undisturbed
<1>9. Creators'
  <2>1. ASSUME NEW q \in Requests \ {r}, op[q] = "create", what = "create" PROVE id[q] # i
    BY <1>1, <2>1 DEF Used, IInv, RequestOK, Placed
  <2>2. QED BY <1>2, <2>1 DEF IInv, Creators
<1>10. OneHolder'
  BY <1>2, <1>3, <1>5, AlbumsAssumption DEF IInv, OneHolder, TypeOK
<1>11. QED BY <1>3, <1>6, <1>8, <1>9, <1>10 DEF IInv, Rows, Quiet, Change

\* The statements of a request.
LEMMA StatementStep ==
  ASSUME IInv, NEW r \in Requests,
         Get(r) \/ Insert(r) \/ Reread(r) \/ Write(r) \/ Confirm(r) \/ Delete(r)
           \/ Count(r) \/ Query(r)
  PROVE  IInv' /\ Change(r)
<1>0. RequestOK(r) /\ id[r] \in Ids
  BY DEF IInv, TypeOK
<1>1. CASE Get(r)
  <2>1. CASE View(r, id[r]) = NoRow
    BY <1>1, <2>1, FailKeeps DEF Get, locals
  <2>2. CASE View(r, id[r]) # NoRow
    <3>1. /\ pc[r] = "get" /\ album' = [album EXCEPT ![r] = View(r, id[r])]
          /\ NoChange /\ op' = op /\ id' = id
          /\ \/ op[r] = "get" /\ Succeed(r)
             \/ op[r] = "update" /\ To(r, "write") /\ UNCHANGED answer
             \/ op[r] = "delete" /\ To(r, "confirm") /\ UNCHANGED answer
      BY <1>0, <1>1, <2>2 DEF Get, RequestOK, Placed
    <3>2. CASE op[r] = "get"
      BY <3>1, <3>2, SucceedStep DEF NoChange, Change, Quiet
    <3>3. CASE op[r] # "get"
      BY <2>2, <3>1, <3>3, MoveStep DEF NoChange, Change, Quiet
    <3>4. QED BY <3>2, <3>3
  <2>3. QED BY <2>1, <2>2
<1>2. CASE Insert(r)
  <2>1. Fits(r)
    BY <1>2, NewFits DEF Insert
  <2>2. QED BY <1>2, <2>1, WithStep DEF Insert, With, Change, Quiet
<1>3. CASE Reread(r)
  <2>1. CASE View(r, id[r]) = NoRow
    BY <1>3, <2>1, FailKeeps DEF Reread, locals
  <2>2. CASE View(r, id[r]) # NoRow
    BY <1>3, <2>2, SucceedStep DEF Reread, NoChange, Change, Quiet
  <2>3. QED BY <2>1, <2>2
<1>4. CASE Write(r) \/ Delete(r)
  <2>1. /\ pc[r] \in {"write", "delete"} /\ ~ Locked(r) /\ Succeed(r) /\ UNCHANGED locals
        /\ IF View(r, id[r]) = NoRow THEN NoChange ELSE With(r)
    BY <1>4 DEF Write, Delete
  <2>2. CASE View(r, id[r]) = NoRow
    <3>1. id[r] \in gone
      BY <1>0, <2>1, <2>2 DEF RequestOK, Placed, Founded, View
    <3>2. QED BY <2>1, <2>2, <3>1, SucceedStep DEF NoChange, Change, Quiet, locals
  <2>3. CASE View(r, id[r]) # NoRow
    <3>1. Fits(r)
      BY <2>1, <2>3, FreeFits
    <3>2. QED BY <2>1, <2>3, <3>1, WithStep DEF With, Change, Quiet
  <2>4. QED BY <2>2, <2>3
<1>5. CASE Confirm(r)
  <2>1. CASE View(r, id[r]) = NoRow
    BY <1>5, <2>1, FailKeeps DEF Confirm
  <2>2. CASE View(r, id[r]) # NoRow
    BY <1>5, <2>2, MoveStep DEF Confirm, NoChange, Change, Quiet, locals
  <2>3. QED BY <2>1, <2>2
<1>6. CASE Count(r)
  BY <1>6, MoveStep DEF Count, NoChange, Change, Quiet
<1>7. CASE Query(r)
  BY <1>7, SucceedStep DEF Query, NoChange, Change, Quiet
<1>8. QED BY <1>1, <1>2, <1>3, <1>4, <1>5, <1>6, <1>7

-----------------------------------------------------------------------------
(* The invariant and what follows from it.                                 *)

LEMMA InvInit == ASSUME Init PROVE IInv
<1>1. /\ \A r \in Requests : pc[r] = "idle" /\ op[r] = "get" /\ album[r] = NoRow
      /\ \A r \in Requests : answer[r] = "none" /\ id[r] \in Ids
      /\ pending = {} /\ stored = {} /\ gone = {}
      /\ \A i \in Ids : rows[i] \in {Seed, NoRow}
  BY AlbumsAssumption DEF Init
<1>2. TypeOK
  BY <1>1, AlbumsAssumption DEF Init, TypeOK, PCs, Ops, Answers, Names
<1>3. \A r \in Requests : RequestOK(r)
  BY <1>1, AlbumsAssumption DEF RequestOK, Placed, Founded, Effected
<1>4. OneHolder /\ Rows /\ Creators
  BY <1>1, AlbumsAssumption DEF OneHolder, Rows, Creators
<1>5. QED BY <1>2, <1>3, <1>4 DEF IInv

LEMMA StepChanges ==
  ASSUME IInv, NEW r \in Requests,
         Arrive(r) \/ Refuse(r) \/ Step(r) \/ StatementFails(r)
  PROVE  IInv' /\ Change(r)
<1>1. CASE Arrive(r)
  BY <1>1, ArriveStep
<1>2. CASE Refuse(r) \/ StatementFails(r)
  BY <1>2, FailKeeps DEF Refuse, StatementFails
<1>3. CASE Commit(r) \/ CommitFails(r)
  BY <1>3, EndStep DEF Commit, CommitFails, Quiet, Change
<1>4. QED BY <1>1, <1>2, <1>3, StatementStep DEF Step

LEMMA InvStutter == ASSUME IInv, UNCHANGED vars PROVE IInv'
  BY DEF IInv, vars, locals, TypeOK, RequestOK, Placed, Founded, Effected, OneHolder,
         Rows, Creators

LEMMA InvInductive == Spec => []IInv
<1>1. Init => IInv
  BY InvInit
<1>2. IInv /\ [Next]_vars => IInv'
  BY StepChanges, InvStutter DEF Next, Finished
<1>3. QED BY <1>1, <1>2, PTL DEF Spec

\* Every variable keeps its type; only requests behind TransactionHandler have
\* uncommitted changes.
THEOREM TypeCorrect == Spec => []TypeOK
<1>1. IInv => TypeOK
  BY DEF IInv
<1>2. QED BY <1>1, InvInductive, PTL

\* A transaction that was answered with an error has changed nothing.
THEOREM FailuresRolledBack == Spec => []FailedLeavesNothing
<1>1. IInv => FailedLeavesNothing
  BY AlbumsAssumption DEF IInv, RequestOK, Effected, FailedLeavesNothing
<1>2. QED BY <1>1, InvInductive, PTL

\* Without a transaction, what was answered with success is in the table, or
\* its album has been deleted.
THEOREM AnswersStored == Spec => []AnsweredIsStored
<1>1. ASSUME IInv, NEW r \in Requests \ InTx, pc[r] = "done", answer[r] = "ok"
      PROVE  CASE op[r] = "create" -> r \in stored
               [] op[r] = "update" -> r \in stored \/ id[r] \in gone
               [] op[r] = "delete" -> id[r] \in gone
               [] OTHER -> r \notin stored
  <2>1. RequestOK(r)
    BY <1>1 DEF IInv
  <2>2. QED BY <1>1, <2>1 DEF RequestOK, Effected, Writes
<1>2. IInv => AnsweredIsStored
  BY <1>1 DEF AnsweredIsStored
<1>3. QED BY <1>2, InvInductive, PTL

\* No request reads the uncommitted album of another.
THEOREM CommittedRead == Spec => []ReadsCommitted
<1>1. IInv => ReadsCommitted
  BY DEF IInv, RequestOK, Effected, ReadsCommitted
<1>2. QED BY <1>1, InvInductive, PTL

-----------------------------------------------------------------------------
(* The refinement.                                                         *)

LEMMA StoreIsChange ==
  ASSUME IInv, NEW r \in Requests, Store(r), Fits(r)
  PROVE  Table!Next
<1>1. id[r] \in Ids /\ r \in Names /\ rows' = [rows EXCEPT ![id[r]] = NewRow(r)]
  BY DEF IInv, TypeOK, Store, Names
<1>2. CASE op[r] = "create"
  <2>1. Table!Insert(id[r], r)
    BY <1>1, <1>2 DEF Table!Insert, Store, Fits, NewRow
  <2>2. QED BY <1>1, <2>1 DEF Table!Next
<1>3. CASE op[r] = "update"
  <2>1. Table!Change(id[r], r)
    BY <1>1, <1>3 DEF Table!Change, Store, Fits, NewRow
  <2>2. QED BY <1>1, <2>1 DEF Table!Next
<1>4. CASE op[r] = "delete"
  <2>1. Table!Remove(id[r])
    BY <1>1, <1>4 DEF Table!Remove, Store, Fits, NewRow
  <2>2. QED BY <1>1, <2>1 DEF Table!Next
<1>5. QED BY <1>2, <1>3, <1>4 DEF Fits, Writes

\* The committed table is an album table: each step of a request is one change
\* of one album, or none.
THEOREM AlbumsImplementTable == Spec => TableSpec
<1>1. Init => Table!Init
  BY DEF Init, Table!Init, Names
<1>2. IInv /\ [Next]_vars => [Table!Next]_<<rows, gone>>
  <2>1. ASSUME IInv, NEW r \in Requests, Change(r)
        PROVE  [Table!Next]_<<rows, gone>>
    BY <2>1, StoreIsChange DEF Change, Quiet
  <2>2. UNCHANGED vars => UNCHANGED <<rows, gone>>
    BY DEF vars
  <2>3. QED BY <2>1, <2>2, StepChanges DEF Next, Finished
<1>3. QED BY <1>1, <1>2, InvInductive, PTL DEF Spec, TableSpec, Table!Spec

-----------------------------------------------------------------------------
(* Places in ORDER BY id.                                                  *)

\* Places grow with the ids, and each place from 1 to the number of albums is
\* the place of an album: there are as many different places as albums.
LEMMA RankOK ==
  ASSUME NEW S, S \subseteq Int, IsFiniteSet(S)
  PROVE  /\ \A i \in S : Rank(i, S) \in 1 .. Cardinality(S)
         /\ \A i, j \in S : i < j => Rank(i, S) < Rank(j, S)
         /\ \A k \in 1 .. Cardinality(S) : \E i \in S : Rank(i, S) = k
<1> DEFINE Below(i) == {j \in S : j <= i}
           N == Cardinality(S)
           f == [i \in S |-> Rank(i, S)]
<1>1. \A i \in S : Rank(i, S) = Cardinality(Below(i))
  BY DEF Rank
<1>2. N \in Nat
  BY FS_CardinalityType
<1>3. ASSUME NEW i \in S
      PROVE  IsFiniteSet(Below(i)) /\ Cardinality(Below(i)) \in 1 .. N
  <2>1. Below(i) \in SUBSET S /\ i \in Below(i)
    OBVIOUS
  <2> HIDE DEF Below
  <2>2. IsFiniteSet(Below(i)) /\ Cardinality(Below(i)) <= N
    BY <2>1, FS_Subset
  <2>3. Cardinality(Below(i)) \in Nat /\ Cardinality(Below(i)) # 0
    BY <2>1, <2>2, FS_CardinalityType, FS_EmptySet
  <2>4. QED BY <1>2, <2>2, <2>3
<1>4. ASSUME NEW i \in S, NEW j \in S, i < j
      PROVE  Cardinality(Below(i)) < Cardinality(Below(j))
  <2>1. Below(i) \in SUBSET Below(j) /\ j \in Below(j) /\ j \notin Below(i)
    <3>1. i \in Int /\ j \in Int /\ \A m \in S : m \in Int
      OBVIOUS
    <3>2. \A m \in S : m <= i => m <= j
      BY <1>4, <3>1
    <3>3. j <= j /\ ~ (j <= i)
      BY <1>4, <3>1
    <3>4. QED BY <3>2, <3>3
  <2> HIDE DEF Below
  <2>2. /\ Cardinality(Below(i)) <= Cardinality(Below(j))
        /\ Cardinality(Below(i)) # Cardinality(Below(j))
    BY <1>3, <2>1, FS_Subset
  <2>3. Cardinality(Below(i)) \in Int /\ Cardinality(Below(j)) \in Int
    BY <1>3
  <2>4. QED BY <2>2, <2>3
<1> HIDE DEF Below
<1>5. /\ \A i \in S : Rank(i, S) \in 1 .. N
      /\ \A i, j \in S : i < j => Rank(i, S) < Rank(j, S)
  BY <1>1, <1>3, <1>4
<1>6. f \in Injection(S, 1 .. N)
  <2>1. f \in [S -> 1 .. N]
    BY <1>5
  <2>2. ASSUME NEW i \in S, NEW j \in S, f[i] = f[j] PROVE i = j
    <3>1. Rank(i, S) = Rank(j, S) /\ Rank(i, S) \in Int /\ i \in Int /\ j \in Int
      BY <2>2, <1>5
    <3>2. QED BY <3>1, <1>5
  <2>3. QED BY <2>1, <2>2 DEF Injection, IsInjective
<1>7. IsFiniteSet(1 .. N) /\ Cardinality(1 .. N) = N
  BY <1>2, FS_Interval
<1>8. f \in Surjection(S, 1 .. N)
  BY <1>6, <1>7, FS_Injection
<1>9. \A k \in 1 .. N : \E i \in S : f[i] = k
  BY <1>8 DEF Surjection
<1>10. QED BY <1>5, <1>9

\* As many albums as a place says come up to that place.
LEMMA UpTo ==
  ASSUME NEW S, S \subseteq Int, IsFiniteSet(S), NEW k \in 0 .. Cardinality(S)
  PROVE  /\ IsFiniteSet({i \in S : Rank(i, S) <= k})
         /\ Cardinality({i \in S : Rank(i, S) <= k}) = k
<1> DEFINE T == {i \in S : Rank(i, S) <= k}
           f == [i \in T |-> Rank(i, S)]
<1>0. /\ \A i \in S : Rank(i, S) \in 1 .. Cardinality(S)
      /\ \A i, j \in S : i < j => Rank(i, S) < Rank(j, S)
      /\ \A n \in 1 .. Cardinality(S) : \E i \in S : Rank(i, S) = n
  BY RankOK
<1>1. k \in Nat /\ Cardinality(S) \in Nat
  BY FS_CardinalityType
<1>2. T \in SUBSET S /\ IsFiniteSet(T)
  <2>1. T \in SUBSET S
    OBVIOUS
  <2>2. QED BY <2>1, FS_Subset
<1>3. \A i \in T : Rank(i, S) \in 1 .. k
  BY <1>0, <1>1
<1>4. ASSUME NEW i \in T, NEW j \in T, Rank(i, S) = Rank(j, S) PROVE i = j
  <2>1. i \in S /\ j \in S /\ i \in Int /\ j \in Int /\ Rank(i, S) \in Int
    BY <1>3
  <2>2. ~ (i < j) /\ ~ (j < i)
    <3>1. Rank(i, S) < Rank(i, S) => FALSE
      BY <2>1
    <3>2. QED BY <1>0, <1>4, <2>1, <3>1
  <2>3. QED BY <2>1, <2>2
<1>5. ASSUME NEW n \in 1 .. k PROVE \E i \in T : Rank(i, S) = n
  <2>1. n \in 1 .. Cardinality(S)
    BY <1>1
  <2>2. PICK i \in S : Rank(i, S) = n
    BY <1>0, <2>1
  <2>3. QED BY <2>2
<1> HIDE DEF T
<1>6. f \in Bijection(T, 1 .. k)
  BY <1>3, <1>4, <1>5 DEF Bijection, Injection, IsInjective, Surjection
<1>7. ExistsBijection(T, 1 .. k)
  BY <1>6 DEF ExistsBijection
<1>8. Cardinality(1 .. k) = Cardinality(T)
  BY <1>2, <1>7, FS_Bijection
<1>9. Cardinality(1 .. k) = k
  BY <1>1, FS_Interval
<1>10. QED BY <1>2, <1>8, <1>9 DEF T

Shown(S, p)     == {i \in S : /\ Rank(i, S) > Offset(p)
                              /\ Rank(i, S) <= Offset(p) + Limit(p)}
Before(S, some) == {i \in S : \A j \in some : i < j}
After(S, some)  == {i \in S : \A j \in some : i > j}

\* What a list shows, if its page is of a table with as many albums.
LEMMA PageShown ==
  ASSUME NEW S, S \subseteq Int, IsFiniteSet(S),
         NEW p, PageOK(p), p.totalCount = Cardinality(S)
  PROVE  /\ Before(S, Shown(S, p)) \cup Shown(S, p) \cup After(S, Shown(S, p)) = S
         /\ S # {} => /\ Shown(S, p) # {}
                      /\ Cardinality(Before(S, Shown(S, p))) = (p.page - 1) * p.perPage
         /\ After(S, Shown(S, p)) # {} => Cardinality(Shown(S, p)) = p.perPage
<1> DEFINE N == Cardinality(S)
           o == Offset(p)
           n == p.perPage
           shown  == Shown(S, p)
           before == {i \in S : \A j \in shown : i < j}
           after  == {i \in S : \A j \in shown : i > j}
           UpToPlace(k) == {i \in S : Rank(i, S) <= k}
<1>1. /\ \A i \in S : Rank(i, S) \in 1 .. N
      /\ \A i, j \in S : i < j => Rank(i, S) < Rank(j, S)
      /\ \A k \in 1 .. N : \E i \in S : Rank(i, S) = k
  BY RankOK
<1>2. N \in Nat /\ (N = 0 => S = {}) /\ \A i \in S : i \in Int
  BY FS_CardinalityType, FS_EmptySet
<1>3. p.totalCount # Unknown
  BY <1>2 DEF Unknown
<1>4. /\ o = (p.page - 1) * p.perPage /\ o \in 0 .. N /\ (N > 0 => o < N)
      /\ n \in Nat /\ n >= 1 /\ Limit(p) = n
  BY <1>3, OffsetOK, SizesAssumption DEF PageOK, Limit
<1>s. shown = {i \in S : Rank(i, S) > o /\ Rank(i, S) <= o + n}
  BY <1>4 DEF Shown
<1> HIDE DEF N, o, n, shown
<1>5. \A i, j \in S : Rank(i, S) < Rank(j, S) => i < j
  <2>1. ASSUME NEW i \in S, NEW j \in S, Rank(i, S) < Rank(j, S) PROVE i < j
    <3>1. Rank(i, S) \in Int /\ Rank(j, S) \in Int /\ i \in Int /\ j \in Int
      BY <1>1, <1>2
    <3>2. i # j /\ ~ (j < i)
      BY <1>1, <2>1, <3>1
    <3>3. QED BY <3>1, <3>2
  <2>2. QED BY <2>1
<1>6. S # {} => \E s \in S : Rank(s, S) = o + 1 /\ s \in shown
  <2>1. SUFFICES ASSUME S # {} PROVE \E s \in S : Rank(s, S) = o + 1 /\ s \in shown
    OBVIOUS
  <2>2. N > 0
    <3>1. PICK i \in S : Rank(i, S) \in 1 .. N
      BY <1>1, <2>1
    <3>2. QED BY <1>2, <3>1
  <2>3. o + 1 \in 1 .. N
    BY <1>2, <1>4, <2>2
  <2>4. PICK s \in S : Rank(s, S) = o + 1
    BY <1>1, <2>3
  <2>5. s \in shown
    BY <1>s, <1>4, <2>4
  <2>6. QED BY <2>4, <2>5
\* Before the page are the albums up to its offset.
<1>7. S # {} => before = UpToPlace(o)
  <2>1. SUFFICES ASSUME S # {}, NEW i \in S
                 PROVE  (\A j \in shown : i < j) <=> Rank(i, S) <= o
    OBVIOUS
  <2>2. PICK s \in S : Rank(s, S) = o + 1 /\ s \in shown
    BY <1>6, <2>1
  <2>3. Rank(i, S) \in Int /\ o \in Int
    BY <1>1, <1>4
  <2>4. ASSUME Rank(i, S) <= o, NEW j \in shown PROVE i < j
    <3>1. j \in S /\ Rank(j, S) > o /\ Rank(j, S) \in Int
      BY <1>s, <1>1
    <3>2. QED BY <1>5, <2>3, <2>4, <3>1
  <2>5. ASSUME i < s PROVE Rank(i, S) <= o
    BY <1>1, <2>2, <2>3, <2>5
  <2>6. QED BY <2>2, <2>4, <2>5
<1>8. Cardinality(UpToPlace(o)) = o /\ IsFiniteSet(UpToPlace(o))
  <2>1. ASSUME NEW k \in 0 .. N
        PROVE  Cardinality(UpToPlace(k)) = k /\ IsFiniteSet(UpToPlace(k))
    BY <2>1, UpTo DEF N
  <2> HIDE DEF UpToPlace
  <2>2. QED BY <1>4, <2>1
\* Behind it are those beyond its limit.
<1>9. ASSUME NEW i \in S, Rank(i, S) > o + n PROVE i \in after
  <2>1. ASSUME NEW j \in shown PROVE i > j
    <3>1. /\ j \in S /\ Rank(j, S) <= o + n /\ Rank(j, S) \in Int /\ Rank(i, S) \in Int
          /\ j \in Int /\ i \in Int
      BY <1>s, <1>1, <1>2
    <3>2. Rank(j, S) < Rank(i, S)
      BY <1>4, <1>9, <3>1
    <3>3. QED BY <1>5, <3>1, <3>2
  <2>2. QED BY <2>1
<1>10. ASSUME NEW i \in after PROVE Rank(i, S) > o + n
  <2>1. PICK s \in S : Rank(s, S) = o + 1 /\ s \in shown
    BY <1>6
  <2>2. i \in S /\ i > s /\ i \in Int /\ s \in Int /\ Rank(i, S) \in Int
    BY <1>1, <1>2, <2>1
  <2>3. Rank(i, S) > o
    BY <1>1, <1>4, <2>1, <2>2
  <2>4. i \notin shown
    <3>1. i \in shown => i > i
      OBVIOUS
    <3>2. QED BY <2>2, <3>1
  <2>5. ~ (Rank(i, S) <= o + n)
    BY <1>s, <2>2, <2>3, <2>4
  <2>6. QED BY <1>4, <2>2, <2>5
<1>11. before \cup shown \cup after = S
  <2>1. ASSUME NEW i \in S PROVE i \in before \/ i \in shown \/ i \in after
    <3>1. Rank(i, S) \in Int /\ o \in Int /\ n \in Int /\ S # {}
      BY <1>1, <1>4
    <3>2. Rank(i, S) <= o => i \in before
      BY <1>7, <3>1
    <3>3. QED BY <1>s, <1>9, <3>1, <3>2
  <2>2. before \subseteq S /\ shown \subseteq S /\ after \subseteq S
    BY <1>s
  <2>3. QED BY <2>1, <2>2
<1>12. ASSUME after # {} PROVE Cardinality(shown) = n
  <2>1. PICK i \in S : Rank(i, S) > o + n
    BY <1>10, <1>12
  <2>2. o + n \in 0 .. N
    <3>1. Rank(i, S) \in 1 .. N /\ o \in Nat /\ n \in Nat /\ N \in Nat
      BY <1>1, <1>2, <1>4
    <3>2. QED BY <2>1, <3>1
  <2>3. Cardinality(UpToPlace(o + n)) = o + n /\ IsFiniteSet(UpToPlace(o + n))
    BY <2>2, UpTo DEF N
  <2>4. /\ UpToPlace(o) \cup shown = UpToPlace(o + n)
        /\ UpToPlace(o) \cap shown = {} /\ shown \in SUBSET S
    <3>1. ASSUME NEW j \in S
          PROVE  /\ j \in UpToPlace(o) \/ j \in shown <=> j \in UpToPlace(o + n)
                 /\ ~ (j \in UpToPlace(o) /\ j \in shown)
      <4>1. Rank(j, S) \in Int /\ o \in Int /\ n \in Int /\ n >= 1
        BY <1>1, <1>4
      <4>2. QED BY <1>s, <4>1
    <3>2. QED BY <1>s, <3>1
  <2>5. IsFiniteSet(shown) /\ Cardinality(shown) \in Nat
    BY <2>4, FS_Subset, FS_CardinalityType
  <2> HIDE DEF UpToPlace
  <2>6. Cardinality(UpToPlace(o) \cup shown) =
          Cardinality(UpToPlace(o)) + Cardinality(shown) - Cardinality(UpToPlace(o) \cap shown)
    BY <1>8, <2>5, FS_Union
  <2>7. o + n = o + Cardinality(shown) - 0
    BY <1>8, <2>3, <2>4, <2>6, FS_EmptySet
  <2>8. QED BY <1>4, <2>5, <2>7
<1>14. S # {} => shown # {} /\ Cardinality(before) = (p.page - 1) * p.perPage
  BY <1>4, <1>6, <1>7, <1>8
<1>15. QED BY <1>11, <1>12, <1>14 DEF n, shown, Before, After

\* The Pages that a request keeps between its two statements are those of a
\* table whose albums were counted.
Counted ==
  {p \in [page : 1 .. MaxInt, perPage : 1 .. MaxPageSize, pageCount : Totals,
          totalCount : Totals] : PageOK(p) /\ p.totalCount # Unknown}

PagesOK == pages \in [Requests -> Counted]

LEMMA NoPagesOK == NoPages \in Counted
<1>1. 1 \in Ints /\ 0 \in Totals /\ Unknown # 0
  BY SizesAssumption DEF Ints, Totals, Unknown
<1>2. PageOK(New(1, 1, 0)) /\ New(1, 1, 0).totalCount = 0
  BY <1>1, NewOK
<1>3. New(1, 1, 0) \in [page : 1 .. MaxInt, perPage : 1 .. MaxPageSize,
                        pageCount : Totals, totalCount : Totals]
  BY <1>2, PageType
<1>4. QED BY <1>1, <1>2, <1>3 DEF NoPages, Counted

LEMMA PresentOK ==
  ASSUME NEW r \in Requests
  PROVE  /\ Present(r) \subseteq Int /\ IsFiniteSet(Present(r))
         /\ Cardinality(Present(r)) \in Totals /\ Cardinality(Present(r)) # Unknown
<1>1. /\ Present(r) \in SUBSET Ids /\ Ids \subseteq Int /\ IsFiniteSet(Ids)
      /\ Cardinality(Ids) <= MaxTotal
  BY AlbumsAssumption DEF Present
<1>2. /\ IsFiniteSet(Present(r)) /\ Cardinality(Present(r)) <= Cardinality(Ids)
      /\ Cardinality(Present(r)) \in Nat /\ Cardinality(Ids) \in Nat
  BY <1>1, FS_Subset, FS_CardinalityType
<1>3. /\ Cardinality(Present(r)) >= 0 /\ Cardinality(Present(r)) <= MaxTotal
      /\ Cardinality(Present(r)) \in Int
  BY <1>1, <1>2, SizesAssumption
<1>4. \A n \in Int : n >= 0 /\ n <= MaxTotal => n \in Totals /\ n # Unknown
  BY SizesAssumption DEF Totals, Unknown
<1>5. QED BY <1>1, <1>2, <1>3, <1>4

LEMMA PagesKept == Spec => []PagesOK
<1>1. Init => PagesOK
  BY NoPagesOK DEF Init, PagesOK
<1>2. ASSUME PagesOK, NEW r \in Requests,
             Arrive(r) \/ Refuse(r) \/ Step(r) \/ StatementFails(r)
      PROVE  PagesOK'
  <2>1. CASE Count(r)
    <3>1. PICK query \in ListQueries :
            pages' = [pages EXCEPT ![r] = NewFromRequest(query, Cardinality(Present(r)))]
      BY <2>1 DEF Count
    <3>2. query \in Queries
      BY AlbumsAssumption
    <3>3. NewFromRequest(query, Cardinality(Present(r))) \in Counted
      BY <3>2, PresentOK, FromRequestOK, PageType DEF Counted
    <3>4. QED BY <1>2, <3>1, <3>3 DEF PagesOK
  <2>2. CASE Query(r)
    BY <1>2, <2>2, NoPagesOK DEF PagesOK, Query
  <2>3. CASE ~ Count(r) /\ ~ Query(r)
    <3>1. pages' = pages
      BY <1>2, <2>3 DEF Arrive, Refuse, StatementFails, Step, Get, Insert, Reread, Write,
                        Confirm, Delete, Commit, CommitFails, locals
    <3>2. QED BY <1>2, <3>1 DEF PagesOK
  <2>4. QED BY <2>1, <2>2, <2>3
<1>3. PagesOK /\ UNCHANGED vars => PagesOK'
  BY DEF PagesOK, vars, locals
<1>4. PagesOK /\ [Next]_vars => PagesOK'
  BY <1>2, <1>3 DEF Next, Finished
<1>5. QED BY <1>1, <1>4, PTL DEF Spec

\* If the table has as many albums at SELECT as it had at COUNT, a list is the
\* albums of its page: those before it fill the pages before this one, and it is
\* full unless it is the last.
THEOREM PagesSteady == Spec => SteadyPage
<1>1. ASSUME PagesOK, NEW r \in Requests, Cardinality(Present(r)) = pages[r].totalCount
      PROVE  ShowsItsPage(r)
  <2> DEFINE p == pages[r]
             S == Present(r)
  <2>1. PageOK(p) /\ p.totalCount = Cardinality(S)
    BY <1>1 DEF PagesOK, Counted
  <2>2. S \subseteq Int /\ IsFiniteSet(S)
    BY PresentOK
  <2>3. Items(r) = Shown(S, p)
    BY DEF Items, Shown
  <2> HIDE DEF p, S
  <2>4. /\ Before(S, Shown(S, p)) \cup Shown(S, p) \cup After(S, Shown(S, p)) = S
        /\ S # {} => /\ Shown(S, p) # {}
                     /\ Cardinality(Before(S, Shown(S, p))) = (p.page - 1) * p.perPage
        /\ After(S, Shown(S, p)) # {} => Cardinality(Shown(S, p)) = p.perPage
    BY <2>1, <2>2, PageShown
  <2>5. QED BY <2>3, <2>4 DEF ShowsItsPage, Before, After, p, S
<1>2. PagesOK => \A r \in Requests :
        Query(r) /\ Cardinality(Present(r)) = pages[r].totalCount => ShowsItsPage(r)
  BY <1>1
<1>3. QED BY <1>2, PagesKept, PTL DEF SteadyPage

=============================================================================
