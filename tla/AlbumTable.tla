----------------------------- MODULE AlbumTable -----------------------------
(***************************************************************************)
(* What the album endpoints promise of the table: an album appears once,   *)
(* changes only while it is there, and stays away once it is deleted.      *)
(* There are no requests here, no statements and no transactions.          *)
(***************************************************************************)
CONSTANTS Ids,    \* identifiers of albums
          Names,  \* what a client may call an album
          NoRow   \* the album is not in the table

VARIABLES
  rows,  \* the name of every album, or NoRow
  gone   \* albums that have been deleted

Init == rows \in [Ids -> Names \cup {NoRow}] /\ gone = {}

Insert(i, name) ==
  /\ rows[i] = NoRow /\ i \notin gone
  /\ rows' = [rows EXCEPT ![i] = name]
  /\ UNCHANGED gone

Change(i, name) ==
  /\ rows[i] # NoRow
  /\ rows' = [rows EXCEPT ![i] = name]
  /\ UNCHANGED gone

Remove(i) ==
  /\ rows[i] # NoRow
  /\ rows' = [rows EXCEPT ![i] = NoRow]
  /\ gone' = gone \cup {i}

Next ==
  \E i \in Ids : Remove(i) \/ \E name \in Names : Insert(i, name) \/ Change(i, name)

Spec == Init /\ [][Next]_<<rows, gone>>

=============================================================================
