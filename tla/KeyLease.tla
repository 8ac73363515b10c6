------------------------------ MODULE KeyLease ------------------------------
(***************************************************************************)
(* What the pool of Gemini API keys promises, without its channel, its     *)
(* retries or its model calls: at any moment a key is free, leased to one  *)
(* request that uses no other key, or lost until the process restarts.     *)
(* Only a request of MayLose can lose a key.                               *)
(***************************************************************************)
EXTENDS Naturals

CONSTANTS Keys,       \* the entries of GEMINI_API_KEYS_POOL
          Requests,   \* the request handlers that lease keys
          MayLose     \* those of them that can die without returning a key

VARIABLE lease        \* for every key: Free, Lost, or the request that has it

Free == "free"
Lost == "lost"

TypeOK == lease \in [Keys -> Requests \cup {Free, Lost}]

Init == lease = [k \in Keys |-> Free]

\* A request that has no key takes a free one.
Take(r, k) ==
  /\ lease[k] = Free
  /\ \A other \in Keys : lease[other] # r
  /\ lease' = [lease EXCEPT ![k] = r]

\* A request gives its key back.
GiveBack(r, k) ==
  /\ lease[k] = r
  /\ lease' = [lease EXCEPT ![k] = Free]

\* A request ends without giving its key back.
Lose(r, k) ==
  /\ r \in MayLose
  /\ lease[k] = r
  /\ lease' = [lease EXCEPT ![k] = Lost]

\* The process ends; the next one reads every key from the environment again.
Restart == lease' = [k \in Keys |-> Free]

Next ==
  \/ \E r \in Requests, k \in Keys : Take(r, k) \/ GiveBack(r, k) \/ Lose(r, k)
  \/ Restart

Spec == Init /\ [][Next]_lease

=============================================================================
