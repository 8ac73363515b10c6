----------------------------- MODULE TokenBucket ----------------------------
(***************************************************************************)
(* What the rate limiter promises: every address has one token bucket for  *)
(* as long as the process lives.  It starts full, refills by one unit with *)
(* every tick up to Cap units, and a request is admitted only in exchange  *)
(* for Cost units of its address.  There is no table here, no eviction, no *)
(* locking and no request that waits between two steps.                    *)
(***************************************************************************)
EXTENDS Integers

CONSTANTS IPs,       \* client addresses
          Requests,  \* request goroutines
          NoIP,      \* no address: that of a request that is not admitted
          Cap,       \* units in a full bucket, a natural number
          Cost       \* units of one admission, a natural number

VARIABLES
  level,     \* units in the bucket of every address
  admitted,  \* the address of every request that has been admitted
  fresh      \* no request has asked for a bucket since the process started

vars == <<level, admitted, fresh>>

Fill(units) == IF units < Cap THEN units ELSE Cap

TypeOK ==
  /\ level \in [IPs -> 0 .. Cap]
  /\ admitted \in [Requests -> IPs \cup {NoIP}]
  /\ fresh \in BOOLEAN

Full   == [ip \in IPs |-> Cap]
Nobody == [r \in Requests |-> NoIP]

Init == level = Full /\ admitted = Nobody /\ fresh = TRUE

Refill ==
  /\ level' = [ip \in IPs |-> Fill(level[ip] + 1)]
  /\ UNCHANGED <<admitted, fresh>>

\* The first request asks for its bucket.
Open ==
  /\ fresh' = FALSE
  /\ UNCHANGED <<level, admitted>>

Admit(r, ip) ==
  /\ ~ fresh
  /\ admitted[r] = NoIP
  /\ level[ip] >= Cost
  /\ level' = [level EXCEPT ![ip] = @ - Cost]
  /\ admitted' = [admitted EXCEPT ![r] = ip]
  /\ UNCHANGED fresh

\* An admitted request has been handled.
Leave(r) ==
  /\ admitted' = [admitted EXCEPT ![r] = NoIP]
  /\ UNCHANGED <<level, fresh>>

\* A new process has new buckets, and has served nobody yet.
Restart == level' = Full /\ admitted' = Nobody /\ fresh' = TRUE

Next ==
  \/ Refill \/ Open \/ Restart
  \/ \E r \in Requests : Leave(r) \/ \E ip \in IPs : Admit(r, ip)

Spec == Init /\ [][Next]_vars

=============================================================================
