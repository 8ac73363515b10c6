----------------------------- MODULE RateWindow -----------------------------
(***************************************************************************)
(* The rate limiter as a client or an operator measures it: somebody opens *)
(* a window of time, at any moment, and counts how many requests of each   *)
(* address limiter.Allow() lets through from then on.  The observer only   *)
(* looks; the steps of RateLimiter are as they were.  The window closes    *)
(* with the process, whose successor has new buckets, and may be opened    *)
(* again.                                                                  *)
(***************************************************************************)
EXTENDS RateLimiter

VARIABLES
  opened,     \* when the window was opened, or Never
  admissions  \* requests of every address let through since then

window == <<opened, admissions>>

Nothing == [a \in IPs |-> 0]

WindowInit == Init /\ opened = Never /\ admissions = Nothing

OpenWindow ==
  /\ opened = Never
  /\ opened' = clock
  /\ UNCHANGED <<vars, admissions>>

\* In this step the limiter gives a request of the address a token.
LetThrough(a) ==
  \E r \in Requests : ip[r] = a /\ pc[r] = "allow" /\ pc'[r] = "next"

\* A step of the living process is looked at.
Watch ==
  /\ Sweep \/ Tick \/ \E r \in Requests : Middleware(r)
  /\ admissions' = [a \in IPs |-> IF opened # Never /\ LetThrough(a)
                                  THEN admissions[a] + 1 ELSE admissions[a]]
  /\ UNCHANGED opened

\* The process ends.
WindowCloses ==
  /\ \E r \in Requests : MapFault(r)
  /\ opened' = Never /\ admissions' = Nothing

WindowNext == OpenWindow \/ Watch \/ WindowCloses

WindowSpec == WindowInit /\ [][WindowNext]_<<vars, window>>

-----------------------------------------------------------------------------
(* Properties.                                                             *)

\* rate.Every(10*time.Second) and a burst of 2: of one address, the limiter
\* lets at most Burst requests through in any window of time, and one more for
\* every full Period of it, whatever requests wait between the lookup of their
\* limiter and its use, and however often the visitor is forgotten and comes
\* back in the meantime.
RateBounded ==
  opened # Never =>
    \A a \in IPs : admissions[a] <= Burst + (clock - opened) \div Period

=============================================================================
