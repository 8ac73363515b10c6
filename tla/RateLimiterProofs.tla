------------------------- MODULE RateLimiterProofs --------------------------
(***************************************************************************)
(* Proofs about RateLimiter for every number of addresses and requests and *)
(* for every choice of the durations that meets its assumptions.           *)
(***************************************************************************)
EXTENDS RateLimiter, SequenceTheorems, TLAPS

LEMMA Constants ==
  /\ Period \in Nat \ {0}
  /\ Cap \in Nat
  /\ BlockedDuration \in Nat /\ SweepEvery \in Nat \ {0}
  /\ IdleTimeout \in Nat /\ MaxLatency \in Nat /\ MaxClock \in Nat
  /\ MaxLatency <= BlockedDuration
  /\ Cap + MaxLatency <= IdleTimeout
  /\ 0 \in Time
<1>1. Cap \in Nat
  BY BucketAssumption DEF Cap
<1> QED
  BY <1>1, BucketAssumption, SweepAssumption, BoundsAssumption,
     LatencyAssumption, IdleAssumption DEF Cap, Time

-----------------------------------------------------------------------------
(* Type correctness.                                                       *)

\* A request that is about to ask a limiter has one.
HasLimiter == \A r \in Requests : pc[r] = "allow" => limiter[r] # NoLimiter

TypeInv == TypeOK /\ HasLimiter

LEMMA TypeInit == Init => TypeInv
<1> SUFFICES ASSUME Init PROVE TypeInv
  OBVIOUS
<1>1. limiters \in Seq(Nat) /\ Len(limiters) = 0
  BY EmptySeq DEF Init
<1> QED
  BY <1>1, Constants
     DEF Init, TypeInv, TypeOK, HasLimiter, PCs, Inside, Never, NoLimiter

LEMMA TypeStep == TypeInv /\ [Next]_vars => TypeInv'
<1> SUFFICES ASSUME TypeInv, [Next]_vars PROVE TypeInv'
  OBVIOUS
<1>0. Len(limiters) \in Nat /\ 0 \in 0 .. Len(limiters)
  BY LenProperties DEF TypeInv, TypeOK
<1> USE <1>0, Constants
    DEF TypeInv, TypeOK, HasLimiter, PCs, Inside, Never, NoLimiter, tables,
        request, To, Return, Block
<1>1. ASSUME NEW r \in Requests, NEW a \in IPs, Arrive(r, a) PROVE TypeInv'
  BY <1>1 DEF Arrive
<1>2. ASSUME NEW r \in Requests, Reinstate(r) PROVE TypeInv'
  BY <1>2 DEF Reinstate
<1>3. ASSUME NEW r \in Requests, CheckOverflow(r) PROVE TypeInv'
  BY <1>3 DEF CheckOverflow
<1>4. ASSUME NEW r \in Requests, Mark(r) PROVE TypeInv'
  BY <1>4 DEF Mark
<1>5. ASSUME NEW r \in Requests, StillBlocked(r) PROVE TypeInv'
  BY <1>5 DEF StillBlocked
<1>6. ASSUME NEW r \in Requests, KnownVisitor(r) PROVE TypeInv'
  BY <1>6 DEF KnownVisitor
<1>7. ASSUME NEW r \in Requests, NewVisitor(r) PROVE TypeInv'
  <2>1. /\ clock \in Nat
        /\ limiters' \in Seq(Nat)
        /\ Len(limiters') = Len(limiters) + 1
    BY <1>7, AppendProperties DEF NewVisitor, Time
  <2>2. /\ 0 .. Len(limiters) \subseteq 0 .. Len(limiters')
        /\ Len(limiters) + 1 \in 0 .. Len(limiters')
    BY <2>1
  <2> QED
    BY <1>7, <2>1, <2>2 DEF NewVisitor
<1>8. ASSUME NEW r \in Requests, Allow(r) PROVE TypeInv'
  <2>1. limiter[r] \in 1 .. Len(limiters) /\ limiters[limiter[r]] \in Nat
    BY <1>8, LenProperties DEF Allow
  <2>2. Later(limiters[limiter[r]], clock) + Period \in Nat
    BY <2>1 DEF Later, Time
  <2>3. limiters' \in Seq(Nat) /\ Len(limiters') = Len(limiters)
    BY <1>8, <2>1, <2>2, ExceptSeq DEF Allow
  <2> QED
    BY <1>8, <2>3 DEF Allow
<1>9. ASSUME NEW r \in Requests, Exceeded(r) PROVE TypeInv'
  BY <1>9 DEF Exceeded
<1>10. ASSUME NEW r \in Requests, Refuse(r) PROVE TypeInv'
  BY <1>10 DEF Refuse
<1>11. ASSUME NEW r \in Requests, Handled(r) PROVE TypeInv'
  BY <1>11 DEF Handled
<1>12. CASE Sweep
  BY <1>12 DEF Sweep, Time
<1>13. CASE Tick
  BY <1>13 DEF Tick, Time
<1>14. ASSUME NEW r \in Requests, MapFault(r) PROVE TypeInv'
  <2>1. limiters' \in Seq(Nat) /\ Len(limiters') = 0
    BY <1>14, EmptySeq DEF MapFault
  <2>2. nextSweep' \in Nat
    BY <1>14 DEF MapFault, Time
  <2> QED
    BY <1>14, <2>1, <2>2 DEF MapFault
<1>15. CASE UNCHANGED vars
  BY <1>15 DEF vars
<1> QED
  BY <1>1, <1>2, <1>3, <1>4, <1>5, <1>6, <1>7, <1>8, <1>9, <1>10, <1>11, <1>12,
     <1>13, <1>14, <1>15 DEF Next, Middleware

\* Every variable keeps its type; every stored limiter is one that exists.
THEOREM TypeCorrect == Spec => []TypeOK
<1>1. TypeInv => TypeOK
  BY DEF TypeInv
<1> QED
  BY <1>1, TypeInit, TypeStep, PTL DEF Spec

-----------------------------------------------------------------------------
(* The table of blocked addresses.                                         *)

\* The sweeper is on time.
SweeperOK == clock <= nextSweep /\ nextSweep <= clock + SweepEvery

\* The time a request goes on with is at most MaxLatency old.
SeenOK ==
  \A r \in Requests :
    pc[r] \in Inside => seen[r] <= clock /\ clock <= seen[r] + MaxLatency

\* No block was older than BlockedDuration when the last sweep ended.
BlockOK ==
  \A a \in IPs : blocked[a] # Never =>
    /\ blocked[a] <= clock
    /\ nextSweep <= blocked[a] + BlockedDuration + SweepEvery

\* A recent 429 has its entry, whose time is at most MaxLatency earlier.
RefusedOK ==
  \A a \in IPs : refusedAt[a] # Never =>
    /\ refusedAt[a] <= clock
    /\ clock + MaxLatency <= refusedAt[a] + BlockedDuration =>
         blocked[a] # Never /\ refusedAt[a] <= blocked[a] + MaxLatency

BlockInv == TypeInv /\ SweeperOK /\ SeenOK /\ BlockOK /\ RefusedOK

LEMMA BlockInit == Init => BlockInv
<1> SUFFICES ASSUME Init PROVE BlockInv
  OBVIOUS
<1>1. SweeperOK /\ SeenOK /\ BlockOK /\ RefusedOK
  BY Constants DEF Init, SweeperOK, SeenOK, BlockOK, RefusedOK, Inside
<1> QED
  BY <1>1, TypeInit DEF BlockInv

\* Nothing that the invariant is about changes, except that requests move on
\* within the middleware or leave it.
BlockQuiet ==
  /\ UNCHANGED <<clock, nextSweep, blocked, refusedAt>>
  /\ \A r \in Requests : pc'[r] \in Inside => pc[r] \in Inside /\ seen'[r] = seen[r]

LEMMA BlockStep == BlockInv /\ [Next]_vars => BlockInv'
<1> SUFFICES ASSUME BlockInv, [Next]_vars
             PROVE  SweeperOK' /\ SeenOK' /\ BlockOK' /\ RefusedOK'
  BY TypeStep DEF BlockInv
<1>1. /\ clock \in Nat /\ nextSweep \in Nat
      /\ pc \in [Requests -> PCs] /\ seen \in [Requests -> Nat]
      /\ blocked \in [IPs -> Nat \cup {Never}]
      /\ refusedAt \in [IPs -> Nat \cup {Never}]
      /\ \A r \in Requests : pc[r] # "idle" => ip[r] \in IPs
  BY DEF BlockInv, TypeInv, TypeOK, Time
<1>2. SweeperOK /\ SeenOK /\ BlockOK /\ RefusedOK
  BY DEF BlockInv
<1> USE <1>1, <1>2, Constants DEF Never
<1>3. ASSUME BlockQuiet PROVE SweeperOK' /\ SeenOK' /\ BlockOK' /\ RefusedOK'
  BY <1>3 DEF BlockQuiet, SweeperOK, SeenOK, BlockOK, RefusedOK
\* The table changes for the address of r only, to a time that is at most
\* MaxLatency old.
<1>4. ASSUME NEW r \in Requests, pc[r] \in Inside, NEW t \in Nat,
             t \in {clock, seen[r]},
             blocked' = [blocked EXCEPT ![ip[r]] = t],
             \/ refusedAt' = refusedAt
             \/ refusedAt' = [refusedAt EXCEPT ![ip[r]] = clock],
             UNCHANGED <<clock, nextSweep>>
      PROVE  SweeperOK' /\ BlockOK' /\ RefusedOK'
  <2>1. ip[r] \in IPs /\ t <= clock /\ clock <= t + MaxLatency
    BY <1>4 DEF SeenOK, Inside
  <2>2. SweeperOK'
    BY <1>4 DEF SweeperOK
  <2>3. BlockOK'
    BY <1>4, <2>1 DEF BlockOK, SweeperOK
  <2>4. RefusedOK'
    BY <1>4, <2>1 DEF RefusedOK
  <2> QED
    BY <2>2, <2>3, <2>4
<1>5. ASSUME NEW r \in Requests, Reinstate(r) \/ Refuse(r)
      PROVE  SweeperOK' /\ SeenOK' /\ BlockOK' /\ RefusedOK'
  <2>1. /\ pc[r] \in Inside
        /\ blocked' = [blocked EXCEPT ![ip[r]] = seen[r]]
        /\ refusedAt' = [refusedAt EXCEPT ![ip[r]] = clock]
        /\ UNCHANGED <<clock, nextSweep>>
    BY <1>5 DEF Reinstate, Refuse, Block, Inside
  <2>2. SeenOK'
    BY <1>5 DEF Reinstate, Refuse, Return, To, SeenOK, Inside
  <2> QED
    BY <1>4, <2>1, <2>2
<1>6. ASSUME NEW r \in Requests, Mark(r)
      PROVE  SweeperOK' /\ SeenOK' /\ BlockOK' /\ RefusedOK'
  <2>1. /\ pc[r] \in Inside
        /\ blocked' = [blocked EXCEPT ![ip[r]] = clock]
        /\ UNCHANGED <<clock, nextSweep, refusedAt>>
    BY <1>6 DEF Mark, Inside
  <2>2. SeenOK'
    BY <1>6 DEF Mark, To, request, SeenOK, Inside
  <2> QED
    BY <1>4, <2>1, <2>2
<1>7. ASSUME NEW r \in Requests, NEW a \in IPs, Arrive(r, a)
      PROVE  SweeperOK' /\ SeenOK' /\ BlockOK' /\ RefusedOK'
  BY <1>7 DEF Arrive, To, tables, SweeperOK, SeenOK, BlockOK, RefusedOK
<1>8. ASSUME NEW r \in Requests,
             \/ CheckOverflow(r) \/ StillBlocked(r) \/ KnownVisitor(r)
             \/ NewVisitor(r) \/ Allow(r) \/ Exceeded(r) \/ Handled(r)
      PROVE  BlockQuiet
  BY <1>8 DEF CheckOverflow, StillBlocked, KnownVisitor, NewVisitor, Allow,
              Exceeded, Handled, Return, To, tables, request, BlockQuiet, Inside
<1>9. CASE Sweep
  <2>1. /\ clock = nextSweep /\ clock' = clock /\ nextSweep' = clock + SweepEvery
        /\ refusedAt' = refusedAt
        /\ UNCHANGED <<pc, seen>>
        /\ \A a \in IPs : blocked'[a] = IF Expired(a) THEN Never ELSE blocked[a]
    BY <1>9 DEF Sweep, request
  <2>2. SweeperOK' /\ SeenOK'
    BY <2>1 DEF SweeperOK, SeenOK
  <2>3. BlockOK'
    BY <2>1 DEF BlockOK, Expired
  <2>4. RefusedOK'
    BY <2>1 DEF RefusedOK, Expired
  <2> QED
    BY <2>2, <2>3, <2>4
<1>10. CASE Tick
  BY <1>10 DEF Tick, tables, request, SweeperOK, SeenOK, BlockOK, RefusedOK
<1>11. ASSUME NEW r \in Requests, MapFault(r)
       PROVE  SweeperOK' /\ SeenOK' /\ BlockOK' /\ RefusedOK'
  BY <1>11 DEF MapFault, SweeperOK, SeenOK, BlockOK, RefusedOK, Inside
<1>12. CASE UNCHANGED vars
  BY <1>3, <1>12 DEF vars, BlockQuiet
<1> QED
  BY <1>3, <1>5, <1>6, <1>7, <1>8, <1>9, <1>10, <1>11, <1>12
     DEF Next, Middleware

LEMMA BlockInvariant == Spec => []BlockInv
  BY BlockInit, BlockStep, PTL DEF Spec

\* No block outlives BlockedDuration + SweepEvery, the 30 seconds that the
\* answer 429 asks the client to wait.
THEOREM BlocksEnd == Spec => []BlockEndsInTime
<1>1. BlockInv => BlockEndsInTime
  BY Constants
     DEF BlockInv, SweeperOK, BlockOK, BlockEndsInTime, TypeInv, TypeOK, Time, Never
<1> QED
  BY <1>1, BlockInvariant, PTL

\* A refused address stays in the table for BlockedDuration, less the latency
\* of one request.
THEOREM RefusedStaysOut == Spec => []Lockout
<1>1. BlockInv => Lockout
  BY DEF BlockInv, RefusedOK, Lockout
<1> QED
  BY <1>1, BlockInvariant, PTL

-----------------------------------------------------------------------------
(* The limiters.                                                           *)

\* A request that has taken its limiter has refreshed its visitor, and the
\* visitor still has that limiter.
FlightOK ==
  \A r \in Requests : pc[r] = "allow" =>
    visitor[ip[r]] = limiter[r] /\ seen[r] <= lastSeen[ip[r]]

\* Different visitors have different limiters.
DistinctOK ==
  \A a, b \in IPs : visitor[a] = visitor[b] /\ visitor[a] # NoLimiter => a = b

\* A bucket has at least no units, and is full once its visitor is inactive.
FillOK ==
  \A a \in IPs : visitor[a] # NoLimiter =>
    /\ lastSeen[a] <= clock
    /\ limiters[visitor[a]] <= clock + Cap
    /\ limiters[visitor[a]] <= lastSeen[a] + MaxLatency + Cap

VisitorInv == BlockInv /\ FlightOK /\ DistinctOK /\ FillOK

LEMMA VisitorInit == Init => VisitorInv
<1> SUFFICES ASSUME Init PROVE FlightOK /\ DistinctOK /\ FillOK
  BY BlockInit DEF VisitorInv
<1> QED
  BY DEF Init, FlightOK, DistinctOK, FillOK

\* The table and the limiters stay as they are, and no request comes to ask a
\* limiter.
VisitorQuiet ==
  /\ UNCHANGED <<visitor, lastSeen, limiters, clock>>
  /\ \A r \in Requests : pc'[r] = "allow" =>
       /\ pc[r] = "allow"
       /\ ip'[r] = ip[r] /\ seen'[r] = seen[r] /\ limiter'[r] = limiter[r]

LEMMA VisitorStep == VisitorInv /\ [Next]_vars => VisitorInv'
<1> SUFFICES ASSUME VisitorInv, [Next]_vars
             PROVE  FlightOK' /\ DistinctOK' /\ FillOK'
  BY BlockStep DEF VisitorInv
<1>1. /\ clock \in Nat /\ Len(limiters) \in Nat
      /\ limiters \in Seq(Nat)
      /\ pc \in [Requests -> PCs] /\ seen \in [Requests -> Nat]
      /\ ip \in [Requests -> IPs \cup {NoIP}]
      /\ \A r \in Requests : pc[r] # "idle" => ip[r] \in IPs
      /\ visitor \in [IPs -> 0 .. Len(limiters)]
      /\ limiter \in [Requests -> 0 .. Len(limiters)]
      /\ lastSeen \in [IPs -> Nat]
      /\ \A r \in Requests : pc[r] = "allow" => limiter[r] # NoLimiter
  BY LenProperties
     DEF VisitorInv, BlockInv, TypeInv, TypeOK, HasLimiter, Time
<1>2. FlightOK /\ DistinctOK /\ FillOK /\ SeenOK
  BY DEF VisitorInv, BlockInv
<1>3. \A n \in 0 .. Len(limiters) : n # NoLimiter => limiters[n] \in Nat
  BY <1>1, LenProperties DEF NoLimiter
<1> USE <1>1, <1>2, Constants DEF NoLimiter
<1>4. ASSUME VisitorQuiet PROVE FlightOK' /\ DistinctOK' /\ FillOK'
  BY <1>4 DEF VisitorQuiet, FlightOK, DistinctOK, FillOK
<1>5. ASSUME NEW r \in Requests,
             \/ \E a \in IPs : Arrive(r, a)
             \/ Reinstate(r) \/ CheckOverflow(r) \/ Mark(r) \/ StillBlocked(r)
             \/ Exceeded(r) \/ Refuse(r) \/ Handled(r)
      PROVE  VisitorQuiet
  BY <1>5 DEF Arrive, Reinstate, CheckOverflow, Mark, StillBlocked, Exceeded,
              Refuse, Handled, Block, Return, To, tables, request, VisitorQuiet
<1>6. ASSUME NEW r \in Requests, KnownVisitor(r)
      PROVE  FlightOK' /\ DistinctOK' /\ FillOK'
  <2>1. /\ pc[r] = "limiter" /\ ip[r] \in IPs /\ visitor[ip[r]] # NoLimiter
        /\ lastSeen' = [lastSeen EXCEPT ![ip[r]] = clock]
        /\ limiter' = [limiter EXCEPT ![r] = visitor[ip[r]]]
        /\ pc' = [pc EXCEPT ![r] = "allow"]
        /\ UNCHANGED <<clock, visitor, limiters, ip, seen>>
        /\ seen[r] <= clock
    BY <1>6 DEF KnownVisitor, To, SeenOK, Inside
  <2>2. \A a \in IPs : visitor[a] # NoLimiter =>
          lastSeen[a] <= lastSeen'[a] /\ lastSeen'[a] <= clock
    BY <2>1 DEF FillOK
  <2>3. FlightOK'
    BY <2>1, <2>2 DEF FlightOK
  <2>4. DistinctOK'
    BY <2>1 DEF DistinctOK
  <2>5. ASSUME NEW a \in IPs, visitor'[a] # NoLimiter
        PROVE  /\ lastSeen'[a] <= clock'
               /\ limiters'[visitor'[a]] <= clock' + Cap
               /\ limiters'[visitor'[a]] <= lastSeen'[a] + MaxLatency + Cap
    <3>1. visitor[a] # NoLimiter /\ visitor[a] \in 0 .. Len(limiters)
      BY <2>1, <2>5
    <3>2. limiters[visitor[a]] \in Nat /\ lastSeen[a] \in Nat
      BY <1>3, <3>1
    <3>3. lastSeen'[a] \in Nat
      BY <2>1
    <3>4. /\ lastSeen[a] <= lastSeen'[a] /\ lastSeen'[a] <= clock
          /\ limiters[visitor[a]] <= clock + Cap
          /\ limiters[visitor[a]] <= lastSeen[a] + MaxLatency + Cap
      BY <2>2, <3>1 DEF FillOK
    <3> HIDE <1>1, <1>2
    <3> QED
      BY <2>1, <3>2, <3>3, <3>4
  <2>6. FillOK'
    BY <2>5 DEF FillOK
  <2> QED
    BY <2>3, <2>4, <2>6
<1>7. ASSUME NEW r \in Requests, NewVisitor(r)
      PROVE  FlightOK' /\ DistinctOK' /\ FillOK'
  <2>1. /\ pc[r] = "limiter" /\ ip[r] \in IPs /\ visitor[ip[r]] = NoLimiter
        /\ lastSeen' = [lastSeen EXCEPT ![ip[r]] = clock]
        /\ visitor' = [visitor EXCEPT ![ip[r]] = Len(limiters) + 1]
        /\ limiter' = [limiter EXCEPT ![r] = Len(limiters) + 1]
        /\ limiters' = Append(limiters, clock)
        /\ pc' = [pc EXCEPT ![r] = "allow"]
        /\ UNCHANGED <<clock, ip, seen>>
        /\ seen[r] <= clock
    BY <1>7 DEF NewVisitor, To, SeenOK, Inside
  <2>2. /\ limiters'[Len(limiters) + 1] = clock
        /\ \A n \in 1 .. Len(limiters) : limiters'[n] = limiters[n]
    BY <2>1, AppendProperties
  \* No other request is about to ask a limiter of this address.
  <2>3. \A s \in Requests : pc[s] = "allow" => ip[s] # ip[r]
    BY <2>1 DEF FlightOK
  <2>4. FlightOK'
    BY <2>1, <2>3 DEF FlightOK
  <2>5. DistinctOK'
    BY <2>1 DEF DistinctOK
  <2>6. FillOK'
    BY <2>1, <2>2 DEF FillOK
  <2> QED
    BY <2>4, <2>5, <2>6
<1>8. ASSUME NEW r \in Requests, Allow(r)
      PROVE  FlightOK' /\ DistinctOK' /\ FillOK'
  <2> DEFINE n == limiter[r]
             t == Later(limiters[n], clock) + Period
  <2>1. /\ pc[r] = "allow" /\ ip[r] \in IPs
        /\ Units(n) >= Period
        /\ limiters' = [limiters EXCEPT ![n] = t]
        /\ pc' = [pc EXCEPT ![r] = "next"]
        /\ UNCHANGED <<clock, visitor, lastSeen, ip, seen, limiter>>
    BY <1>8 DEF Allow, To, request
  <2>2. /\ n \in 1 .. Len(limiters) /\ limiters[n] \in Nat
        /\ visitor[ip[r]] = n
        /\ clock <= lastSeen[ip[r]] + MaxLatency
    BY <1>3, <2>1 DEF FlightOK, SeenOK, Inside
  <2>3. t \in Int /\ t <= clock + Cap
    BY <2>1, <2>2, SMTT(30) DEF Units, Later
  <2> HIDE DEF t
  <2>4. /\ limiters'[n] = t
        /\ \A m \in 1 .. Len(limiters) : m # n => limiters'[m] = limiters[m]
    BY <2>1, <2>2, LenProperties
  <2>5. FlightOK' /\ DistinctOK'
    BY <2>1 DEF FlightOK, DistinctOK
  <2>6. ASSUME NEW a \in IPs, visitor[a] # NoLimiter
        PROVE  /\ limiters'[visitor[a]] <= clock + Cap
               /\ limiters'[visitor[a]] <= lastSeen[a] + MaxLatency + Cap
    <3>1. CASE a = ip[r]
      <4>1. limiters'[visitor[a]] = t
        BY <2>2, <2>4, <3>1
      <4>2. lastSeen[a] \in Nat /\ clock <= lastSeen[a] + MaxLatency
        BY <2>2, <3>1
      <4>3. clock \in Nat
        OBVIOUS
      <4> HIDE <1>1, <1>2
      <4> QED
        BY <2>3, <4>1, <4>2, <4>3
    <3>2. CASE a # ip[r]
      <4>1. visitor[a] # n
        BY <2>1, <2>2, <2>6, <3>2 DEF DistinctOK
      <4>2. visitor[a] \in 1 .. Len(limiters)
        BY <2>6
      <4>3. limiters'[visitor[a]] = limiters[visitor[a]]
        BY <2>4, <4>1, <4>2
      <4> QED
        BY <2>6, <4>3 DEF FillOK
    <3> QED
      BY <3>1, <3>2
  <2>7. FillOK'
    BY <2>1, <2>6 DEF FillOK
  <2> QED
    BY <2>5, <2>7
<1>9. CASE Sweep
  <2>1. /\ UNCHANGED <<clock, limiters, pc, ip, seen, limiter>>
        /\ \A a \in IPs : /\ ~ Inactive(a) => visitor'[a] = visitor[a]
                                              /\ lastSeen'[a] = lastSeen[a]
                          /\ Inactive(a) => visitor'[a] = NoLimiter
    BY <1>9 DEF Sweep, request
  \* The visitor of a request in flight was seen within the latency.
  <2>2. \A r \in Requests : pc[r] = "allow" => ~ Inactive(ip[r])
    BY DEF FlightOK, SeenOK, Inside, Inactive
  <2>3. FlightOK'
    BY <2>1, <2>2 DEF FlightOK
  <2>4. DistinctOK' /\ FillOK'
    BY <2>1 DEF DistinctOK, FillOK
  <2> QED
    BY <2>3, <2>4
<1>10. CASE Tick
  <2>1. /\ clock' = clock + 1
        /\ UNCHANGED <<visitor, lastSeen, limiters, pc, ip, seen, limiter>>
    BY <1>10 DEF Tick, tables, request
  <2> QED
    BY <1>3, <2>1 DEF FlightOK, DistinctOK, FillOK
<1>11. ASSUME NEW r \in Requests, MapFault(r)
       PROVE  FlightOK' /\ DistinctOK' /\ FillOK'
  BY <1>11 DEF MapFault, FlightOK, DistinctOK, FillOK
<1>12. CASE UNCHANGED vars
  BY <1>4, <1>12 DEF vars, VisitorQuiet
<1> QED
  BY <1>4, <1>5, <1>6, <1>7, <1>8, <1>9, <1>10, <1>11, <1>12 DEF Next, Middleware

LEMMA VisitorInvariant == Spec => []VisitorInv
  BY VisitorInit, VisitorStep, PTL DEF Spec

\* The requests of one address, however they interleave with each other and
\* with the sweeper, ask one and the same limiter.
THEOREM BucketsShared == Spec => []OneBucketPerVisitor
<1>1. VisitorInv => OneBucketPerVisitor
  BY DEF VisitorInv, FlightOK, DistinctOK, OneBucketPerVisitor
<1> QED
  BY <1>1, VisitorInvariant, PTL

-----------------------------------------------------------------------------
(* The limiter implements TokenBucket.                                     *)

\* Only a reinstated request that runs on has been answered.
AnsweredOK == \A r \in Requests : answered[r] => pc[r] = "next"

LEMMA AnsweredStep == TypeInv /\ AnsweredOK /\ [Next]_vars => AnsweredOK'
<1> SUFFICES ASSUME TypeInv, AnsweredOK, [Next]_vars PROVE AnsweredOK'
  OBVIOUS
<1> USE DEF TypeInv, TypeOK, AnsweredOK, request, To, Return
<1>1. ASSUME NEW r \in Requests, Middleware(r) PROVE AnsweredOK'
  <2>1. ASSUME NEW a \in IPs, Arrive(r, a) PROVE AnsweredOK'
    BY <2>1 DEF Arrive
  <2>2. CASE Reinstate(r) \/ CheckOverflow(r) \/ Mark(r) \/ StillBlocked(r)
    BY <2>2 DEF Reinstate, CheckOverflow, Mark, StillBlocked
  <2>3. CASE KnownVisitor(r) \/ NewVisitor(r) \/ Allow(r) \/ Exceeded(r)
    BY <2>3 DEF KnownVisitor, NewVisitor, Allow, Exceeded
  <2>4. CASE Refuse(r) \/ Handled(r)
    BY <2>4 DEF Refuse, Handled
  <2> QED
    BY <1>1, <2>1, <2>2, <2>3, <2>4 DEF Middleware
<1>2. ASSUME NEW r \in Requests, MapFault(r) PROVE AnsweredOK'
  BY <1>2 DEF MapFault
<1>3. CASE Sweep \/ Tick \/ UNCHANGED vars
  BY <1>3 DEF Sweep, Tick, vars
<1> QED
  BY <1>1, <1>2, <1>3 DEF Next

LEMMA AnsweredInvariant == Spec => []AnsweredOK
<1>1. Init => AnsweredOK
  BY DEF Init, AnsweredOK
<1> QED
  BY <1>1, TypeInit, TypeStep, AnsweredStep, PTL DEF Spec

\* What the steps do to the levels of the buckets needs to know.
LEMMA LevelFacts ==
  ASSUME VisitorInv
  PROVE  /\ clock \in Nat /\ Len(limiters) \in Nat
         /\ limiters \in Seq(Nat)
         /\ visitor \in [IPs -> 0 .. Len(limiters)]
         /\ \A r \in Requests : pc[r] # "idle" => ip[r] \in IPs
         /\ \A n \in 0 .. Len(limiters) : n # NoLimiter => limiters[n] \in Nat
         /\ FlightOK /\ DistinctOK /\ FillOK
<1>1. /\ clock \in Nat /\ Len(limiters) \in Nat
      /\ limiters \in Seq(Nat)
      /\ visitor \in [IPs -> 0 .. Len(limiters)]
      /\ \A r \in Requests : pc[r] # "idle" => ip[r] \in IPs
      /\ FlightOK /\ DistinctOK /\ FillOK
  BY LenProperties DEF VisitorInv, BlockInv, TypeInv, TypeOK, Time
<1>2. \A n \in 0 .. Len(limiters) : n # NoLimiter => limiters[n] \in Nat
  BY <1>1, LenProperties DEF NoLimiter
<1> QED
  BY <1>1, <1>2

\* No bucket is more than full, and none owes anything.
LEMMA LevelBounds ==
  ASSUME VisitorInv, NEW a \in IPs
  PROVE  Level(a) \in Nat /\ Level(a) <= Cap
<1> USE LevelFacts, Constants DEF NoLimiter
<1>1. CASE visitor[a] = NoLimiter
  BY <1>1 DEF Level
<1>2. CASE visitor[a] # NoLimiter
  <2> DEFINE f == limiters[visitor[a]]
  <2>1. f \in Nat /\ f <= clock + Cap
    BY <1>2 DEF FillOK
  <2>2. Level(a) = Cap - (Later(f, clock) - clock)
    BY <1>2 DEF Level, Units
  <2> HIDE DEF f
  <2> QED
    BY <2>1, <2>2 DEF Later
<1> QED
  BY <1>1, <1>2

LEMMA LevelQuiet ==
  ASSUME UNCHANGED <<clock, visitor, limiters>>, NEW a \in IPs
  PROVE  Level(a)' = Level(a)
BY DEF Level, Units

\* A new limiter is as full as the bucket of an address without one.
LEMMA LevelOpen ==
  ASSUME VisitorInv, NEW r \in Requests, NewVisitor(r), NEW a \in IPs
  PROVE  limiters' # <<>> /\ Level(a)' = Level(a)
<1> USE LevelFacts, Constants DEF NoLimiter
<1>1. /\ ip[r] \in IPs /\ visitor[ip[r]] = NoLimiter
      /\ visitor' = [visitor EXCEPT ![ip[r]] = Len(limiters) + 1]
      /\ limiters' = Append(limiters, clock)
      /\ clock' = clock
  BY DEF NewVisitor
<1>2. /\ limiters'[Len(limiters) + 1] = clock
      /\ \A n \in 1 .. Len(limiters) : limiters'[n] = limiters[n]
  BY <1>1, AppendProperties
<1>3. limiters' # <<>>
  BY <1>1, <1>2, AppendProperties
<1>4. CASE a = ip[r]
  BY <1>1, <1>2, <1>3, <1>4 DEF Level, Units, Later
<1>5. CASE a # ip[r]
  BY <1>1, <1>2, <1>3, <1>5 DEF Level, Units, Later
<1> QED
  BY <1>4, <1>5

\* A token of the limiter is a token of the bucket of the address.
LEMMA LevelTake ==
  ASSUME VisitorInv, NEW r \in Requests, Allow(r)
  PROVE  /\ ip[r] \in IPs /\ Level(ip[r]) >= Period
         /\ limiters # <<>> /\ limiters' # <<>>
         /\ \A a \in IPs :
              Level(a)' = IF a = ip[r] THEN Level(a) - Period ELSE Level(a)
<1> USE LevelFacts, Constants DEF NoLimiter
<1> DEFINE n == limiter[r]
           t == Later(limiters[n], clock) + Period
<1>1. /\ ip[r] \in IPs /\ visitor[ip[r]] = n /\ n # NoLimiter
      /\ Units(n) >= Period
      /\ limiters' = [limiters EXCEPT ![n] = t]
      /\ clock' = clock /\ visitor' = visitor
  BY DEF Allow, FlightOK, VisitorInv, BlockInv, TypeInv, HasLimiter
<1>2. /\ n \in 1 .. Len(limiters) /\ limiters[n] \in Nat
      /\ t \in Nat /\ clock <= t
  BY <1>1, SMTT(30) DEF Later
<1>3. Units(n) = Cap - (t - Period - clock)
  BY <1>2 DEF Units, Later
<1> HIDE DEF t
<1>4. /\ limiters'[n] = t
      /\ \A m \in 1 .. Len(limiters) : m # n => limiters'[m] = limiters[m]
      /\ limiters # <<>> /\ limiters' # <<>>
  BY <1>1, <1>2, LenProperties, EmptySeq
<1>5. Level(ip[r]) = Units(n)
  BY <1>1 DEF Level
<1>6. ASSUME NEW a \in IPs
      PROVE  Level(a)' = IF a = ip[r] THEN Level(a) - Period ELSE Level(a)
  <2>1. CASE a = ip[r]
    <3>1. Level(a)' = Cap - (Later(t, clock) - clock)
      BY <1>1, <1>4, <2>1 DEF Level, Units
    <3>2. Later(t, clock) = t
      BY <1>2 DEF Later
    <3>3. Level(a) = Cap - (t - Period - clock)
      BY <1>3, <1>5, <2>1
    <3>4. Cap - (t - clock) = Cap - (t - Period - clock) - Period
      BY <1>2
    <3> QED
      BY <2>1, <3>1, <3>2, <3>3, <3>4
  <2>2. CASE a # ip[r] /\ visitor[a] = NoLimiter
    BY <1>1, <2>2 DEF Level
  <2>3. CASE a # ip[r] /\ visitor[a] # NoLimiter
    <3>1. visitor[a] # n /\ visitor[a] \in 1 .. Len(limiters)
      BY <1>1, <2>3 DEF DistinctOK
    <3> QED
      BY <1>1, <1>4, <2>3, <3>1 DEF Level, Units
  <2> QED
    BY <2>1, <2>2, <2>3
<1> QED
  BY <1>1, <1>4, <1>5, <1>6

\* A forgotten visitor had a full bucket.
LEMMA LevelForget ==
  ASSUME VisitorInv, Sweep, NEW a \in IPs
  PROVE  Level(a)' = Level(a)
<1> USE LevelFacts, Constants DEF NoLimiter
<1>1. /\ UNCHANGED <<clock, limiters>>
      /\ visitor'[a] = IF Inactive(a) THEN NoLimiter ELSE visitor[a]
  BY DEF Sweep
<1>2. CASE Inactive(a)
  <2>1. /\ visitor[a] # NoLimiter
        /\ lastSeen[a] \in Nat
        /\ clock - lastSeen[a] > IdleTimeout
    BY <1>2 DEF Inactive, VisitorInv, BlockInv, TypeInv, TypeOK, Time
  <2>2. limiters[visitor[a]] <= clock /\ limiters[visitor[a]] \in Nat
    BY <2>1, SMTT(30) DEF FillOK
  <2>3. Level(a) = Cap
    BY <2>1, <2>2 DEF Level, Units, Later
  <2> QED
    BY <1>1, <1>2, <2>3 DEF Level
<1>3. CASE ~ Inactive(a)
  BY <1>1, <1>3 DEF Level, Units
<1> QED
  BY <1>2, <1>3

\* One tick is one unit.
LEMMA LevelTick ==
  ASSUME VisitorInv, Tick, NEW a \in IPs
  PROVE  clock' = clock + 1 /\ Level(a)' = Bucket!Fill(Level(a) + 1)
<1> USE LevelFacts, Constants DEF NoLimiter
<1>1. clock' = clock + 1 /\ visitor' = visitor /\ limiters' = limiters
  BY DEF Tick, tables
<1>2. CASE visitor[a] = NoLimiter
  BY <1>1, <1>2 DEF Level, Bucket!Fill
<1>3. CASE visitor[a] # NoLimiter
  <2> DEFINE f == limiters[visitor[a]]
  <2>1. f \in Nat
    BY <1>3
  <2>2. Level(a) = Cap - (Later(f, clock) - clock)
    BY <1>3 DEF Level, Units
  <2>3. Level(a)' = Cap - (Later(f, clock + 1) - (clock + 1))
    BY <1>1, <1>3 DEF Level, Units
  <2> HIDE DEF f
  <2> QED
    BY <1>1, <2>1, <2>2, <2>3 DEF Later, Bucket!Fill
<1> QED
  BY <1>1, <1>2, <1>3

\* Every other step of a request, and every step of none.
LEMMA RequestQuiet ==
  ASSUME NEW r \in Requests,
         \/ \E a \in IPs : Arrive(r, a)
         \/ Reinstate(r) \/ CheckOverflow(r) \/ Mark(r) \/ StillBlocked(r)
         \/ KnownVisitor(r) \/ Exceeded(r) \/ Refuse(r) \/ Handled(r)
  PROVE  UNCHANGED <<clock, visitor, limiters>>
BY DEF Arrive, Reinstate, CheckOverflow, Mark, StillBlocked, KnownVisitor,
       Exceeded, Refuse, Handled, tables

LEMMA BucketInit == Init => Bucket!Init
  BY DEF Init, Bucket!Init, Bucket!Full, Bucket!Nobody, Levels, Level, Admitted

LEMMA BucketStep ==
  VisitorInv /\ AnsweredOK /\ [Next]_vars => [Bucket!Next]_(Bucket!vars)
<1> SUFFICES ASSUME VisitorInv, AnsweredOK, [Next]_vars
             PROVE  Bucket!Next \/ UNCHANGED <<Levels, Admitted, limiters = <<>>>>
  BY DEF Bucket!vars
<1>3. /\ pc \in [Requests -> PCs] /\ ip \in [Requests -> IPs \cup {NoIP}]
      /\ answered \in [Requests -> BOOLEAN]
  BY DEF VisitorInv, BlockInv, TypeInv, TypeOK
<1> USE LevelFacts
<1>4. ASSUME UNCHANGED <<clock, visitor, limiters>>
      PROVE  UNCHANGED <<Levels, limiters = <<>>>>
  BY <1>4, LevelQuiet DEF Levels
\* A step of a request that neither was nor is admitted.
<1>5. ASSUME NEW r \in Requests,
             pc[r] # "next", pc'[r] # "next" \/ answered'[r],
             \A s \in Requests \ {r} :
               pc'[s] = pc[s] /\ ip'[s] = ip[s] /\ answered'[s] = answered[s]
      PROVE  UNCHANGED Admitted
  BY <1>5 DEF Admitted
<1>6. ASSUME NEW r \in Requests,
             \/ \E a \in IPs : Arrive(r, a)
             \/ Reinstate(r) \/ CheckOverflow(r) \/ Mark(r) \/ StillBlocked(r)
             \/ KnownVisitor(r) \/ Exceeded(r) \/ Refuse(r)
      PROVE  UNCHANGED <<Levels, Admitted, limiters = <<>>>>
  <2>1. UNCHANGED <<clock, visitor, limiters>>
    BY <1>6, RequestQuiet
  <2>2. /\ pc[r] # "next" /\ (pc'[r] # "next" \/ answered'[r])
        /\ \A s \in Requests \ {r} :
             pc'[s] = pc[s] /\ ip'[s] = ip[s] /\ answered'[s] = answered[s]
    <3>1. ASSUME NEW a \in IPs, Arrive(r, a) PROVE <2>2
      BY <1>3, <3>1 DEF Arrive, To
    <3>2. CASE Reinstate(r)
      BY <1>3, <3>2 DEF Reinstate, To
    <3>3. CASE CheckOverflow(r) \/ Mark(r) \/ StillBlocked(r)
      BY <1>3, <3>3 DEF CheckOverflow, Mark, StillBlocked, To, request
    <3>4. CASE KnownVisitor(r) \/ Exceeded(r) \/ Refuse(r)
      BY <1>3, <3>4 DEF KnownVisitor, Exceeded, Refuse, To, Return, request
    <3> QED
      BY <1>6, <3>1, <3>2, <3>3, <3>4
  <2> QED
    BY <1>4, <1>5, <2>1, <2>2
<1>7. ASSUME NEW r \in Requests, Handled(r) PROVE Bucket!Leave(r)
  <2>1. UNCHANGED <<clock, visitor, limiters>>
    BY <1>7, RequestQuiet
  <2>2. Admitted' = [Admitted EXCEPT ![r] = NoIP]
    BY <1>3, <1>7 DEF Handled, To, Return, Admitted
  <2> QED
    BY <1>4, <2>1, <2>2 DEF Bucket!Leave
<1>8. ASSUME NEW r \in Requests, NewVisitor(r) PROVE Bucket!Open
  <2>1. limiters' # <<>> /\ UNCHANGED Levels
    BY <1>8, LevelOpen DEF Levels, NewVisitor
  <2>2. UNCHANGED Admitted
    BY <1>3, <1>5, <1>8 DEF NewVisitor, To
  <2> QED
    BY <2>1, <2>2 DEF Bucket!Open
<1>9. ASSUME NEW r \in Requests, Allow(r)
      PROVE  \E a \in IPs : Bucket!Admit(r, a)
  <2>1. /\ ip[r] \in IPs /\ Level(ip[r]) >= Period
        /\ limiters # <<>> /\ limiters' # <<>>
        /\ \A a \in IPs :
             Level(a)' = IF a = ip[r] THEN Level(a) - Period ELSE Level(a)
    BY <1>9, LevelTake
  <2>2. Levels' = [Levels EXCEPT ![ip[r]] = @ - Period] /\ Levels[ip[r]] >= Period
    BY <2>1 DEF Levels
  <2>3. pc[r] = "allow" /\ pc' = [pc EXCEPT ![r] = "next"]
        /\ ip' = ip /\ answered' = answered
    BY <1>9 DEF Allow, To, request
  <2>4. Admitted[r] = NoIP /\ Admitted' = [Admitted EXCEPT ![r] = ip[r]]
    BY <1>3, <2>3 DEF Admitted, AnsweredOK
  <2> QED
    BY <2>1, <2>2, <2>4 DEF Bucket!Admit
<1>10. CASE Sweep
  <2>1. UNCHANGED <<Levels, limiters>>
    BY <1>10, LevelForget DEF Levels, Sweep
  <2>2. UNCHANGED Admitted
    BY <1>10 DEF Sweep, request, Admitted
  <2> QED
    BY <2>1, <2>2
<1>11. CASE Tick
  <2>1. Levels' = [a \in IPs |-> Bucket!Fill(Levels[a] + 1)] /\ limiters' = limiters
    BY <1>11, LevelTick DEF Levels, Tick, tables
  <2>2. UNCHANGED Admitted
    BY <1>11 DEF Tick, request, Admitted
  <2>3. Bucket!Refill
    BY <2>1, <2>2 DEF Bucket!Refill
  <2> QED
    BY <2>3 DEF Bucket!Next
<1>12. ASSUME NEW r \in Requests, MapFault(r) PROVE Bucket!Restart
  BY <1>12 DEF MapFault, Bucket!Restart, Bucket!Full, Bucket!Nobody, Levels,
                  Level, Admitted
<1>13. CASE UNCHANGED vars
  BY <1>4, <1>13 DEF vars, Admitted
<1> QED
  BY <1>6, <1>7, <1>8, <1>9, <1>10, <1>11, <1>12, <1>13
     DEF Next, Middleware, Bucket!Next

\* Locking, unlocking, late requests and forgotten visitors change nothing of
\* the promise: a request is admitted against one bucket of its address, which
\* is never reset while the process lives.
THEOREM LimiterImplementsBucket == Spec => BucketSpec
<1>1. Spec => Bucket!Init /\ [][Bucket!Next]_(Bucket!vars)
  BY BucketInit, BucketStep, VisitorInvariant, AnsweredInvariant, PTL DEF Spec
<1> QED
  BY <1>1 DEF BucketSpec, Bucket!Spec

=============================================================================
