-------------------------- MODULE RateWindowProofs --------------------------
(***************************************************************************)
(* The bound on what an address gets in a window of time, for every number *)
(* of addresses and requests and all durations that meet the assumptions   *)
(* of RateLimiter.                                                         *)
(***************************************************************************)
EXTENDS RateWindow, RateLimiterProofs

\* The observer only looks.
LEMMA Looks == WindowSpec => Spec
<1>1. WindowInit => Init
  BY DEF WindowInit
<1>2. [WindowNext]_<<vars, window>> => [Next]_vars
  BY DEF WindowNext, OpenWindow, Watch, WindowCloses, Next
<1> QED
  BY <1>1, <1>2, PTL DEF WindowSpec, Spec

-----------------------------------------------------------------------------
(* The account of a window.                                                *)

\* What was taken from a bucket since the window was opened, and what is in it
\* now, is no more than what a full bucket had then and has received since.
Paid ==
  \A a \in IPs : admissions[a] * Period + Level(a) <= Cap + (clock - opened)

WindowInv ==
  /\ opened \in Time \cup {Never}
  /\ admissions \in [IPs -> Nat]
  /\ opened = Never => admissions = Nothing
  /\ opened # Never => opened <= clock /\ Paid

\* One admission more is one token more.
LEMMA Tokens ==
  ASSUME NEW n \in Nat
  PROVE  n * Period \in Nat /\ (n + 1) * Period = n * Period + Period
<1>1. Period \in Nat
  BY Constants
<1> QED
  BY <1>1, Z3

LEMMA WindowStart == WindowInit => WindowInv
  BY DEF WindowInit, WindowInv, Nothing

LEMMA OpenStep == VisitorInv /\ WindowInv /\ OpenWindow => WindowInv'
<1> SUFFICES ASSUME VisitorInv, WindowInv, OpenWindow PROVE WindowInv'
  OBVIOUS
<1>1. /\ opened' = clock /\ clock' = clock /\ admissions' = Nothing
      /\ UNCHANGED <<visitor, limiters>> /\ clock \in Time /\ clock \in Nat
  BY DEF OpenWindow, WindowInv, vars, VisitorInv, BlockInv, TypeInv, TypeOK, Time
<1>2. ASSUME NEW a \in IPs
      PROVE  admissions'[a] * Period + Level(a)' <= Cap + (clock' - opened')
  <2>1. Level(a)' = Level(a) /\ Level(a) \in Nat /\ Level(a) <= Cap
    BY <1>1, LevelQuiet, LevelBounds
  <2>2. admissions'[a] = 0 /\ 0 * Period = 0
    BY <1>1, Constants DEF Nothing
  <2>3. clock' - opened' = 0 /\ Cap \in Nat
    BY <1>1, Constants
  <2> QED
    BY <2>1, <2>2, <2>3
<1>3. Paid'
  BY <1>2 DEF Paid
<1>4. Time' = Time /\ 0 \in Nat
  BY DEF Time
<1>5. opened' <= clock' /\ opened' # Never
  BY <1>1 DEF Never
<1> QED
  BY <1>1, <1>3, <1>4, <1>5 DEF WindowInv, Nothing

\* Only Allow lets a request through.
LEMMA AllowCounts ==
  ASSUME VisitorInv, WindowInv, Watch, NEW a \in IPs
  PROVE  /\ (\A r \in Requests : Allow(r) => ip[r] # a) =>
              admissions'[a] = admissions[a]
         /\ admissions'[a] \in {admissions[a], admissions[a] + 1}
         /\ opened = Never => admissions'[a] = admissions[a]
<1>1. admissions'[a] = IF opened # Never /\ LetThrough(a)
                       THEN admissions[a] + 1 ELSE admissions[a]
  BY DEF Watch
<1>2. pc \in [Requests -> PCs]
  BY DEF VisitorInv, BlockInv, TypeInv, TypeOK
<1>3. ASSUME NEW r \in Requests, pc[r] = "allow", pc'[r] = "next", ip[r] = a
      PROVE  Allow(r)
  <2>1. CASE Sweep \/ Tick
    BY <1>3, <2>1 DEF Sweep, Tick
  <2>2. ASSUME NEW s \in Requests, Middleware(s) PROVE Allow(r)
    <3>1. CASE s = r
      <4>1. ~ \E b \in IPs : Arrive(r, b)
        BY <1>3 DEF Arrive
      <4>2. ~ (Reinstate(r) \/ CheckOverflow(r) \/ Mark(r) \/ StillBlocked(r))
        BY <1>3 DEF Reinstate, CheckOverflow, Mark, StillBlocked
      <4>3. ~ (KnownVisitor(r) \/ NewVisitor(r) \/ Refuse(r) \/ Handled(r))
        BY <1>3 DEF KnownVisitor, NewVisitor, Refuse, Handled
      <4>4. ~ Exceeded(r)
        BY <1>2, <1>3 DEF Exceeded, To
      <4> QED
        BY <2>2, <3>1, <4>1, <4>2, <4>3, <4>4 DEF Middleware
    <3>2. CASE s # r
      <4>1. pc'[r] = pc[r]
        <5>1. CASE \E b \in IPs : Arrive(s, b)
          BY <1>2, <3>2, <5>1 DEF Arrive, To
        <5>2. CASE Reinstate(s) \/ CheckOverflow(s) \/ Mark(s) \/ StillBlocked(s)
          BY <1>2, <3>2, <5>2 DEF Reinstate, CheckOverflow, Mark, StillBlocked, To
        <5>3. CASE KnownVisitor(s) \/ NewVisitor(s) \/ Allow(s) \/ Exceeded(s)
          BY <1>2, <3>2, <5>3 DEF KnownVisitor, NewVisitor, Allow, Exceeded, To
        <5>4. CASE Refuse(s) \/ Handled(s)
          BY <1>2, <3>2, <5>4 DEF Refuse, Handled, Return, To
        <5> QED
          BY <2>2, <5>1, <5>2, <5>3, <5>4 DEF Middleware
      <4> QED
        BY <1>3, <4>1
    <3> QED
      BY <3>1, <3>2
  <2> QED
    BY <2>1, <2>2 DEF Watch
<1> QED
  BY <1>1, <1>3 DEF LetThrough

LEMMA WatchStep == VisitorInv /\ WindowInv /\ Watch => WindowInv'
<1> SUFFICES ASSUME VisitorInv, WindowInv, Watch PROVE WindowInv'
  OBVIOUS
<1>1. /\ opened' = opened /\ Time' = Time /\ clock \in Nat
      /\ admissions \in [IPs -> Nat] /\ admissions' = [a \in IPs |-> admissions'[a]]
  BY DEF Watch, WindowInv, VisitorInv, BlockInv, TypeInv, TypeOK, Time
<1>2. admissions' \in [IPs -> Nat]
  <2>1. \A a \in IPs : admissions'[a] \in Nat
    BY <1>1, AllowCounts
  <2> QED
    BY <1>1, <2>1
<1>3. opened = Never => admissions' = Nothing
  <2>1. ASSUME opened = Never, NEW a \in IPs PROVE admissions'[a] = 0
    BY <2>1, AllowCounts DEF WindowInv, Nothing
  <2> QED
    BY <1>1, <2>1 DEF Nothing
<1>4. ASSUME opened # Never
      PROVE  opened <= clock' /\ Paid'
  <2>1. opened \in Nat /\ opened <= clock /\ Paid
    BY <1>4 DEF WindowInv, Time
  <2>2. Cap \in Nat /\ Period \in Nat
    BY Constants
  <2>3. ASSUME NEW a \in IPs
        PROVE  /\ admissions[a] \in Nat /\ admissions[a] * Period \in Nat
               /\ Level(a) \in Nat
               /\ admissions[a] * Period + Level(a) <= Cap + (clock - opened)
    BY <1>1, <2>1, Tokens, LevelBounds DEF Paid
  \* A step at which nobody is let through and no time passes.
  <2>4. ASSUME clock' = clock, \A r \in Requests : ~ Allow(r),
               \A a \in IPs : Level(a)' = Level(a)
        PROVE  opened <= clock' /\ Paid'
    <3>1. \A a \in IPs : admissions'[a] = admissions[a]
      BY <2>4, AllowCounts
    <3> QED
      BY <1>1, <2>1, <2>4, <3>1 DEF Paid
  <2>5. ASSUME NEW r \in Requests, Allow(r) PROVE opened <= clock' /\ Paid'
    <3>1. clock' = clock
      BY <2>5 DEF Allow
    <3>2. ASSUME NEW a \in IPs
          PROVE  admissions'[a] * Period + Level(a)' <= Cap + (clock' - opened')
      <4>1. /\ Level(ip[r]) >= Period
            /\ Level(a)' = IF a = ip[r] THEN Level(a) - Period ELSE Level(a)
        BY <2>5, LevelTake
      <4>2. CASE a = ip[r]
        <5>1. Level(a)' = Level(a) - Period
          BY <4>1, <4>2
        <5>2. /\ admissions'[a] \in {admissions[a], admissions[a] + 1}
              /\ (admissions[a] + 1) * Period = admissions[a] * Period + Period
          BY <2>3, AllowCounts, Tokens
        <5>3. admissions'[a] * Period <= admissions[a] * Period + Period
              /\ admissions'[a] * Period \in Nat
          BY <2>2, <2>3, <5>2, Tokens
        <5> QED
          BY <1>1, <2>1, <2>2, <2>3, <3>1, <5>1, <5>3
      <4>3. CASE a # ip[r]
        <5>1. \A s \in Requests : Allow(s) => ip[s] # a
          <6>1. ASSUME NEW s \in Requests, Allow(s) PROVE s = r
            <7>1. pc[s] = "allow" /\ pc'[s] = "next" /\ pc' = [pc EXCEPT ![r] = "next"]
              BY <2>5, <6>1 DEF Allow, To, VisitorInv, BlockInv, TypeInv, TypeOK
            <7> QED
              BY <7>1 DEF VisitorInv, BlockInv, TypeInv, TypeOK
          <6> QED
            BY <4>3, <6>1
        <5>2. admissions'[a] = admissions[a] /\ Level(a)' = Level(a)
          BY <4>1, <4>3, <5>1, AllowCounts
        <5> QED
          BY <1>1, <2>3, <3>1, <5>2
      <4> QED
        BY <4>2, <4>3
    <3> QED
      BY <2>1, <3>1, <3>2 DEF Paid
  <2>6. CASE Tick
    <3>1. clock' = clock + 1 /\ \A r \in Requests : ~ Allow(r)
      BY <1>1, <2>6 DEF Tick, Allow
    <3>2. ASSUME NEW a \in IPs
          PROVE  admissions'[a] * Period + Level(a)' <= Cap + (clock' - opened')
      <4>1. admissions'[a] = admissions[a]
        BY <3>1, AllowCounts
      <4>2. Level(a)' = Bucket!Fill(Level(a) + 1)
        BY <2>6, LevelTick
      <4>3. Level(a)' \in Nat /\ Level(a)' <= Level(a) + 1
        BY <2>2, <2>3, <4>2 DEF Bucket!Fill
      <4> QED
        BY <1>1, <2>1, <2>2, <2>3, <3>1, <4>1, <4>3
    <3> QED
      BY <1>1, <2>1, <3>1, <3>2 DEF Paid
  <2>7. CASE Sweep
    <3>1. clock' = clock /\ pc' = pc /\ pc \in [Requests -> PCs]
      BY <2>7 DEF Sweep, VisitorInv, BlockInv, TypeInv, TypeOK
    <3>2. \A r \in Requests : ~ Allow(r)
      BY <3>1 DEF Allow, To
    <3> QED
      BY <2>4, <2>7, <3>1, <3>2, LevelForget
  <2>8. ASSUME NEW r \in Requests, Middleware(r), \A s \in Requests : ~ Allow(s)
        PROVE  opened <= clock' /\ Paid'
    <3>1. CASE NewVisitor(r)
      BY <2>4, <2>8, <3>1, LevelOpen DEF NewVisitor
    <3>2. CASE ~ NewVisitor(r)
      <4>1. UNCHANGED <<clock, visitor, limiters>>
        BY <2>8, <3>2, RequestQuiet DEF Middleware
      <4> QED
        BY <2>4, <2>8, <4>1, LevelQuiet
    <3> QED
      BY <3>1, <3>2
  <2> QED
    BY <2>5, <2>6, <2>7, <2>8 DEF Watch
<1> QED
  BY <1>1, <1>2, <1>3, <1>4 DEF WindowInv

LEMMA WindowStep ==
  VisitorInv /\ WindowInv /\ [WindowNext]_<<vars, window>> => WindowInv'
<1> SUFFICES ASSUME VisitorInv, WindowInv, [WindowNext]_<<vars, window>>
             PROVE  WindowInv'
  OBVIOUS
<1>1. CASE WindowCloses
  <2>1. opened' = Never /\ admissions' = Nothing /\ Nothing \in [IPs -> Nat]
    BY <1>1 DEF WindowCloses, Nothing
  <2> QED
    BY <2>1 DEF WindowInv, Nothing
<1>2. CASE UNCHANGED <<vars, window>>
  <2>1. UNCHANGED <<clock, visitor, limiters, opened, admissions>>
    BY <1>2 DEF vars, window
  <2>2. \A a \in IPs : Level(a)' = Level(a)
    BY <2>1, LevelQuiet
  <2>3. Paid => Paid'
    BY <2>1, <2>2 DEF Paid
  <2> QED
    BY <2>1, <2>3 DEF WindowInv, Nothing, Time
<1> QED
  BY <1>1, <1>2, OpenStep, WatchStep DEF WindowNext

\* What has been paid for bounds the number of admissions.
LEMMA PaidBounds == VisitorInv /\ WindowInv => RateBounded
<1> SUFFICES ASSUME VisitorInv, WindowInv, opened # Never, NEW a \in IPs
             PROVE  admissions[a] <= Burst + (clock - opened) \div Period
  BY DEF RateBounded
<1> DEFINE n == admissions[a]
           d == clock - opened
           q == d \div Period
<1>1. /\ n \in Nat /\ Level(a) \in Nat
      /\ n * Period + Level(a) <= Cap + d
  BY LevelBounds DEF WindowInv, Paid
<1>2. d \in Nat
  BY DEF WindowInv, VisitorInv, BlockInv, TypeInv, TypeOK, Time
<1>3. Period \in Nat \ {0} /\ Burst \in Nat /\ Cap = Burst * Period
  BY BucketAssumption DEF Cap
<1> HIDE DEF n, d
<1>4. q \in Nat /\ d < q * Period + Period
  BY <1>2, <1>3, Z3
<1> HIDE DEF q
<1>5. ASSUME n >= Burst + q + 1 PROVE FALSE
  <2>1. (Burst + q + 1) * Period = Burst * Period + q * Period + Period
    BY <1>3, <1>4, Z3
  <2>2. (Burst + q + 1) * Period <= n * Period
    BY <1>1, <1>3, <1>4, <1>5, Z3
  <2>3. /\ n * Period \in Nat /\ Burst * Period \in Nat /\ q * Period \in Nat
        /\ Period \in Nat
    BY <1>1, <1>3, <1>4, Z3
  <2> HIDE <1>5
  <2> QED
    BY <1>1, <1>2, <1>3, <1>4, <2>1, <2>2, <2>3
<1>6. n <= Burst + q
  BY <1>1, <1>3, <1>4, <1>5
<1> QED
  BY <1>6 DEF n, q, d

\* In any window of time an address gets at most Burst requests through, and one
\* more per Period, from the limiter that GetLimiter hands its requests.
THEOREM RateLimited == WindowSpec => []RateBounded
<1>1. Spec => []VisitorInv
  BY VisitorInvariant
<1> QED
  BY <1>1, Looks, WindowStart, WindowStep, PaidBounds, PTL DEF WindowSpec

=============================================================================
