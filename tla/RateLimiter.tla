----------------------------- MODULE RateLimiter ----------------------------
(***************************************************************************)
(* The rate limiter of internal/middleware: the middleware that every      *)
(* request passes first, the tables it shares between the request          *)
(* goroutines, and the goroutine that sweeps them.                         *)
(*                                                                         *)
(* The middleware takes the lock three times (to look the address up, to   *)
(* get its limiter, to block it), once reads the size of the table without *)
(* it and once writes the table without it: every such piece is a step of  *)
(* its own, and the steps of different requests and of the sweeper         *)
(* interleave.  Time advances in ticks.                                    *)
(***************************************************************************)
EXTENDS Integers, Sequences, FiniteSets

CONSTANTS IPs,              \* client addresses
          Requests,         \* request goroutines
          Period,           \* ticks per token, rate.Every(10*time.Second)
          Burst,            \* tokens in a full bucket, 2
          BlockedDuration,  \* ticks a block lasts at least, 15 seconds
          SweepEvery,       \* ticks between two sweeps, 15 seconds
          IdleTimeout,      \* ticks until a visitor is forgotten, 3 minutes
          MaxBlocked,       \* maxBlockedVisitors, 21
          MaxLatency,       \* ticks a request takes to pass the middleware
          MaxClock          \* bound of the checked instances: the last tick

ASSUME BucketAssumption == Period \in Nat \ {0} /\ Burst \in Nat
ASSUME SweepAssumption ==
  BlockedDuration \in Nat /\ SweepEvery \in Nat \ {0} /\ IdleTimeout \in Nat
ASSUME NamesAssumption == "none" \notin IPs
ASSUME BoundsAssumption ==
  MaxBlocked \in Nat /\ MaxLatency \in Nat /\ MaxClock \in Nat
\* The middleware does not call out before it decides: it passes in far less
\* than 15 seconds, and a bucket is full again (20 seconds) long before its
\* visitor is forgotten (3 minutes).
ASSUME LatencyAssumption == MaxLatency <= BlockedDuration
ASSUME IdleAssumption    == Burst * Period + MaxLatency <= IdleTimeout

Never     == -1             \* an address that is not in the table
NoIP      == "none"         \* the address of an idle request
NoLimiter == 0              \* the nil *rate.Limiter
Cap       == Burst * Period \* a full bucket: a token is Period units

VARIABLES
  clock,      \* the current tick
  nextSweep,  \* when the sweeper wakes up
  blocked,    \* blockedVisitors: the stored time, or Never
  visitor,    \* visitors: the number of the limiter, or NoLimiter
  lastSeen,   \* visitors: lastSeen
  limiters,   \* of every rate.Limiter made so far: when its bucket is full
  pc, ip, seen, limiter, answered,  \* of every request
  refusedAt   \* history: when an address was last told 429, or Never

tables  == <<blocked, visitor, lastSeen, limiters>>
request == <<ip, seen, limiter, answered>>
vars    == <<clock, nextSweep, blocked, visitor, lastSeen, limiters,
             pc, ip, seen, limiter, answered, refusedAt>>

\* Within the middleware, which the assumption on latency is about.
Inside == {"reinstate", "overflow", "mark", "limiter", "allow", "refuse"}
PCs    == Inside \cup {"idle", "next"}

Init ==
  /\ clock = 0 /\ nextSweep = SweepEvery
  /\ blocked = [a \in IPs |-> Never]
  /\ visitor = [a \in IPs |-> NoLimiter]
  /\ lastSeen = [a \in IPs |-> 0]
  /\ limiters = <<>>
  /\ pc = [r \in Requests |-> "idle"]
  /\ ip = [r \in Requests |-> NoIP]
  /\ seen = [r \in Requests |-> 0]
  /\ limiter = [r \in Requests |-> NoLimiter]
  /\ answered = [r \in Requests |-> FALSE]
  /\ refusedAt = [a \in IPs |-> Never]

-----------------------------------------------------------------------------
(* golang.org/x/time/rate, as far as the middleware uses it.               *)

Later(s, t) == IF s < t THEN t ELSE s

\* The units a limiter has now: a full bucket, less what it still refills.
Units(n) == Cap - (Later(limiters[n], clock) - clock)

-----------------------------------------------------------------------------
(* The middleware.                                                         *)

To(r, step) == pc' = [pc EXCEPT ![r] = step]

Return(r) ==
  /\ To(r, "idle")
  /\ ip' = [ip EXCEPT ![r] = NoIP]
  /\ seen' = [seen EXCEPT ![r] = 0]
  /\ limiter' = [limiter EXCEPT ![r] = NoLimiter]
  /\ answered' = [answered EXCEPT ![r] = FALSE]

\* A block that is younger than blockedDuration.
InForce(a, now) == blocked[a] # Never /\ now - blocked[a] < BlockedDuration

\* Under the read lock: the time stored for the address, and the time now that
\* the rest of the middleware goes on with.
Arrive(r, a) ==
  /\ pc[r] = "idle"
  /\ ip' = [ip EXCEPT ![r] = a]
  /\ seen' = [seen EXCEPT ![r] = clock]
  /\ To(r, IF InForce(a, clock) THEN "reinstate" ELSE "overflow")
  /\ UNCHANGED <<clock, nextSweep, tables, limiter, answered, refusedAt>>

\* Mutant of Block: the block is dated back, as if it had just run out.
BlockDatedBack(r) ==
  /\ blocked' = [blocked EXCEPT ![ip[r]] = seen[r] - BlockedDuration]
  /\ refusedAt' = [refusedAt EXCEPT ![ip[r]] = clock]

\* Under the lock: the address is blocked from "now" on.
Block(r) ==
  /\ blocked' = [blocked EXCEPT ![ip[r]] = seen[r]]
  /\ refusedAt' = [refusedAt EXCEPT ![ip[r]] = clock]

\* The block is in force: it starts again and the client is told 429.  The
\* handler returns nil without c.Abort(), so the router goes on with the next
\* handler, as it does after c.Next().
Reinstate(r) ==
  /\ pc[r] = "reinstate"
  /\ Block(r)
  /\ To(r, "next")
  /\ answered' = [answered EXCEPT ![r] = TRUE]
  /\ UNCHANGED <<clock, nextSweep, visitor, lastSeen, limiters, ip, seen,
                 limiter>>

\* GetLimiter, before it locks: the size of the table.
CheckOverflow(r) ==
  /\ pc[r] = "overflow"
  /\ To(r, IF Cardinality({a \in IPs : blocked[a] # Never}) > MaxBlocked
           THEN "mark" ELSE "limiter")
  /\ UNCHANGED <<clock, nextSweep, tables, request, refusedAt>>

\* GetLimiter, without the lock: too many addresses are blocked, so is this one.
Mark(r) ==
  /\ pc[r] = "mark"
  /\ blocked' = [blocked EXCEPT ![ip[r]] = clock]
  /\ To(r, "refuse")
  /\ UNCHANGED <<clock, nextSweep, visitor, lastSeen, limiters, request,
                 refusedAt>>

\* GetLimiter, under the lock: the address is still in the table of blocks, in
\* force or not.
StillBlocked(r) ==
  /\ pc[r] = "limiter"
  /\ blocked[ip[r]] # Never
  /\ To(r, "refuse")
  /\ UNCHANGED <<clock, nextSweep, tables, request, refusedAt>>

\* Mutant of KnownVisitor: only the first visit sets lastSeen.
KnownVisitorNotTouched(r) ==
  /\ pc[r] = "limiter"
  /\ blocked[ip[r]] = Never
  /\ visitor[ip[r]] # NoLimiter
  /\ limiter' = [limiter EXCEPT ![r] = visitor[ip[r]]]
  /\ To(r, "allow")
  /\ UNCHANGED <<clock, nextSweep, blocked, visitor, lastSeen, limiters, ip,
                 seen, answered, refusedAt>>

\* GetLimiter, under the lock: a known visitor.
KnownVisitor(r) ==
  /\ pc[r] = "limiter"
  /\ blocked[ip[r]] = Never
  /\ visitor[ip[r]] # NoLimiter
  /\ lastSeen' = [lastSeen EXCEPT ![ip[r]] = clock]
  /\ limiter' = [limiter EXCEPT ![r] = visitor[ip[r]]]
  /\ To(r, "allow")
  /\ UNCHANGED <<clock, nextSweep, blocked, visitor, limiters, ip, seen,
                 answered, refusedAt>>

\* GetLimiter, under the lock: a new visitor with a full bucket.
NewVisitor(r) ==
  /\ pc[r] = "limiter"
  /\ blocked[ip[r]] = Never
  /\ visitor[ip[r]] = NoLimiter
  /\ limiters' = Append(limiters, clock)
  /\ visitor' = [visitor EXCEPT ![ip[r]] = Len(limiters) + 1]
  /\ limiter' = [limiter EXCEPT ![r] = Len(limiters) + 1]
  /\ lastSeen' = [lastSeen EXCEPT ![ip[r]] = clock]
  /\ To(r, "allow")
  /\ UNCHANGED <<clock, nextSweep, blocked, ip, seen, answered, refusedAt>>

\* Mutant of Allow: time a bucket has spent full counts as tokens.
AllowSavedUp(r) ==
  /\ pc[r] = "allow"
  /\ Units(limiter[r]) >= Period
  /\ limiters' = [limiters EXCEPT ![limiter[r]] = @ + Period]
  /\ To(r, "next")
  /\ UNCHANGED <<clock, nextSweep, blocked, visitor, lastSeen, request,
                 refusedAt>>

\* limiter.Allow() takes a token, and the next handler runs.
Allow(r) ==
  /\ pc[r] = "allow"
  /\ Units(limiter[r]) >= Period
  /\ limiters' = [limiters EXCEPT ![limiter[r]] = Later(@, clock) + Period]
  /\ To(r, "next")
  /\ UNCHANGED <<clock, nextSweep, blocked, visitor, lastSeen, request,
                 refusedAt>>

\* limiter.Allow() finds no token.
Exceeded(r) ==
  /\ pc[r] = "allow"
  /\ Units(limiter[r]) < Period
  /\ To(r, "refuse")
  /\ UNCHANGED <<clock, nextSweep, tables, request, refusedAt>>

\* Under the lock: the address is blocked; 429 and c.Abort().
Refuse(r) ==
  /\ pc[r] = "refuse"
  /\ Block(r)
  /\ Return(r)
  /\ UNCHANGED <<clock, nextSweep, visitor, lastSeen, limiters>>

\* The handlers behind the middleware are done with the request.
Handled(r) ==
  /\ pc[r] = "next"
  /\ Return(r)
  /\ UNCHANGED <<clock, nextSweep, tables, refusedAt>>

-----------------------------------------------------------------------------
(* The sweeper, the clock and the process.                                 *)

\* Mutants of Expired: blocks last as long as idle visitors do, and a block
\* ends with the last tick of its duration.
ExpiredWhenIdle(a) == blocked[a] # Never /\ clock - blocked[a] > IdleTimeout
ExpiredEarly(a) == blocked[a] # Never /\ clock - blocked[a] >= BlockedDuration

\* Mutant of Inactive: visitors are forgotten as early as blocks are.
InactiveEarly(a) ==
  visitor[a] # NoLimiter /\ clock - lastSeen[a] > BlockedDuration

Expired(a) == blocked[a] # Never /\ clock - blocked[a] > BlockedDuration
Inactive(a) == visitor[a] # NoLimiter /\ clock - lastSeen[a] > IdleTimeout

\* cleanupVisitors wakes up, drops the expired blocks and the inactive
\* visitors, and sleeps again.
Sweep ==
  /\ clock = nextSweep
  /\ nextSweep' = clock + SweepEvery
  /\ blocked' = [a \in IPs |-> IF Expired(a) THEN Never ELSE blocked[a]]
  /\ visitor' = [a \in IPs |-> IF Inactive(a) THEN NoLimiter ELSE visitor[a]]
  /\ lastSeen' = [a \in IPs |-> IF Inactive(a) THEN 0 ELSE lastSeen[a]]
  /\ UNCHANGED <<clock, limiters, pc, request, refusedAt>>

\* Time passes unless the sweeper is due or a request has been inside the
\* middleware for MaxLatency ticks.
Tick ==
  /\ clock < MaxClock
  /\ clock < nextSweep
  /\ \A r \in Requests : pc[r] \in Inside => clock - seen[r] < MaxLatency
  /\ clock' = clock + 1
  /\ UNCHANGED <<nextSweep, tables, pc, request, refusedAt>>

\* While a request writes the table without the lock, another goroutine that
\* reads or writes it makes the Go runtime end the process ("concurrent map
\* writes"), unless the two happen to miss each other.  The next process starts
\* with empty tables.
MapFault(r) ==
  /\ pc[r] = "mark"
  /\ \/ \E s \in Requests \ {r} : pc[s] \notin {"overflow", "allow", "next"}
     \/ clock = nextSweep
  /\ nextSweep' = clock + SweepEvery
  /\ blocked' = [a \in IPs |-> Never]
  /\ visitor' = [a \in IPs |-> NoLimiter]
  /\ lastSeen' = [a \in IPs |-> 0]
  /\ limiters' = <<>>
  /\ pc' = [s \in Requests |-> "idle"]
  /\ ip' = [s \in Requests |-> NoIP]
  /\ seen' = [s \in Requests |-> 0]
  /\ limiter' = [s \in Requests |-> NoLimiter]
  /\ answered' = [s \in Requests |-> FALSE]
  /\ refusedAt' = [a \in IPs |-> Never]
  /\ UNCHANGED clock

Middleware(r) ==
  \/ \E a \in IPs : Arrive(r, a)
  \/ Reinstate(r) \/ CheckOverflow(r) \/ Mark(r)
  \/ StillBlocked(r) \/ KnownVisitor(r) \/ NewVisitor(r)
  \/ Allow(r) \/ Exceeded(r) \/ Refuse(r) \/ Handled(r)

Next ==
  \/ \E r \in Requests : Middleware(r) \/ MapFault(r)
  \/ Sweep \/ Tick

Spec == Init /\ [][Next]_vars

-----------------------------------------------------------------------------
(* Properties.                                                             *)

Time == 0 .. MaxClock

TypeOK ==
  /\ clock \in Time /\ nextSweep \in Nat
  /\ blocked \in [IPs -> Time \cup {Never}]
  /\ visitor \in [IPs -> 0 .. Len(limiters)]
  /\ lastSeen \in [IPs -> Time]
  /\ limiters \in Seq(Nat)
  /\ pc \in [Requests -> PCs]
  /\ ip \in [Requests -> IPs \cup {NoIP}]
  /\ \A r \in Requests : pc[r] # "idle" => ip[r] \in IPs
  /\ seen \in [Requests -> Time]
  /\ limiter \in [Requests -> 0 .. Len(limiters)]
  /\ answered \in [Requests -> BOOLEAN]
  /\ refusedAt \in [IPs -> Time \cup {Never}]

\* The messages of the middleware say "retry after 30 seconds": no block
\* outlives that.  A client that keeps quiet for BlockedDuration + SweepEvery
\* is out of the table, whatever late writes of older requests have stored.
BlockEndsInTime ==
  \A a \in IPs : blocked[a] # Never =>
    clock - blocked[a] <= BlockedDuration + SweepEvery

\* A client that was told 429 stays blocked for BlockedDuration, less the time
\* its request spent in the middleware: no sweep, no stale time stored by a
\* slower request and no eviction lets it back in earlier.
Lockout ==
  \A a \in IPs :
    refusedAt[a] # Never /\ clock + MaxLatency <= refusedAt[a] + BlockedDuration
      => blocked[a] # Never

\* A request that has its limiter and has not yet asked it uses the limiter the
\* table has for its address: the requests of one address share one bucket.
OneBucketPerVisitor ==
  /\ \A r \in Requests : pc[r] = "allow" => visitor[ip[r]] = limiter[r]
  /\ \A a, b \in IPs : visitor[a] = visitor[b] /\ visitor[a] # NoLimiter => a = b

\* The units of an address: a new visitor would get a full bucket.
Level(a) == IF visitor[a] = NoLimiter THEN Cap ELSE Units(visitor[a])

Levels == [a \in IPs |-> Level(a)]

\* The requests that the limiter has let through.  A request that was answered
\* 429 and reaches the handlers all the same is none of them.
Admitted ==
  [r \in Requests |-> IF pc[r] = "next" /\ ~ answered[r] THEN ip[r] ELSE NoIP]

Bucket == INSTANCE TokenBucket
            WITH Cost <- Period, level <- Levels, admitted <- Admitted,
                 fresh <- (limiters = <<>>)

\* The table of limiters implements one bucket per address that is never reset
\* while the process lives: a visitor is forgotten only when its bucket is full
\* again, and every request that is let through has paid from that bucket.
BucketSpec == Bucket!Spec

\* A comment at c.Abort() says it "Prevents further execution": no request that
\* has been answered 429 runs the handlers behind the middleware.
RefusedNotHandled == \A r \in Requests : pc[r] = "next" => ~ answered[r]

\* The answer carries "retry-after": blockedDuration.  A client that has waited
\* longer than that since its last 429 is not refused because of that block.
RetryAfterHonoured ==
  \A r \in Requests :
    pc[r] = "refuse" /\ limiter[r] = NoLimiter /\ refusedAt[ip[r]] # Never
      => seen[r] - refusedAt[ip[r]] <= BlockedDuration

=============================================================================
