--------------------------- MODULE MCRateLimiter ----------------------------
(* RateLimiter on small instances.                                         *)
EXTENDS RateLimiter, TLC

\* Addresses are interchangeable, and so are request goroutines.
LimiterSymmetry == Permutations(IPs) \cup Permutations(Requests)

AgeUpTo(bound, t) == IF clock - t < bound THEN clock - t ELSE bound

\* No guard and no property looks at a time other than to compare its age with
\* a constant: two states that differ in nothing but the date, or in ages beyond
\* every such constant, are the same state to TLC.
Ages ==
  << nextSweep - clock, limiters = <<>>,
     [a \in IPs |->
       << IF blocked[a] = Never THEN Never ELSE clock - blocked[a],
          visitor[a] = NoLimiter,
          IF visitor[a] = NoLimiter THEN 0 ELSE AgeUpTo(IdleTimeout + 1, lastSeen[a]),
          Level(a),
          IF refusedAt[a] = Never THEN Never
          ELSE AgeUpTo(BlockedDuration + MaxLatency + 1, refusedAt[a]) >>],
     [r \in Requests |->
       << pc[r], ip[r],
          IF pc[r] \in Inside THEN clock - seen[r] ELSE 0,
          IF pc[r] = "allow" THEN limiter[r] = visitor[ip[r]] ELSE FALSE,
          answered[r] >>] >>

=============================================================================
