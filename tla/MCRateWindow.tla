---------------------------- MODULE MCRateWindow ----------------------------
(* RateWindow on a small instance.                                         *)
EXTENDS RateWindow, TLC

\* Requests are interchangeable.
WindowSymmetry == Permutations(Requests)

AgeUpTo(bound, t) == IF clock - t < bound THEN clock - t ELSE bound

\* As in MCRateLimiter: states that differ in dates, or in ages beyond what a
\* guard or the property compares, are the same.  The property looks at the age
\* of the window and at what was counted in it, and at no history of 429s.
WindowAges ==
  << nextSweep - clock, limiters = <<>>,
     IF opened = Never THEN Never ELSE clock - opened, admissions,
     [a \in IPs |->
       << IF blocked[a] = Never THEN Never ELSE clock - blocked[a],
          visitor[a] = NoLimiter,
          IF visitor[a] = NoLimiter THEN 0 ELSE AgeUpTo(IdleTimeout + 1, lastSeen[a]),
          Level(a) >>],
     [r \in Requests |->
       << pc[r], ip[r],
          IF pc[r] \in Inside THEN clock - seen[r] ELSE 0,
          IF pc[r] = "allow" THEN limiter[r] = visitor[ip[r]] ELSE FALSE,
          answered[r] >>] >>

=============================================================================
