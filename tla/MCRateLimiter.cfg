SPECIFICATION Spec
CONSTANTS
  IPs = {x, y}
  Requests = {r1, r2}
  Period = 1
  Burst = 2
  BlockedDuration = 2
  SweepEvery = 2
  IdleTimeout = 3
  MaxBlocked = 1
  MaxLatency = 1
  MaxClock = 14
SYMMETRY LimiterSymmetry
VIEW Ages
INVARIANTS
  TypeOK
  BlockEndsInTime
  Lockout
  OneBucketPerVisitor
PROPERTY
  BucketSpec
