\* One address, two of its requests at a time, a token every two ticks.
SPECIFICATION WindowSpec
CONSTANTS
  IPs = {x}
  Requests = {r1, r2}
  Period = 2
  Burst = 2
  BlockedDuration = 2
  SweepEvery = 2
  IdleTimeout = 5
  MaxBlocked = 0
  MaxLatency = 1
  MaxClock = 14
SYMMETRY WindowSymmetry
VIEW WindowAges
INVARIANT
  RateBounded
