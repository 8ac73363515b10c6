\* One client, one request at a time, every step of the middleware immediate.
SPECIFICATION Spec
CONSTANTS
  IPs = {x}
  Requests = {r1}
  Period = 2
  Burst = 2
  BlockedDuration = 3
  SweepEvery = 3
  IdleTimeout = 36
  MaxBlocked = 21
  MaxLatency = 0
  MaxClock = 12
INVARIANT
  RetryAfterHonoured
