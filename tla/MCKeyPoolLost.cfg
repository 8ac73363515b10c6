\* A single request and a single key are enough to lose the key.
SPECIFICATION Spec
CONSTANTS
  Asks = {a1}
  Finds = {f1}
  NumKeys = 1
  QueueTries = 3
  MaxTries = 2
  MaxVersions = 1
INVARIANT
  NoKeyLost
