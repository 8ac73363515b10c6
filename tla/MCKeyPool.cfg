\* Two keys for three requests: the channel runs empty and refills.
SPECIFICATION FairSpec
CONSTANTS
  Asks = {a1, a2}
  Finds = {f1}
  NumKeys = 2
  QueueTries = 3
  MaxTries = 2
  MaxVersions = 2
INVARIANTS
  TypeOK
  KeyConservation
  ReturnNeverBlocks
  RetryBudget
  InstructionsFresh
PROPERTIES
  LeaseSpec
  EndsOrHangs
