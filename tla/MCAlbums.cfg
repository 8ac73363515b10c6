SPECIFICATION FairSpec
CONSTANTS
  Ids = {1, 2}
  Requests = {r1, r2, t1}
  InTx = {t1}
  ListQueries <- MCListQueries
  Seed = seed
  NoRow = norow
  DefaultPageSize = 2
  MaxPageSize = 2
  LinkDefault = 2
  MaxInt = 7
  MaxTotal = 3
INVARIANTS
  TypeOK
  FailedLeavesNothing
  AnsweredIsStored
  ReadsCommitted
PROPERTIES
  TableSpec
  SteadyPage
  AllEnd
