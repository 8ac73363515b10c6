SPECIFICATION Spec
CONSTANTS
  Ids = {1, 2}
  Requests = {r1, r2}
  InTx = {}
  ListQueries <- MCListQueries
  Seed = seed
  NoRow = norow
  DefaultPageSize = 2
  MaxPageSize = 2
  LinkDefault = 2
  MaxInt = 7
  MaxTotal = 3
INVARIANT AnswerMeansChange
