SPECIFICATION Spec
CONSTANTS
  DefaultPageSize = 3
  MaxPageSize = 4
  LinkDefault = 3
  MaxInt = 15
  MaxTotal = 9
INVARIANTS
  TypeOK
  ReadsItsPage
  PagesPartition
PROPERTY
  LinksTile
