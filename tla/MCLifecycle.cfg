SPECIFICATION FairSpec
CONSTANTS
  Calls = {c1, c2}
  Ports = {p1, p2}
  Keys = {k1, k2}
  defaultServerPort = p0
  Unset = unset
  Empty = empty
INVARIANTS
  TypeOK
  ServesConfigured
  ExitStatus
PROPERTY
  StopsWhenAsked
