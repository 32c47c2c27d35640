SPECIFICATION FairSpec
CONSTANTS
  Scope = {s1}
  Server = {m1, m2}
  Call = {1, 2}
  MaxSessions = 1
  MaxOwners = 2
INVARIANTS
  TypeOK
  SessionsOwned
  PoolCoherent
PROPERTIES
  CallsReturn
  RemovedSessionsEnd
CHECK_DEADLOCK FALSE
