CONSTANTS
  Subscriber = {s1}
  QueueSize = 2
  PageSize = 2
  MaxRow = 5
SPECIFICATION Spec
INVARIANTS
  TypeOK
  GapsRepairable
PROPERTIES
  ImplementsFeed
CHECK_DEADLOCK FALSE
