CONSTANTS
  Proc = {p1, p2}
  Run = {r1}
  NoRun = NoRun
  Approval = {a1}
  Nothing = Nothing
  Owner <- MCOwner
  MaxStart = 2
  MaxRows = 2
  MaxToken = 3
SPECIFICATION FairSpec
PROPERTIES
  OrphansRecovered
  CancelTakesEffect
  NoRunLeftBehind
CHECK_DEADLOCK FALSE
