CONSTANTS
  Run = {r1, r2}
  NoRun = NoRun
  Owner = {o1, o2}
  Approval = {a1}
  Nothing = Nothing
  MaxRows = 4
  MaxToken = 4
SPECIFICATION MCSpec
INVARIANTS
  JournalTypeOK
  LeaseIsCurrent
  EndedForGood
  TokensInOrder
PROPERTIES
  ImplementsSingleWriterLog
SYMMETRY MCSymmetry
CHECK_DEADLOCK FALSE
