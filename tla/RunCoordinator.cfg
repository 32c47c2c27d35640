CONSTANTS
  Proc = {p1, p2}
  Run = {r1, r2}
  NoRun = NoRun
  Approval = {a1}
  Nothing = Nothing
  Owner <- MCOwner
  MaxStart = 2
  MaxRows = 3
  MaxToken = 3
SPECIFICATION Spec
INVARIANTS
  TypeOK
  StreamKeepsLease
  CancelledRunEnded
  AnsweredOnce
PROPERTIES
  LiveRunsNotInterrupted
  ApprovalsSurvive
  ImplementsJournal
SYMMETRY MCSymmetry
CHECK_DEADLOCK FALSE
