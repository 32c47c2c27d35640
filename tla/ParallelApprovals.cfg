CONSTANTS
  Proc = {p1}
  Run = {r1}
  NoRun = NoRun
  Approval = {a1, a2}
  Nothing = Nothing
  Owner <- MCOwner
  MaxStart = 2
  MaxRows = 5
  MaxToken = 4
SPECIFICATION Spec
PROPERTIES
  ApprovalsSurvive
SYMMETRY MCSymmetry
CHECK_DEADLOCK FALSE
