CONSTANTS
  p1 = p1
  p2 = p2
  s1 = s1
  s2 = s2
  Proc = {p1, p2}
  Nobody = Nobody
  NoGoal = NoGoal
  Slot = {s1, s2}
  Limits = {1}
  Histories <- OneFollowup
  Judgements <- FewJudgements
  MaxEdits = 3
  MaxMessages = 1
  MaxCrashes = 1
  Revs = {1, 2, 3, 4, 5, 6, 7}
SYMMETRY MCSymmetry
SPECIFICATION Spec
INVARIANTS
  TypeOK
  FollowupsBounded
  TurnsOnce
  NoLostEdit
  RunsOnCurrentGoal
PROPERTIES
  ImplementsOutbox
CHECK_DEADLOCK FALSE
