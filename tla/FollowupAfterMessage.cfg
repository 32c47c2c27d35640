CONSTANTS
  Proc = {1}
  Nobody = 0
  NoGoal = NoGoal
  Slot = {1, 2}
  Limits = {1}
  Histories <- OneFollowup
  Judgements <- FewJudgements
  MaxEdits = 2
  MaxMessages = 2
  MaxCrashes = 1
  Revs = {}
SPECIFICATION Spec
INVARIANTS
  FollowupYieldsToUser
CHECK_DEADLOCK FALSE
