CONSTANTS
  Proc = {1}
  Nobody = 0
  NoGoal = NoGoal
  Slot = {1, 2}
  Limits = {1}
  Histories <- OneFollowup
  Judgements <- FewJudgements
  MaxEdits = 2
  MaxMessages = 1
  MaxCrashes = 1
  Revs = {1, 2, 3, 4, 5, 6, 7}
SPECIFICATION FairSpec
PROPERTIES
  TurnsJudged
  ReservationsSettle
  DepositsAcknowledged
CHECK_DEADLOCK FALSE
