CONSTANTS
  File = {f1}
  AJob = AJob
  AKey = AKey
  Item = {f1}
  Job = {AJob}
  Key = {AKey}
  Worker = {1}
  NoWorker = 0
  NoItem = NoItem
  JobOf <- OneJob
  KeyOf <- OneKey
  MaxAttempts = 2
  MaxTroubles = 0
SPECIFICATION FairSpec
PROPERTIES
  CancelsEnd
CHECK_DEADLOCK FALSE
