CONSTANTS
  File = {f1}
  AJob = AJob
  AKey = AKey
  Item = {f1}
  Job = {AJob}
  Key = {AKey}
  Worker = {1, 2, 3}
  NoWorker = 0
  NoItem = NoItem
  JobOf <- OneJob
  KeyOf <- OneKey
  MaxAttempts = 2
  MaxTroubles = 3
SPECIFICATION FairSpec
PROPERTIES
  JobsEnd
  ImplementsJobs
CHECK_DEADLOCK FALSE
