CONSTANTS
  File = {f1, f2}
  AJob = AJob
  AKey = AKey
  Item = {f1, f2}
  Job = {f1, f2}
  Key = {AKey}
  Worker = {1, 2}
  NoWorker = 0
  NoItem = NoItem
  JobOf <- OwnJob
  KeyOf <- OneKey
  MaxAttempts = 2
  MaxTroubles = 1
SPECIFICATION Spec
INVARIANTS
  TypeOK
  JobsSettled
  WorkerKeepsItem
  IngestedOnce
  MarkedIsQueued
PROPERTIES
  SyncsSerial
SYMMETRY MCSymmetry
CHECK_DEADLOCK FALSE
