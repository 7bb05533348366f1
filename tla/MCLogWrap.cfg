SPECIFICATION Spec

CONSTANTS
  Full = TRUE
  UseLog = TRUE
  Rollbacks = FALSE
  Levels = 1
  MaxFlush = 0
  Contended = FALSE
  Closes = TRUE
  MinLogWrap = 2
  MaxData = 2
  ReadSize = 2
  MaxOff = 9
  MaxRecord = 5
  MaxFail = 1

INVARIANTS
  CheckpointCovered
  CheckpointInLog
  RegionsOrdered
PROPERTIES
  DurableSpec
  RecoveryShape
