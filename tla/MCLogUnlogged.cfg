SPECIFICATION Spec

CONSTANTS
  Full = TRUE
  UseLog = FALSE
  Rollbacks = TRUE
  Levels = 1
  MaxFlush = 3
  Contended = FALSE
  Closes = FALSE
  MinLogWrap = 99
  MaxData = 2
  ReadSize = 2
  MaxOff = 1
  MaxRecord = 4
  MaxFail = 1

INVARIANTS
  NothingDropped
