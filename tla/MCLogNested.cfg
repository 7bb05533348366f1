SPECIFICATION Spec

CONSTANTS
  Full = FALSE
  UseLog = TRUE
  Rollbacks = TRUE
  Levels = 2
  MaxFlush = 0
  Contended = FALSE
  Closes = FALSE
  MinLogWrap = 99
  MaxData = 2
  ReadSize = 2
  MaxOff = 7
  MaxRecord = 4
  MaxFail = 1

PROPERTIES
  DurableSpec
