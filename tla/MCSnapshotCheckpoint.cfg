SPECIFICATION Spec

CONSTANTS
  Conn = {m}
  Readers = {m}
  Writers = {}
  Workers = {m}
  Checkpointers = {m}
  Mortal = {}
  OrphanDeaths = FALSE
  MachineFails = TRUE
  None = None
  NReader = 1
  MaxAttempt = 1
  FirstId = 10
  MaxId = 12
  MaxBlock = 2
  MaxTrans = 0

INVARIANTS
  TypeOK
  CheckpointIntact
  FreelistComplete
PROPERTIES
  CheckpointMonotone
