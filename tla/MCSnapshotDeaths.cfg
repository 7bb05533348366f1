SPECIFICATION Spec

CONSTANTS
  Conn = {w, m}
  Readers = {w}
  Writers = {w}
  Workers = {m}
  Checkpointers = {}
  Mortal = {w, m}
  OrphanDeaths = FALSE
  MachineFails = FALSE
  None = None
  NReader = 1
  MaxAttempt = 1
  FirstId = 10
  MaxId = 12
  MaxBlock = 1
  MaxTrans = 1

INVARIANTS
  LockedReaderIntact
PROPERTIES
  ReadsCurrentSnapshot
  PublishedMonotone
