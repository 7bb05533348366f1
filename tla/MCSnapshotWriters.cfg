SPECIFICATION FairSpec

CONSTANTS
  Conn = {w, m}
  Readers = {w, m}
  Writers = {w}
  Workers = {m}
  Checkpointers = {}
  Mortal = {}
  OrphanDeaths = FALSE
  MachineFails = FALSE
  None = None
  NReader = 1
  MaxAttempt = 2
  FirstId = 10
  MaxId = 11
  MaxBlock = 1
  MaxTrans = 1

PROPERTIES
  ReadsCurrentSnapshot
  ReadTransReturns
