SPECIFICATION Spec

CONSTANTS
  Conn = {w, r}
  Writers = {w}
  Mortal = {w}
  Sub = {s1}
  NReader = 2
  Room = 2
  MaxChunk = 3
  ShmidMod = 64
  MaxShm = 16
  Levels = 2
  MaxWrite = 3
  MaxTrans = 2
  MaxDeath = 1

INVARIANTS
  TypeOK
  TreeReaderIntact
  CommittedIntact
  ChunksLinked
