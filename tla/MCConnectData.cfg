SPECIFICATION FairSpec

CONSTANTS
  a = a
  b = b
  r = r
  RW = {a, b}
  RO = {r}
  Procs = {{a, b}, {r}}
  Single = {}
  Mortal = {{a, b}}
  TestFails = TRUE
  NRwclient = 2
  MaxCommit = 1

INVARIANTS
  TypeOK
  RoTransIntact
  CommitsRecoverable
  ConnectedSeesCommits
PROPERTIES
  DMS1Released
