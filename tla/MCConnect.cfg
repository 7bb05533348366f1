SPECIFICATION Spec

CONSTANTS
  a = a
  b = b
  c = c
  s = s
  RW = {a, b, c, s}
  RO = {}
  Procs = {{a, b}, {c}, {s}}
  Single = {{s}}
  Mortal = {{a, b}}
  TestFails = FALSE
  NRwclient = 1
  MaxCommit = 0

INVARIANTS
  LocksBacked
  ConnectSerialized
PROPERTIES
  NoRecoveryWhileConnected
