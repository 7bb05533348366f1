SPECIFICATION Spec

CONSTANTS
  NKey = 3
  NMerge = 2
  MaxOp = 2
  MaxLevel = 3

INVARIANTS
  ReseekMatchesMap

CHECK_DEADLOCK FALSE
