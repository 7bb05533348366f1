SPECIFICATION Spec

CONSTANTS
  NKey = 3
  NMerge = 2
  MaxOp = 3
  MaxLevel = 3

INVARIANTS
  ScansMatchMap
  EqMatchesMap
  SeeksMatchMap
  LeFastNotBelow
  RangesMatch

CHECK_DEADLOCK FALSE
