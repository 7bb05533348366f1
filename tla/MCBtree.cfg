SPECIFICATION Spec

CONSTANTS
  Preload <- Ascending
  Sizes = {0, 3, 4, 7, 10}
  Keys = {1, 4, 9, 21}
  Ranges <- SomeRanges
  MaxOp = 3
  MaxTrans = 3

INVARIANTS
  WorkingMatchesMap
  VersionsMatchMaps
  WellFormed
  DeleteRangesMatch
