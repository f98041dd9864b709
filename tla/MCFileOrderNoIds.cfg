SPECIFICATION SpecNoIds
CONSTANTS
  FlagTypes = {1, 2}
  PredTypes = {1, 2, 3}
  Segments = {1, 2, 3}
  ThreshNum = 1
  ThreshDen = 2
  NoId = NoId
  FallbackBase = 100
INVARIANTS
  SameScoreAnyOrder
CHECK_DEADLOCK FALSE
