SPECIFICATION MCSpec
CONSTANTS
  Singles <- MCSingles
  Paireds <- MCPaireds
  Families <- MCFamilies
  Scale = 48
  Level = 12
INVARIANTS
  HitsOnlyHelp
  NoSideFavoured
  FalseAlarmsRare
  UninformativeSilent
  UnderpoweredIsStructural
  ClosedTesting
CHECK_DEADLOCK FALSE
