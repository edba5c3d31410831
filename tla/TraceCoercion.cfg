SPECIFICATION TracesSpec
CONSTANTS
  AlignmentBits = 31
  Whole = 30
  Configs <- MCConfigs
  Entry <- MCEntry
  MaxEntries = 6
  Damage = 1
  Parts = {"codec"}
INVARIANT NeverCoerced
CHECK_DEADLOCK FALSE
