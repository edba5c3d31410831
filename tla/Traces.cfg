SPECIFICATION TracesSpec
CONSTANTS
  AlignmentBits = 31
  Whole = 30
  Configs <- MCConfigs
  Entry <- MCEntry
  MaxEntries = 6
  Damage = 2
  Parts = {"workload", "validator", "codec"}
INVARIANTS
  IdsPartitioned OwnerFrees TablesAgree AcceptsExactly BinaryExact JsonExact
PROPERTIES
  PassesValidation EndsReleased
CHECK_DEADLOCK FALSE
