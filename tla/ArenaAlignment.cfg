SPECIFICATION BenchSpec
CONSTANTS
  ObjectSize = 24
  PageSize = 128
  HeaderSize = 64
  MaxBytes = 300
  PageBases = {0, 128, 384}
  Request <- MCRequest
  FixedSetup <- MCFixed
  ClassSetup <- MCClass
  ArenaSetup <- MCArena
  SegregatedSetup <- MCSegregated
  SystemSetup <- MCSystem
  AlignedSetup <- MCAligned
  DirectSetup <- MCDirect
  PoolSetup <- MCPool
  PinnedSetup <- MCPinned
  MaxIds = 5
  Strategies = {"arena"}
INVARIANT ArenaAlignmentHonoured
