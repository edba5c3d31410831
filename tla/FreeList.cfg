SPECIFICATION Spec
CONSTANTS
  HeaderSize = 48
  FooterSize = 16
  MinBlock = 72
  Quantum = 16
  SuperblockSize = 256
  MaxBytes = 768
  Places <- MCPlaces
  Garbage = {0, 4096}
  MaxAllocation = 512
  Request <- MCRequest
  MaxIds = 4
INVARIANTS ChainTiles ListsAgree Accounting
PROPERTY ImplementsContract
