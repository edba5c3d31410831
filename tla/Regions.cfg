SPECIFICATION RegionsSpec
CONSTANTS
  FileBacked = FALSE
  Creator = creator
  Openers = {opener1, opener2}
  MaxLives = 1
  HeaderSize = 32
  Total = 112
  Grain = 16
  MaxAlign = 4096
  Request <- MCRequest
  None = None
INVARIANTS NoByteTwice AnnouncedStaysPut HandshakeSound
PROPERTY EveryoneEnds
CHECK_DEADLOCK FALSE
