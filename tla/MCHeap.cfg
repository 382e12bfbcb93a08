CONSTANTS
  HEAP_SIZE = 36
  MIN_SPLIT_SIZE = 2
  HDR = 4
  WORD = 64
  NULL = NULL
  Requests <- Ordinary
SPECIFICATION Spec
INVARIANTS
  TypeOK
  Tiled
  Coalesced
  LiveExact
  RequestHonoured
  NothingLost
PROPERTIES
  FailsOnlyIfFull
  Terminates
