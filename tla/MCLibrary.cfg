CONSTANTS
  LONG_VALUES = 256
  INT_VALUES = 16
  POINTER_WIDTH = 2
  DIGITS = 4
  Char <- Characters
  NULL = NULL
  NUL = NUL
  MADT_HEADER = 2
  ENTRY_HEADER = 2
  None = none
  Panic = panic
  Directives <- Numbers
  Words <- AllWords
  Texts <- Formats
  Sizes = {0, 1, 2, 3, 6, 7}
  Byte = {0, 1, 2}
  Contents <- FiveBytes
  Firmwares <- Machines
SPECIFICATION Spec
INVARIANTS
  NumbersReadBack
  SnprintfBounded
  MovesWhole
  MadtExact
CHECK_DEADLOCK FALSE
