CONSTANTS
  BUFFER_SIZE = 3
  Shift = {"lshift", "rshift"}
  Mapped = {"a"}
  Unmapped = {"up"}
  Key <- Keys
  NUL = NUL
  MaxWire = 3
SPECIFICATION Spec
PROPERTIES
  ImplementsFifo
  DropsOnlyWhenFull
  
