CONSTANTS
  PAGE_SIZE = 1
  MemMaps <- SmallMap
  LEVELS = 3
  ENTRIES = 3
  Cr3 = 1
  BootTables <- Limine
  VMM_DYNAMIC_VBASE = 19
  VMM_MMIO_VBASE = 26
  MAX_LAZY_REGIONS = 1
  Absent = absent
  Regions <- LazyRegions
  UserPages = {0}
  FlagSets <- Flags
  PageCounts = {1, 2}
  Devices = {100}
  MaxOwned = 1
SPECIFICATION Spec
INVARIANTS
  TypeOK
  NoSharing
  FramesAccounted
  GuardsHold
PROPERTIES
  ImplementsAddressSpace
  ImplementsPmm
CHECK_DEADLOCK FALSE
