CONSTANTS
  PAGE_SIZE = 2
  MemMaps <- Maps
SPECIFICATION Spec
INVARIANTS
  Partition
  CountExact
  FailsOnlyWhenExhausted
CHECK_DEADLOCK FALSE
