CONSTANTS
  Thread = {t1, t2}
  Boot = boot
  None = none
  SCHED_TIME_SLICE_TICKS = 2
  MaxFrames = 3
  Loads <- AllLoads
SPECIFICATION Spec
INVARIANTS
  TypeOK
  RingIntact
  NeverSpins
  PureOwnContext
  CurrentIsRunning
  PureInterruptibleCode
  HandlerAtomic
PROPERTIES
  ImplementsRoundRobin
  EveryThreadRuns
CHECK_DEADLOCK FALSE
