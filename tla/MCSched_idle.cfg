CONSTANTS
  Thread = {t1, t2}
  Boot = boot
  None = none
  SCHED_TIME_SLICE_TICKS = 2
  MaxFrames = 3
  Loads <- MixedLoads
SPECIFICATION Spec
INVARIANT
  InterruptibleCode
CHECK_DEADLOCK FALSE
