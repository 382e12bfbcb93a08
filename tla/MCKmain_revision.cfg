CONSTANTS
  Worlds <- MCWorlds
  MaxTables = 1
  SYSCALL_KERNEL_STACK_PAGES = 1
  THREAD_STACK_PAGES = 1
  DEMO_THREAD_ITERATIONS = 2
  Boot = 0
  Null = null
SPECIFICATION Spec
INVARIANT
  RevisionReported
CHECK_DEADLOCK FALSE
