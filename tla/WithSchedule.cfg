SPECIFICATION Spec
CONSTANTS
  Bodies <- WholeTimes
  PoolSize = 1
  MaxHeaps = 3
  Flushers = {"rt", "user"}
  MaxFlushes = 1
  IdleTicks = 2
  MaxNow = 14
CHECK_DEADLOCK FALSE
INVARIANTS HeapsInv CalledAsScheduled
PROPERTIES AllCalled FlushCancels
