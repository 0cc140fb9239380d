SPECIFICATION Spec
CONSTANTS
  f = f
  c = c
  ForcePendingFn = ForcePendingFn
  Corrupted = Corrupted
  Functions <- MCFunctions
  Crucial <- MCCrucial
  Tests <- MCTests
  Times = {1, 2, 3}
  Steps = {1}
  Sizes = {4, 8}
  ResizePending = FALSE
  BlockSize = 1
  TagLimit = 6
  MaxNow = 1
VIEW MCView
INVARIANTS HeapInv ScansExact
PROPERTIES NoMissedDeadline ImplementsQueue
