SPECIFICATION FifoSpec
CONSTANTS
  Size = 4
  FlushedBy = "consumer"
  MaxFunctions = 9
INVARIANTS FifoInv
PROPERTIES ImplementsFunctionQueue
