SPECIFICATION Spec
CONSTANTS
    CycleLens <- MCCycleLens
    RingBytes = 63
    BufSize = 32
    OutBytes = 3
    RestartLimit = 1
    MaxEvents = 3
    MaxMessages = 2
    MaxSuspended = 2
    MaxStarts = 2
INVARIANTS ReadInv ReceivedInOrder OutputsInOrder
PROPERTIES ArrivalWakes StopEnds
