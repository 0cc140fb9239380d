SPECIFICATION Spec
CHECK_DEADLOCK FALSE
CONSTANTS
    CounterCapacity = 3
    CacheCapacity = 7
    RestartLimit = 2
    MaxSuspended = 4
    MaxStarts = 2
INVARIANTS HandOverInv CyclesAccounted RecoversOwnInputs
PROPERTIES HandOverEnds StopReturns
