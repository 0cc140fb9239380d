SPECIFICATION Spec
CONSTANTS
    Size = 4
    Requests = {1, 2, 3, 5}
    MaxBytes = 8
INVARIANTS RingInv CopiesDisjoint
PROPERTIES ReturnsOldest ImplementsByteStream
