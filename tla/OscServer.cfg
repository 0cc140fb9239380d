SPECIFICATION Spec
CONSTANTS
    Sizes = {1, 3}
    Prefix = 1
    MaxLen = 3
    MaxConns = 2
    MaxAccepts = 2
    MaxWay = 4
CHECK_DEADLOCK FALSE
INVARIANTS TableInv MessagesWhole
PROPERTIES ArrivedIsRead
