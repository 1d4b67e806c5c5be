SPECIFICATION Spec
CONSTANTS
    RDRE_COUNT = 2
    TDRE_COUNT = 2
    MaxArrivals = 1
    MaxWrites = 3
    MaxInits = 1
PROPERTY SentInOrder
CHECK_DEADLOCK FALSE
