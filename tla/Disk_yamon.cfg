SPECIFICATION DiskSpec
CONSTANTS
    LastSector = 2
    LbaEnd = 4
    MemorySlots = 3
    Free = 1
    SECTORS_PER_DOT = 2
    Counts = {1, 2}
INVARIANTS YamonIsKept
CHECK_DEADLOCK FALSE
