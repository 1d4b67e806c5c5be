SPECIFICATION MCSpec
CONSTANTS
    RDRE_COUNT = 3
    TDRE_COUNT = 2
    MaxArrivals = 5
    MaxWrites = 3
    MaxInits = 2
    Core <- TwoByTwo
    WORD = 2
    BLOCK = 4
    BANK = 4
    SystemEnd = 8
    LockEnd = 12
    MonitorEnd = 12
    FileEnd = 16
    MaxLength = 3
    WithinArea = TRUE
    MaxCalls = 2
    POLLSIZE = 7
    HW_LIMIT_STOP = 5
    HW_LIMIT_START = 6
    Modes <- AllModes
    Slack = 1
    MaxSent = 8
    MaxBreaks = 2
    MaxResets = 1
    LastSector = 5
    LbaEnd = 8
    MemorySlots = 5
    Free = 1
    SECTORS_PER_DOT = 2
    Counts = {1, 2, 3, 4}
    PCI_MAX_DEV = 4
    ADDRESSES = 32
    PCI_ALIGN = 2
    MemStart = 8
    MemEnd = 18
    IoStart = 0
    IoEnd = 4
    RedStart = 12
    RedEnd = 13
    Machines <- PciMachines
INVARIANTS RingsAreSound FlashIsSound AddressesAreSound BufferIsSound DiskIsSound ClockAndIdentityAreExact CpusRunAsTold ArithmeticIsExact
PROPERTIES HandedOverInOrder
CHECK_DEADLOCK FALSE
