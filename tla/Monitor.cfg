SPECIFICATION MCSpec
CONSTANTS
    h1 = h1
    h2 = h2
    CpuLines = {0, 2}
    IcLines = {1, 4}
    IcInt = 2
    SerialLine = 4
    PER_LINE = 2
    Isrs = {h1, h2}
    Esrs = {}
    IsrCalls = FALSE
    Debugger = TRUE
    Defaults = FALSE
    MaxRaise = 1
    Last = 5
    Readable = {0, 1, 2, 3, 4, 5}
    Writable = {0, 1, 2, 3, 4}
    Lost = {3}
    Texts <- MCTexts
    Signals = {1}
    checksum_on = TRUE
    MaxPackets = 3
INVARIANTS TablesAreSound UnmaskedHasHandler ConsoleAlive LineIsSound PassesAgree
    LoadIsSound CommandsAreExact MemoryIsTheHosts
PROPERTIES StepIsOne
CHECK_DEADLOCK FALSE
