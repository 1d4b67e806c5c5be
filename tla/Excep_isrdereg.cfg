SPECIFICATION Spec
CONSTANTS
    h1 = h1
    h2 = h2
    e1 = e1
    CpuLines <- MCCpuLines
    IcLines <- MCIcLines
    IcInt = 2
    SerialLine = 4
    PER_LINE = 2
    Isrs = {h1, h2}
    Esrs = {}
    IsrCalls = TRUE
    Debugger = TRUE
    Defaults = FALSE
    MaxRaise = 1
INVARIANTS UnmaskedHasHandler
