SPECIFICATION MCSpec
CONSTANTS
    NoRecord = NoRecord
    TooBig = TooBig
    TooLong = TooLong
    yamonrev = yamonrev
    prompt = prompt
    v1 = v1
    v2 = v2
    h1 = h1
    e1 = e1
    POLLSIZE = 5
    HW_LIMIT_STOP = 3
    HW_LIMIT_START = 4
    Modes <- MCModes
    Slack = 1
    MaxSent = 7
    MaxBreaks = 1
    MaxResets = 0
PROPERTIES CallsReturn CommandsFinish ExceptionsEnd TransferEnds DevicesGoOn
CHECK_DEADLOCK FALSE
