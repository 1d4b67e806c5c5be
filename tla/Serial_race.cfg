SPECIFICATION SerialSpec
CONSTANTS
    POLLSIZE = 5
    HW_LIMIT_STOP = 3
    HW_LIMIT_START = 4
    Modes <- MCInterrupts
    Slack = 1
    MaxSent = 6
    MaxBreaks = 2
    MaxResets = 0
PROPERTIES FlushMovesForward
