SPECIFICATION NetSpec
CONSTANTS
    Near = {"a", "gw"}
    Far = {"far"}
    Gateway = "gw"
    Me = "me"
    NoAddr = "none"
    Drivers = {"SAA9730", "AM79C973"}
    Setups = {"ok"}
    SapCount = 2
    SapTimeout = 1
    PollTimeout = 1
    OpenLoop = 2
    PingRetry = 1
    Pings <- MCPings
    Never = 3
    Unasked <- MCUnasked
    Budgets <- MCTwoPings
    MaxNesting = 1
PROPERTY TimeOutMeansSilence
CHECK_DEADLOCK FALSE
