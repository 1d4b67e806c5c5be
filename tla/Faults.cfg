SPECIFICATION MCSpec
CONSTANTS
    MaxIndex = 1
    MaxRecords = 3
    Payloads = {a, b}
    Empty = Empty
    TooBig = TooBig
    FaultKinds <- MCAllFaults
    MaxFaults = 2
    Near = {"a", "gw"}
    Far = {"far"}
    Gateway = "gw"
    Me = "me"
    NoAddr = "none"
    Drivers = {"SAA9730", "AM79C973"}
    Setups = {"ok", "no_gateway"}
    SapCount = 2
    SapTimeout = 1
    PollTimeout = 1
    OpenLoop = 2
    PingRetry = 1
    Pings <- MCPings
    Never = 3
    Unasked <- MCUnasked
    Budgets <- MCBudgets
    MaxNesting = 2
INVARIANTS TypeOK LookupNamesNewest CollectionMakesRoom LogIsSound
    CacheIsSound SentToNextHop
PROPERTIES CutWhileStoringIsContained ImplementsStore SuccessIsHeard EntriesAgeOut
