SPECIFICATION MCSpec
CONSTANTS
    Empty = Empty
    TooBig = TooBig
    TooLong = TooLong
    yamonrev = yamonrev
    prompt = prompt
    cpuconfig = cpuconfig
    user = user
    v1 = v1
    v2 = v2
    v3 = v3
    MaxIndex = 3
    MaxRecords = 5
    Names <- MCNames
    Values <- MCValues
    Payloads <- MCPayloads
    SystemVars <- MCSystemVars
    ValidValues <- MCValidValues
    FaultKinds <- MCAllFaults
    MaxFaults = 1
    Transfers <- MCPatient
    Room = 7
    BlockSize = 2
    MaxBlock = 7
    BufferCount = 2
    OpenRetry = 2
    MaxRetry = 3
    Tids = {1, 2}
    HostRetry = 2
    HostErrors = TRUE
    FlashFails = FALSE
INVARIANTS TableMirrorsLog SystemVarsInForce
    ReadInOrder CompleteMeansAll LastBlockAcknowledged FewLossesSucceed
PROPERTIES AllIsRemoved
