SPECIFICATION Spec
CONSTANTS
    MaxIndex = 1
    MaxRecords = 3
    Payloads = {a, b}
    Empty = Empty
    TooBig = TooBig
    FaultKinds <- MCEraseFaults
    MaxFaults = 1
PROPERTIES DeletedOnlyOnRequest
