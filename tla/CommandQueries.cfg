CONSTANTS
    SIZE = 4
    PipeCap = 1
    Yes = a
    Other = b
    Flag = b
    Success = a
    Letter = {a, b}
    MaxOut = 5
    SIZE_1K = 2
    Outputs <- MCOutputs
    Rates <- MCRates
    Number <- MCNumber
    Upper <- MCUpper
    Values <- MCValues
    Bytes <- MCBytes
    Sizes <- MCSizes
SPECIFICATION QuerySpec
INVARIANTS
    BufferInBounds
    ResultIsOutput
    QueryAnswer
PROPERTY
    QueryReturns
CHECK_DEADLOCK FALSE
