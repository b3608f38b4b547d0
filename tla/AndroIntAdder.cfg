CONSTANTS
    Clients = {c1, c2}
    NoClient = NoClient
    Pairs <- MCPairs
    Half = 8
    MaxAdds = 3
SPECIFICATION FairSpec
CHECK_DEADLOCK FALSE
INVARIANTS
    NeverTorn
    SumUnlessDisturbed
PROPERTY
    EveryAddReturns
