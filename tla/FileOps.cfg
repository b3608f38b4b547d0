CONSTANTS
    Callers = {t1, t2}
    dir = dir
    file = file
    Paths <- MCPaths
    Under <- MCUnder
    InitKind <- MCInitKind
    Empty = Empty
    Modes = {m766}
    Numeric = {m766}
    StreamLimit = 2
    MaxOthers = 1
SPECIFICATION FilesSpec
SYMMETRY Symmetric
INVARIANTS
    RmFileAnswer
    ChmodTrueHolds
    ExhaustionIsFinal
PROPERTIES
    ChmodFileSparesDirectories
