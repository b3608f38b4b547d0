CONSTANTS
    Callers = {t1}
    dir = dir
    file = file
    Paths <- MCPaths
    Under <- MCUnder
    InitKind <- MCInitKind
    Empty = Empty
    Modes = {m766, symbolic}
    Numeric = {m766}
    StreamLimit = 1
    MaxOthers = 1
SPECIFICATION FilesSpec
INVARIANT
    RmFileTrueMeansGone
