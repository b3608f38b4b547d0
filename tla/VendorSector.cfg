CONSTANTS
    Callers = {t1, t2}
    Requests <- MCRequests
    InitSector <- MCInitSector
    Garbage = Garbage
SPECIFICATION Spec
INVARIANTS
    DescriptorsBalanced
    RestPreserved
    TrueMeansStored
PROPERTY
    BehavesAtomically
