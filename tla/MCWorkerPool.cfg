\* As many processes as workers, one program to try, again and again.
SPECIFICATION PoolSpec
CONSTANTS
    Clients = {c1, c2, c3}
    Workers = {w1, w2, w3}
    NumPrograms = 1
    None = None
INVARIANTS
    ExclusiveHire
    ScanFindsWorker
    UnavailableIsHired
PROPERTIES
    LockIsReleased
    AllocationRefined
