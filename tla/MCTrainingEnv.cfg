\* Two clients, two workers, one program each, one fault.
SPECIFICATION Spec
CONSTANTS
    Clients = {c1, c2}
    Workers = {w1, w2}
    NumPrograms = 1
    MaxFaults = 1
    None = None
    Waiting = Waiting
    Closed = Closed
    Reset = Reset
INVARIANTS
    TypeOK
    JobGetsOwnResults
    WorksForItsHirer
PROPERTIES
    AllEnd
    PoolRefined
