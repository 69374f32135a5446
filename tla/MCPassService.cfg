\* Three compilers, two at a time; the first and the last for one function.
SPECIFICATION Spec
CONSTANTS
    Compilers = {1, 2, 3}
    f = f
    g = g
    Funcs <- MCFuncs
    fn <- MCfn
    Passes = {p, q}
    Jobs = 2
    Threshold = 2
    MaxStops = 1
    None = None
INVARIANTS
    ReplyIsOwn
    DistinctPasses
    HistoryIsGone
PROPERTIES
    WaitersAreServed
CHECK_DEADLOCK FALSE
