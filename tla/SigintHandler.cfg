\* Main and two children, three workers: what line 116 says of the handler.
SPECIFICATION Spec
CONSTANTS
    Procs = {main, child1, child2}
    maxWorkerNum = 3
    None = None
PROPERTY EveryWorkerStops
