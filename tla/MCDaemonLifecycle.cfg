\* An operator who may be hasty once; one crash, one kill, one overtaken exit.
SPECIFICATION Spec
CONSTANTS
    Pids = {p1, p2}
    None = None
    Empty = Empty
    MaxHasty = 1
    MaxOvertaken = 1
    MaxKills = 1
    MaxCrashes = 1
INVARIANTS
    ServerIsNamed
    StaleOnlyIfAbrupt
PROPERTIES
    RemovesOnlyOwn
    TryAgainHelps
