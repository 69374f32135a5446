SPECIFICATION Spec
CONSTANTS
    Roots <- MCRoots
    Walk <- MCWalk
    dirOf <- MCdirOf
    rootOf <- MCrootOf
    Skipped = {"B"}
    Measurable = {"a1", "c"}
    Profiled <- MCProfiled
    PassSets = {1, 2}
    ManyLists = 2
    MaxRound = 2
    None = None
    Empty = Empty
INVARIANT
    ListedAreActors
