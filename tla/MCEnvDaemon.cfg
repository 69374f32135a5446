\* Two requests, for the same target or not, and one restart.
SPECIFICATION Spec
CONSTANTS
    Targets = {t1, t2}
    LitTests = {t1}
    Passes = {NoPasses, p1}
    NoPasses = NoPasses
    PyCaller = PyCaller
    None = None
    MaxJobs = 2
    MaxRestarts = 1
INVARIANTS
    SuccessIsOwnBuild
    ProfileIsOwn
    FeaturesAreOwn
PROPERTIES
    RequestEnds
    ServiceRefined
