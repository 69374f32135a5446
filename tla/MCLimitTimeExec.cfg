\* The limit is reached at the third poll; make or lit and two processes under it.
SPECIFICATION Spec
CONSTANTS
    LimitTime = 2
    WaitUnit = 1
    ExecProc = ExecProc
    Cmd = Cmd
    Subs = {s1, s2}
    Init1 = Init1
    None = None
INVARIANTS
    SoundReturn
    KilledOnlyAfterLimit
    SurvivorsLateOrOrphaned
PROPERTIES
    CallEnds
