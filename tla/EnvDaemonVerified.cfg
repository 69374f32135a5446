\* One request, no restart: what a "Success" says of the verification.
SPECIFICATION Spec
CONSTANTS
    Targets = {t1}
    LitTests = {t1}
    Passes = {NoPasses, p1}
    NoPasses = NoPasses
    PyCaller = PyCaller
    None = None
    MaxJobs = 1
    MaxRestarts = 0
INVARIANT SuccessIsVerified
