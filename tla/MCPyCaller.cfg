\* Inputs that fit into a pipe and that do not; codes at both ends of a byte.
SPECIFICATION Spec
CONSTANTS
    Sizes = {0, 1, 3}
    PipeSize = 2
    ReturnCodes <- MCReturnCodes
    None = None
INVARIANTS
    SuccessIsReal
    RecordedOnWholeInput
PROPERTIES
    CallerFollowsActor
    InputIsRead
