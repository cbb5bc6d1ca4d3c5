SPECIFICATION Spec
CONSTANTS
    OuterMax = 2
    InnerMax = 1
    MuSteps = 2
    ExtraMax = 0
    Warmup = 0
    None = None
INVARIANT
    CompletedScheduleWasSolved
CHECK_DEADLOCK FALSE
