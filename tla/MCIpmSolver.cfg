SPECIFICATION Spec
CONSTANTS
    OuterMax = 4
    InnerMax = 2
    MuSteps = 5
    ExtraMax = 2
    Warmup = 1
    None = None
INVARIANTS
    ResidualIsCurrent
    StatusDescribesResult
    EarlyStopIsAStall
PROPERTY
    Termination
CHECK_DEADLOCK FALSE
