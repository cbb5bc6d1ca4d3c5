SPECIFICATION Spec
CONSTANTS
    MaxIter = 4
    ArmijoMax = 2
    MaxSearchFailures = 2
    Warmup = 1
    ProxSteps = 2
    None = None
INVARIANTS
    DirectionIsOfThisPoint
    ResultIsDescribed
CHECK_DEADLOCK FALSE
