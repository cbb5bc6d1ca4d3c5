SPECIFICATION Spec
CONSTANTS
    None = None
    Sentinel = 9999
    Inf = 100000
    DefaultHalf = 50
    BusWidth = 60
    BusVar = 9
    HardFactor = 4
    Characteristics <- MCCharacteristics
    Cases <- MCCases
    LowVoltage <- MCLow
    Inputs <- MCInputs
    BaseRuns <- MCBaseRuns
    ColdRuns <- MCColdRuns
    Gate = 5
    MaxCandidates = 2
    Threshold = 3
    MaxRejections = 1
    DefaultConfig <- Config
INVARIANTS
    ReadingsEnterOnce
    BalanceCloses
    EstimatesDescribeRows
    ReportMatchesResult
CHECK_DEADLOCK FALSE
