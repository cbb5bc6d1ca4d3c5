SPECIFICATION Spec
CONSTANTS
    Threshold = 10
    SigmaCap = 30
    FlipRatio = 50
    PairTolP = 8
    PairTolQ = 30
    PairZMin = 5
    PairSigmaMult = 5
    DampFactor = 3
    VRefineThreshold = 3
    VRefineDivisor = 2
    MaxPuDev = 200
    MinLift = 10
    CrossAtMinVnom = 110
    MaxDepth = 3
    None = None
    Cases <- MCCases
INVARIANT
    MovedAgainOnlyFromNominal
PROPERTIES
    BadDataKeepsCoverage
    MirrorsOnlyLift
CHECK_DEADLOCK FALSE
