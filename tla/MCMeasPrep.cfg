SPECIFICATION Spec
CONSTANTS
    None = None
    Sentinel = 9999
    Inf = 100000
    QuestionableFactor = 100
    SignThreshold = 100
    QFloor = 50
    QRelPct = 30
    QLossFactor = 100
    MinFilterVn = 110
    UpperMargin = 10
    UpperFallback = 140
    PhysicalLow = 50
    PhysicalHigh = 150
    GenVSigma2 = 10
    RelaxSigma = 3
    ZeroInjVariance = 10000
    TransitVariance = 1
    EmptyFactor = 100
    LoadFactor = 10
    BoundaryFactor = 100
    ScopeFactor = 100
    MaxDeclared = 50000
    MaxNegative = 100
    MirrorBase = 20
    ExternalBase = 25
    PseudoBase = 30
    Cases <- MCCases
INVARIANTS
    FinalVarianceIsKept
    EveryNodeIsAnchored
    ActiveRowsAreLive
    MinimumAgreesWithReading
    MinimumDropsOnGeneration
PROPERTY
    SuspectIsNeverTightened
CHECK_DEADLOCK FALSE
