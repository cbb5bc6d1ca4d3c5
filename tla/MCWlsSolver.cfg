SPECIFICATION Spec
CONSTANTS
    Tolerances <- MCTolerances
    StepSizes <- MCStepSizes
    Objectives <- MCObjectives
    MaxIterations = 3
    Warmup = 1
INVARIANTS
    StatusMeaning
    FailureIsNoWorse
    StallMeansLimitReached
    NoStallAtUsableTolerance
PROPERTY
    Termination
