SPECIFICATION KktSpec
CONSTANTS
    d1 = d1
    d2 = d2
    l21 = l21
    u12 = u12
    Unset = Unset
    Lower <- MCLower
    Diagonal <- MCDiagonal
    Mirror <- MCMirror
    Jacobians <- MCJacobians
    MaxCalls = 4
INVARIANTS
    HandleSolvesItsSystem
PROPERTY
    ImplementsCache
