CONSTANTS
  n1 = n1
  n2 = n2
  n3 = n3
  Nodes <- MCNodes
  Outcomes <- MCOutcomes
  Configs <- MCConfigs
  MaxIters = 2
SPECIFICATION Spec
INVARIANTS
  TypeOK
  ResultDescribesTables
  SuccessIsInRange
  ResolveStartsInRange
  AcceptanceIsEarned
  ReturnedResultIsCoherent
  NoPlanIsMissing
PROPERTY
  ImplementsPolicy
