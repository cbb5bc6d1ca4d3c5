CONSTANTS
  Nodes <- MCNodes
  Branches <- MCBranches
  Gens <- MCGens
  From <- MCFrom
  To <- MCTo
  NodeOf <- MCNodeOf
  Priority <- MCPriority
  Networks <- MCNetworks
  Plans <- MCPlans
  Configs <- MCDefault
SPECIFICATION Spec
INVARIANT PrepareIsIdempotent
