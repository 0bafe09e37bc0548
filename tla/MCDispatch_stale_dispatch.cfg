SPECIFICATION DSpec
CONSTANTS
  n1 = n1
  n2 = n2
  w1 = w1
  NoMachine = NoMachine
  NJobs = 1
  Edge <- NoEdges
  OnFailure <- NoPolicies
  Orders <- InOrder
  Node = {n1}
  Direct = {n1}
  Gate = {}
  Worker = {}
  Budget = {1}
  MaxActiveJobs = 1
  LeaseTTL = 1
  MaxAttempt = 2
  MaxClaim = 2
  MaxRow = 2
  MaxTries = 2
PROPERTIES
  StaleDispatchHarmless
