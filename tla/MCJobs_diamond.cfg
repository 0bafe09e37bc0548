SPECIFICATION Spec
CONSTANTS
  n1 = n1
  w1 = w1
  NoMachine = NoMachine
  NJobs = 3
  Edge <- DiamondEdges
  OnFailure <- DiamondPolicies
  Orders <- DiamondOrders
  Node = {n1}
  Direct = {n1}
  Gate = {}
  Worker = {}
  Budget = {1}
  MaxActiveJobs = 3
  LeaseTTL = 2
  MaxAttempt = 1
  MaxClaim = 1
  MaxRow = 1
PROPERTIES
  DependentsFollow
