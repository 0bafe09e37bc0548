SPECIFICATION DFairSpec
CONSTANTS
  n1 = n1
  n2 = n2
  w1 = w1
  NoMachine = NoMachine
  NJobs = 2
  Edge <- NoEdges
  OnFailure <- NoPolicies
  Orders <- InOrder
  Node = {n1}
  Direct = {n1}
  Gate = {}
  Worker = {}
  Budget = {1}
  MaxActiveJobs = 2
  LeaseTTL = 1
  MaxAttempt = 1
  MaxClaim = 1
  MaxRow = 1
  MaxTries = 1
PROPERTIES
  QueuedMovesOn
