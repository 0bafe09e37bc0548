SPECIFICATION DFairSpec
CONSTANTS
  n1 = n1
  n2 = n2
  w1 = w1
  NoMachine = NoMachine
  NJobs = 1
  Edge <- NoEdges
  OnFailure <- NoPolicies
  Orders <- InOrder
  Node = {n1, n2}
  Direct = {n1, n2}
  Gate = {}
  Worker = {}
  Budget = {1}
  MaxActiveJobs = 1
  LeaseTTL = 1
  MaxAttempt = 2
  MaxClaim = 2
  MaxRow = 1
  MaxTries = 2
INVARIANTS
  DTypeOK
  OneRunPerAttempt
PROPERTIES
  ImplementsStore
  DiscardIsVisible
  QueuedMovesOn
