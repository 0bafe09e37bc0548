\* One job that is offered up to twice, and two faults.
SPECIFICATION WFairSpec
CONSTANTS
  n1 = n1
  w1 = w1
  NoMachine = NoMachine
  NoOffer = NoOffer
  NJobs = 1
  Edge <- NoEdges
  OnFailure <- NoPolicies
  Orders <- InOrder
  Node = {n1}
  Direct = {}
  Gate = {n1}
  Worker = {w1}
  Budget = {2}
  MaxActiveJobs = 2
  LeaseTTL = 2
  MaxAttempt = 1
  MaxClaim = 2
  MaxRow = 2
  SlotMax = 1
  CompleteTries = 2
  MayReview = {1}
  MaxFaults = 2
PROPERTY WorkEnds
CHECK_DEADLOCK FALSE
