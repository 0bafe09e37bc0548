\* Two jobs for one slot, one of them may be held for review.
SPECIFICATION WSpec
CONSTANTS
  n1 = n1
  w1 = w1
  NoMachine = NoMachine
  NoOffer = NoOffer
  NJobs = 2
  Edge <- NoEdges
  OnFailure <- NoPolicies
  Orders <- InOrder
  Node = {n1}
  Direct = {}
  Gate = {n1}
  Worker = {w1}
  Budget = {2}
  MaxActiveJobs = 2
  LeaseTTL = 1
  MaxAttempt = 1
  MaxClaim = 2
  MaxRow = 2
  SlotMax = 1
  CompleteTries = 2
  MayReview = {1}
  MaxFaults = 1
INVARIANTS
  WTypeOK
  SlotsConserved
  OutcomeIsReal
  ReviewKeepsOutput
CHECK_DEADLOCK FALSE
