SPECIFICATION FairSpec
CONSTANTS
  n1 = n1
  w1 = w1
  NoMachine = NoMachine
  NJobs = 2
  Edge <- PairEdges
  OnFailure <- PairCancel
  Orders <- InOrder
  Node = {n1}
  Direct = {}
  Gate = {n1}
  Worker = {w1}
  Budget = {1, 2}
  MaxActiveJobs = 2
  LeaseTTL = 2
  MaxAttempt = 2
  MaxClaim = 2
  MaxRow = 2
INVARIANTS
  TypeOK
  JobMirrorsAttempt
  LeaseShape
  FencedOutcome
  AnnouncedOnce
  CapacityConserved
PROPERTIES
  OutcomeIsFinal
  ReviewFence
  ImplementsLifecycle
  JobsMoveOn
