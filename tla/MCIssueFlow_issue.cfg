\* One issue reported twice, two faults, two redeliveries.
\* The flow stops when every event is settled.
SPECIFICATION ISpec
CONSTANTS
  c1 = c1
  c2 = c2
  k1 = k1
  None = None
  Call = {c1, c2}
  KeyOf <- SameIssue
  ActiveLimit = 1
  MaxFaults = 2
  MaxRequeues = 2
INVARIANTS
  ITypeOK
  OneJobPerKey
  DeliveredWasTold
  WaitingHasDispatcher
PROPERTY EventSettles
CHECK_DEADLOCK FALSE
