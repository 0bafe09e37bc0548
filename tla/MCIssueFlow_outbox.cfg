\* One fault and no operator.
SPECIFICATION ISpec
CONSTANTS
  c1 = c1
  c2 = c2
  k1 = k1
  None = None
  Call = {c1, c2}
  KeyOf <- SameIssue
  ActiveLimit = 1
  MaxFaults = 1
  MaxRequeues = 0
PROPERTY AtLeastOnce
CHECK_DEADLOCK FALSE
