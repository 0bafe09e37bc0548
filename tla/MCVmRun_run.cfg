\* Two machines in every state preflight may find them, two faults of the cleanup.
\* A run stops when it has reported.
SPECIFICATION VSpec
CONSTANTS
  m1 = m1
  m2 = m2
  Host = Host
  Vms <- TwoMachines
  InitialState <- SomeStarts
  MaxFaults = 2
  SecondSignal = FALSE
INVARIANTS
  VTypeOK
  VerdictIsTrue
PROPERTIES
  HarmsNothing
  RunEnds
CHECK_DEADLOCK FALSE
