\* Two jobs, driven one after the other and overlapping in the house, which has two slots;
\* pages of one job, a request that may be overtaken, one reset.
\* A driver stops when it has reported.
SPECIFICATION LSpec
CONSTANTS
  Job = {1, 2}
  Concurrency = 1
  Slots = 2
  Turns <- OneTurn
  Page = 1
  Samples = 1
INVARIANTS
  LTypeOK
  ReportTrue
  FiguresRight
PROPERTY DriverEnds
CHECK_DEADLOCK FALSE
