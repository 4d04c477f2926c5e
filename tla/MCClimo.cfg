SPECIFICATION FairSpec
CONSTANTS
  Cases <- AllCases
  FaultMax = 2
CHECK_DEADLOCK FALSE
INVARIANT OutputsRight
INVARIANT NothingStale
PROPERTY ReportsOutcome
