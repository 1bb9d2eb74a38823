CONSTANTS
  StreamCount = 2
  Messages = 2
  Batch = 2
  Pause = 2
  MaxFaults = 1
SPECIFICATION FairSpec
INVARIANT NeverOversleeps
INVARIANT Outcome
PROPERTY ClientEnds
CHECK_DEADLOCK FALSE
