SPECIFICATION Spec
CONSTANTS
  Limit <- TwoOut
  Retries <- NoneOrTwo
CHECK_DEADLOCK FALSE
INVARIANT CloseAfterData NormalMeansRead NormalMeansArrived
