CONSTANTS
  Configs <- Mixed
  Default <- Batching
  HostOps = {"flush", "set_config"}
  Interval = 2
  MaxWait = 3
  MaxReadable = 2
  MaxChunks = 2
  MaxAge = 2
SPECIFICATION FairSpec
CHECK_DEADLOCK FALSE
INVARIANT TimerCovers
INVARIANT BatchAccounting
INVARIANT NothingDangles
INVARIANT ReadNotified
PROPERTY CloseEnds
PROPERTY WriteUnblocksUnflushed
