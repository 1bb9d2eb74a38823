CONSTANTS
  Configs <- OnlyBatching
  Default <- Batching
  HostOps = {"flush"}
  Interval = 2
  MaxWait = 3
  MaxReadable = 2
  MaxChunks = 2
  MaxAge = 2
SPECIFICATION PromptSpec
CHECK_DEADLOCK FALSE
PROPERTY WriteUnblocks
