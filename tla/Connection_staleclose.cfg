CONSTANTS
  a = a
  b = b
  old = old
  Engine = {a, b}
  Connectors = {a}
  HostOps = {"close"}
  Answers = {"OK", "ERROR"}
  MaxId = 2
  FirstIds = {1}
  Configs <- OnlyHasty
  EngineConfig <- Hasty
  DefaultKeepaliveTimeout = 1
  MaxAge = 1
  Version <- OneVersion
  MayDuplicate = TRUE
SPECIFICATION Spec
INVARIANT CloseHitsOwnPeer
