CONSTANTS
  a = a
  b = b
  old = old
  Engine = {a, b}
  Connectors = {a, b}
  HostOps = {"close", "fail"}
  Answers = {"OK", "ERROR"}
  MaxId = 2
  FirstIds = {1, 2}
  Configs <- OnlyHasty
  EngineConfig <- Hasty
  DefaultKeepaliveTimeout = 1
  MaxAge = 1
  Version <- OneVersion
  MayDuplicate = TRUE
SPECIFICATION Spec
INVARIANT HandshakeUnique
INVARIANT RouteAgreement
INVARIANT NoCrossTalk
INVARIANT CloseAckMutual
INVARIANT AcceptAgreed
PROPERTY HandleStable
