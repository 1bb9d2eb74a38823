CONSTANTS
  a = a
  b = b
  old = old
  Engine = {a, b, old}
  Connectors = {a}
  HostOps = {"close", "set_config", "payload", "stream_ctrl", "fail"}
  Answers = {"OK", "CUSTOM"}
  MaxId = 1
  FirstIds = {1}
  Configs <- Mixed
  EngineConfig <- Plain
  DefaultKeepaliveTimeout = 2
  MaxAge = 2
  Version <- TwoVersions
  MayDuplicate = TRUE
SPECIFICATION Spec
INVARIANT TimerExact
INVARIANT VersionGate
