CONSTANTS
  a = a
  b = b
  old = old
  Engine = {a, b}
  Connectors = {a}
  HostOps = {"close", "set_config", "destroy"}
  Answers = {"OK", "ERROR"}
  MaxId = 1
  FirstIds = {1}
  Configs <- Contrary
  EngineConfig <- Plain
  DefaultKeepaliveTimeout = 2
  MaxAge = 2
  Version <- OneVersion
  MayDuplicate = FALSE
SPECIFICATION FairSpec
PROPERTY TransientEnds
PROPERTY HalfOpenEnds
