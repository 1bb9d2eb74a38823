SPECIFICATION FairSpec
CONSTANTS
  c1 = c1
  s1 = s1
  s2 = s2
  Conns = {c1}
  Streams = {s1, s2}
  Owner <- OneWithTwo
  MaxTime = 3
INVARIANT NoLostWakeup
INVARIANT NothingStale
INVARIANT ReleaseOrder
INVARIANT OncePerUpdate
INVARIANT DestroyComplete
CHECK_DEADLOCK FALSE
PROPERTY DueServed
