SPECIFICATION BlocksSpec
CONSTANTS
  Modulus = 8
  FirstIds = {2, 7}
  Calls <- FiveAndTwo
  Nodes = {n1, n2, n3}
  MaxTime = 1
  Times <- MCTimes
  InitialCapacity = 1
  MaxSequence = 4
  Ops = {"cancel", "unregister", "collect"}
  NoNode = NoNode
  NoIndex = NoIndex
  OutOfMemory = OutOfMemory
  h1 = h1
  h2 = h2
  h3 = h3
  h4 = h4
  h5 = h5
  None = None
  HashNodes <- MCHashNodes
  KeyOf <- MCKeyOf
  Hash <- MCHash
  Size = 2
  Vectors <- MCVectors
  MaxFragments = 4
  MaxLength = 3
  MaxMss = 4
CHECK_DEADLOCK FALSE
INVARIANT IdsApart
INVARIANT AllocFailsOnlyWhenFull
INVARIANT NewRecognised
INVARIANT RoomToSchedule
INVARIANT ChunksExact
PROPERTY NoRecreation
PROPERTY CollectsAll
PROPERTY ImplementsQueue
PROPERTY ImplementsMap
