CONSTANTS
  t1 = t1
  t2 = t2
  w1 = w1
  w2 = w2
  NULL = NULL
  Garbage = Garbage
  Threads <- MCThreads
  Handles <- MCHandles
  MaxDepth = 2
  MaxCalls = 4
  MaxTrims = 2
SPECIFICATION Spec
INVARIANTS
  TypeOK
  CallScopeIsNesting
  RegistryExact
  TrackedInfoBelongsToEntries
  ScreenshotPerAppPresent
PROPERTIES
  SnapshotMatchesLive
