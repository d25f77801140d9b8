CONSTANTS
  r1 = r1
  r2 = r2
  WatchOutcomes = {TRUE}
  Resources <- MCResources
  MaxMaps = 1
  MaxCreates = 3
SPECIFICATION Spec
INVARIANTS
  UncapturedWritesTracked
  MappedSetExact
