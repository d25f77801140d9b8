CONSTANTS
  r1 = r1
  r2 = r2
  WatchOutcomes = {TRUE}
  Resources <- MCResources
  MaxMaps = 2
  MaxCreates = 2
SPECIFICATION Spec
INVARIANTS
  UncapturedWritesTracked
