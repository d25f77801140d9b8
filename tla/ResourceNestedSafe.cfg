CONSTANTS
  r1 = r1
  r2 = r2
  WatchOutcomes = {TRUE, FALSE}
  Resources <- MCResources
  MaxMaps = 3
  MaxCreates = 3
SPECIFICATION Spec
INVARIANTS
  MappedMemoryReadable
