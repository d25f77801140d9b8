CONSTANTS
  dxgi = dxgi
  d3d12 = d3d12
  Surfaces <- MCSurfaces
  MaxLoads = 4
SPECIFICATION Spec
INVARIANTS
  CountMatchesHolders
  DispatchTableReady
CHECK_DEADLOCK FALSE
