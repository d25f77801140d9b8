------------------------ MODULE MC_InstanceLifecycle ------------------------
(* The two intercepted surfaces of the capture layer. *)
EXTENDS InstanceLifecycle

CONSTANTS dxgi, d3d12

MCSurfaces == {dxgi, d3d12}
=============================================================================
