-------------------------- MODULE InstanceLifecycle --------------------------
(***************************************************************************)
(* The reference-counted singleton D3D12CaptureManager::instance_ and its  *)
(* two dispatch tables (d3d12_capture_manager.h 45-101).  Two intercepted  *)
(* API surfaces, the DXGI layer and the D3D12 layer, load and unload       *)
(* independently: loading calls CreateInstance and then initialises that   *)
(* surface's dispatch table through Get(); unloading calls                 *)
(* DestroyInstance.  The first CreateInstance constructs the manager,      *)
(* whose constructor leaves both dispatch tables empty; the last           *)
(* DestroyInstance deletes it.  CreateInstance and DestroyInstance are     *)
(* atomic with respect to each other.                                      *)
(***************************************************************************)
EXTENDS Naturals, FiniteSets

CONSTANTS
  Surfaces,  \* intercepted API surfaces, each with its own dispatch table
  MaxLoads   \* bound on the number of times a surface is loaded

ASSUME SurfacesAssumption == IsFiniteSet(Surfaces)
ASSUME MaxLoadsAssumption == MaxLoads \in Nat

VARIABLES
  instance,       \* instance_ != nullptr
  instanceCount,  \* the instance reference count
  tables,         \* per surface, whether the instance's dispatch table is filled
  surface,        \* per surface, how far its load has gone
  loads           \* per surface, number of loads so far

vars == <<instance, instanceCount, tables, surface, loads>>

SurfaceStates == {"unloaded", "created", "ready"}

(* Surfaces that have called CreateInstance and not yet DestroyInstance. *)
Holders == {s \in Surfaces : surface[s] # "unloaded"}

EmptyTables == [s \in Surfaces |-> FALSE]

-----------------------------------------------------------------------------
(* Mutant: CreateInstance constructs a new manager even when one exists. *)
CreateInstanceAlwaysConstructs ==
  /\ instance' = TRUE
  /\ instanceCount' = instanceCount + 1
  /\ tables' = EmptyTables

(* CreateInstance: construct the manager if none exists, otherwise only    *)
(* increment the reference count.                                         *)
CreateInstance ==
  /\ instance' = TRUE
  /\ instanceCount' = instanceCount + 1
  /\ tables' = IF instanceCount = 0 THEN EmptyTables ELSE tables

(* Mutant: DestroyInstance deletes the manager while a reference remains. *)
DestroyInstanceEarly ==
  /\ instanceCount' = IF instanceCount = 0 THEN 0 ELSE instanceCount - 1
  /\ instance' = (instanceCount > 2)
  /\ tables' = IF instanceCount > 2 THEN tables ELSE EmptyTables

(* DestroyInstance: decrement the count, delete the manager when it        *)
(* reaches zero; ignored when the count is already zero.                  *)
DestroyInstance ==
  /\ instanceCount' = IF instanceCount = 0 THEN 0 ELSE instanceCount - 1
  /\ instance' = (instanceCount > 1)
  /\ tables' = IF instanceCount > 1 THEN tables ELSE EmptyTables

(* Get(): the manager, or nullptr. *)
Get == instance

(* GetDxgiDispatchTable / GetD3D12DispatchTable: the surface's table. *)
GetDispatchTable(s) == tables[s]

(* InitDxgiDispatchTable / InitD3D12DispatchTable, called through Get(). *)
InitDispatchTable(s) == tables' = [tables EXCEPT ![s] = TRUE]

-----------------------------------------------------------------------------
Init ==
  /\ instance = FALSE
  /\ instanceCount = 0
  /\ tables = EmptyTables
  /\ surface = [s \in Surfaces |-> "unloaded"]
  /\ loads = [s \in Surfaces |-> 0]

(* A surface is loaded: its first step acquires the manager. *)
LoadSurface(s) ==
  /\ surface[s] = "unloaded"
  /\ loads[s] < MaxLoads
  /\ CreateInstance
  /\ surface' = [surface EXCEPT ![s] = "created"]
  /\ loads' = [loads EXCEPT ![s] = @ + 1]

(* The surface hands the manager the native functions it resolved. *)
InitSurfaceTable(s) ==
  /\ surface[s] = "created"
  /\ InitDispatchTable(s)
  /\ surface' = [surface EXCEPT ![s] = "ready"]
  /\ UNCHANGED <<instance, instanceCount, loads>>

(* The surface is unloaded and releases the manager. *)
UnloadSurface(s) ==
  /\ surface[s] # "unloaded"
  /\ DestroyInstance
  /\ surface' = [surface EXCEPT ![s] = "unloaded"]
  /\ UNCHANGED loads

Next == \E s \in Surfaces : LoadSurface(s) \/ InitSurfaceTable(s) \/ UnloadSurface(s)

Spec == Init /\ [][Next]_vars

-----------------------------------------------------------------------------
TypeOK ==
  /\ instance \in BOOLEAN
  /\ instanceCount \in Nat
  /\ tables \in [Surfaces -> BOOLEAN]
  /\ surface \in [Surfaces -> SurfaceStates]
  /\ loads \in [Surfaces -> Nat]

(* The reference count is the number of surfaces between their            *)
(* CreateInstance and their DestroyInstance, and the manager exists        *)
(* exactly while that number is positive, whatever the order in which the  *)
(* two surfaces load and unload.                                           *)
CountMatchesHolders ==
  /\ instanceCount = Cardinality(Holders)
  /\ instance <=> instanceCount > 0

(* A surface that has finished loading finds the manager through Get()     *)
(* with its own dispatch table still filled in: loading or unloading the   *)
(* other surface never deletes the manager or empties that table.          *)
DispatchTableReady == \A s \in Surfaces : surface[s] = "ready" => Get /\ GetDispatchTable(s)

=============================================================================
