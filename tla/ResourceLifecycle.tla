-------------------------- MODULE ResourceLifecycle --------------------------
(***************************************************************************)
(* The resource hooks of src/framework/encode/d3d12_capture_manager.h:     *)
(* creation of a committed resource through                                *)
(* OverrideID3D12Device_CreateCommittedResource (UseWriteWatch,            *)
(* EnableWriteWatch) and its post-process (InitializeID3D12ResourceInfo),  *)
(* PostProcess_ID3D12Resource_Map, PreProcess_ID3D12Resource_Unmap,        *)
(* Destroy_ID3D12Resource, and the pre-process of ExecuteCommandLists,     *)
(* which captures the memory of every resource in mapped_resources_ before *)
(* the GPU reads it.  The bodies of these functions are not under src/;    *)
(* they follow spec 4.3.                                                   *)
(*                                                                         *)
(* The D3D12 runtime is the environment: Map and Unmap are reference       *)
(* counted per resource, a successful Map with a non-null ppData hands the *)
(* application a CPU pointer valid until the last Unmap, and the driver    *)
(* may silently drop the write-watch heap flag (spec 7); WatchOutcomes     *)
(* says whether it may.  CheckWriteWatchIgnored (a void member that logs   *)
(* the dropped flag, spec 4.3) changes no state and is not an action.      *)
(* Each hook runs as one step.  The memory written is abstracted to        *)
(* whether a resource has writes that are not yet in the trace.            *)
(***************************************************************************)
EXTENDS Naturals

CONSTANTS
  Resources,     \* resource wrapper addresses, reused after release
  WatchOutcomes, \* whether the driver keeps a requested write-watch flag
  MaxMaps,       \* bound on the runtime's map count of one resource
  MaxCreates     \* bound on the number of resources created

ASSUME ResourceBoundsAssumption == MaxMaps \in Nat \ {0} /\ MaxCreates \in Nat

ASSUME WatchOutcomesAssumption == WatchOutcomes \subseteq BOOLEAN /\ WatchOutcomes # {}

HeapTypes == {"DEFAULT", "UPLOAD", "READBACK", "CUSTOM"}
PageProperties == {"UNKNOWN", "NOT_AVAILABLE", "WRITE_COMBINE", "WRITE_BACK"}

(* Heap properties and the D3D12_HEAP_FLAG_ALLOW_WRITE_WATCH bit. *)
HeapProps == [type : HeapTypes, page : PageProperties, watch : BOOLEAN]

(* Heap properties an application can create a committed resource with:   *)
(* the page property is given for custom heaps only, and write watch is    *)
(* valid on a custom heap with CPU-visible pages only.                     *)
AppHeapProps ==
  [type : {"DEFAULT", "UPLOAD", "READBACK"}, page : {"UNKNOWN"}, watch : {FALSE}]
    \cup [type : {"CUSTOM"}, page : {"NOT_AVAILABLE"}, watch : {FALSE}]
    \cup [type : {"CUSTOM"}, page : {"WRITE_COMBINE", "WRITE_BACK"}, watch : BOOLEAN]

CpuAccessible(p) == p.type # "DEFAULT" /\ ~(p.type = "CUSTOM" /\ p.page = "NOT_AVAILABLE")

VARIABLES
  useWriteWatch,  \* the capture setting that enables write watch
  live,           \* resource wrappers that exist
  res,            \* per resource: its ResourceInfo (heap type, page property,
                  \* has_write_watch)
  watched,        \* the driver reports the dirty pages of the resource
  mapCount,       \* the runtime's map reference count
  hasPtr,         \* the application holds a CPU pointer into the resource
  mapped,         \* mapped_resources_
  dirty,          \* resources with application writes not yet in the trace
  created         \* number of resources created

vars == <<useWriteWatch, live, res, watched, mapCount, hasPtr, mapped, dirty, created>>

ResInfo == [type : HeapTypes, page : PageProperties, writeWatch : BOOLEAN]

-----------------------------------------------------------------------------
(* IsUploadResource: a heap the CPU writes, with pages write watch can      *)
(* monitor.                                                                *)
IsUploadResource(type, page) ==
  type = "UPLOAD" \/ (type = "CUSTOM" /\ page \in {"WRITE_COMBINE", "WRITE_BACK"})

(* UseWriteWatch: inject the flag when the setting asks for it, the heap   *)
(* is an upload heap and the application did not set the flag itself.     *)
UseWriteWatch(type, flags, page) ==
  useWriteWatch /\ IsUploadResource(type, page) /\ ~flags

(* EnableWriteWatch: write watch needs a custom heap, so an upload heap   *)
(* becomes a write-combined custom heap with the flag set.                *)
EnableWriteWatch(p) ==
  [type |-> "CUSTOM",
   page |-> IF p.type = "UPLOAD" THEN "WRITE_COMBINE" ELSE p.page,
   watch |-> TRUE]

(* InitializeID3D12ResourceInfo: the ResourceInfo of a new resource, with  *)
(* has_write_watch recording the injection (spec 4.3).                     *)
InitializeID3D12ResourceInfo(type, page, hasWriteWatch) ==
  [type |-> type, page |-> page, writeWatch |-> hasWriteWatch]

(* The writes of a resource are captured in full when its ResourceInfo has *)
(* no write watch, and through the dirty pages the OS reports when it has: *)
(* those are reported only if the driver really watches the heap.         *)
CapturesWrites(r) == ~res[r].writeWatch \/ watched[r]

(* Capture the pending writes of the resources in S. *)
CaptureWrites(S) == dirty' = dirty \ {r \in S : CapturesWrites(r)}

-----------------------------------------------------------------------------
Init ==
  /\ useWriteWatch \in BOOLEAN
  /\ live = {}
  /\ res = [r \in Resources |-> InitializeID3D12ResourceInfo("DEFAULT", "UNKNOWN", FALSE)]
  /\ watched = [r \in Resources |-> FALSE]
  /\ mapCount = [r \in Resources |-> 0]
  /\ hasPtr = [r \in Resources |-> FALSE]
  /\ mapped = {}
  /\ dirty = {}
  /\ created = 0

(* The application creates a committed resource at a free address.  The    *)
(* override injects write watch if UseWriteWatch says so, the driver keeps *)
(* the flag or drops it, and the post-process records the ResourceInfo.   *)
CreateCommittedResource(r) ==
  /\ r \notin live
  /\ created < MaxCreates
  /\ \E app \in AppHeapProps, kept \in WatchOutcomes :
       LET injected  == UseWriteWatch(app.type, app.watch, app.page)
           requested == IF injected THEN EnableWriteWatch(app) ELSE app
       IN  /\ res' = [res EXCEPT ![r] =
                        InitializeID3D12ResourceInfo(requested.type, requested.page, injected)]
           /\ watched' = [watched EXCEPT ![r] = requested.watch /\ kept]
  /\ live' = live \cup {r}
  /\ created' = created + 1
  /\ UNCHANGED <<useWriteWatch, mapCount, hasPtr, mapped, dirty>>

(* PostProcess_ID3D12Resource_Map: a successful map that returned a CPU    *)
(* pointer puts the resource in mapped_resources_ (spec 4.3).              *)
PostProcess_ID3D12Resource_Map(r, result, data) ==
  mapped' = IF result = "S_OK" /\ data THEN mapped \cup {r} ELSE mapped

(* The application maps a resource, asking for a CPU pointer (data) or    *)
(* not (ppData null).  The runtime fails the map of a resource the CPU    *)
(* cannot access, and may fail any map.                                   *)
Map(r) ==
  /\ r \in live
  /\ mapCount[r] < MaxMaps
  /\ \E data \in BOOLEAN, result \in {"S_OK", "E_FAIL"} :
       /\ result = "S_OK" => CpuAccessible(res[r])
       /\ IF result = "S_OK"
            THEN /\ mapCount' = [mapCount EXCEPT ![r] = @ + 1]
                 /\ hasPtr' = [hasPtr EXCEPT ![r] = @ \/ data]
            ELSE UNCHANGED <<mapCount, hasPtr>>
       /\ PostProcess_ID3D12Resource_Map(r, result, data)
  /\ UNCHANGED <<useWriteWatch, live, res, watched, dirty, created>>

(* The application writes through its CPU pointer. *)
Write(r) ==
  /\ hasPtr[r]
  /\ dirty' = dirty \cup {r}
  /\ UNCHANGED <<useWriteWatch, live, res, watched, mapCount, hasPtr, mapped, created>>

(* Mutant: the resource leaves mapped_resources_ but its writes are left  *)
(* for a later capture.                                                    *)
PreProcessUnmapNoCapture(r) ==
  /\ mapped' = mapped \ {r}
  /\ UNCHANGED dirty

(* PreProcess_ID3D12Resource_Unmap: the resource leaves mapped_resources_  *)
(* and its writes are captured before the runtime unmaps it (spec 4.3).   *)
PreProcess_ID3D12Resource_Unmap(r) ==
  /\ mapped' = mapped \ {r}
  /\ CaptureWrites({r})

(* The application unmaps a resource it has mapped; the pointer becomes   *)
(* invalid at the last Unmap.                                              *)
Unmap(r) ==
  /\ mapCount[r] > 0
  /\ PreProcess_ID3D12Resource_Unmap(r)
  /\ mapCount' = [mapCount EXCEPT ![r] = @ - 1]
  /\ hasPtr' = [hasPtr EXCEPT ![r] = @ /\ mapCount[r] > 1]
  /\ UNCHANGED <<useWriteWatch, live, res, watched, created>>

(* PreProcess_ID3D12CommandQueue_ExecuteCommandLists: before the GPU reads *)
(* the resources, the writes of every resource in mapped_resources_ are    *)
(* captured.                                                               *)
ExecuteCommandLists ==
  /\ CaptureWrites(mapped)
  /\ UNCHANGED <<useWriteWatch, live, res, watched, mapCount, hasPtr, mapped, created>>

(* Mutant: the wrapper is destroyed without leaving mapped_resources_. *)
DestroyKeepsMapped(r) == UNCHANGED mapped

(* Destroy_ID3D12Resource: a released resource leaves mapped_resources_,  *)
(* even when the application released it while mapped.                   *)
Destroy_ID3D12Resource(r) == mapped' = mapped \ {r}

(* The application releases a resource, mapped or not; its address is     *)
(* free for reuse and its memory is gone.                                  *)
Release(r) ==
  /\ r \in live
  /\ Destroy_ID3D12Resource(r)
  /\ live' = live \ {r}
  /\ mapCount' = [mapCount EXCEPT ![r] = 0]
  /\ hasPtr' = [hasPtr EXCEPT ![r] = FALSE]
  /\ dirty' = dirty \ {r}
  /\ UNCHANGED <<useWriteWatch, res, watched, created>>

Next ==
  \/ \E r \in Resources :
       \/ CreateCommittedResource(r) \/ Map(r) \/ Write(r) \/ Unmap(r)
       \/ Release(r)
  \/ ExecuteCommandLists

Spec == Init /\ [][Next]_vars

-----------------------------------------------------------------------------
TypeOK ==
  /\ useWriteWatch \in BOOLEAN
  /\ live \subseteq Resources
  /\ res \in [Resources -> ResInfo]
  /\ watched \in [Resources -> BOOLEAN]
  /\ mapCount \in [Resources -> 0..MaxMaps]
  /\ hasPtr \in [Resources -> BOOLEAN]
  /\ mapped \subseteq Resources
  /\ dirty \subseteq Resources
  /\ created \in 0..MaxCreates

(* Every write the application has made and the trace does not hold yet   *)
(* belongs to a resource in mapped_resources_, so the next                 *)
(* ExecuteCommandLists captures it before the GPU reads it: an unmap or a  *)
(* release that ends the CPU pointer has captured the writes made through  *)
(* it.  It takes a creation, a map, a write and an unmap to break it.      *)
UncapturedWritesTracked == \A r \in dirty : r \in mapped

MappedSetExact == mapped = {r \in live : hasPtr[r]}

(* Whatever the nesting of Map and Unmap, every resource in               *)
(* mapped_resources_ is live and the application still holds a CPU pointer *)
(* into it: the pre-process of ExecuteCommandLists reads the memory of     *)
(* each, so a resource released while mapped, or unmapped for the last     *)
(* time, left in the set would be a read of freed or unmapped memory.      *)
MappedMemoryReadable == \A r \in mapped : r \in live /\ hasPtr[r]

=============================================================================
