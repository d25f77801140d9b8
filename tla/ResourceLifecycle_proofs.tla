----------------------- MODULE ResourceLifecycle_proofs -----------------------
(***************************************************************************)
(* Proofs about ResourceLifecycle.                                         *)
(*                                                                         *)
(* MappedMemoryReadable holds for every value of the constants; with       *)
(* TypeOK it is inductive.                                                 *)
(*                                                                         *)
(* MappedSetExact holds when maps do not nest (MaxMaps = 1); run           *)
(* resource_nested_maps shows what happens otherwise.  It is not inductive *)
(* by itself: a reused address must not carry an old CPU pointer          *)
(* (PtrsLive).  UncapturedWritesTracked needs, besides, that the driver    *)
(* keeps every write-watch flag (WatchOutcomes = {TRUE}); run              *)
(* resource_dropped_watch shows what happens otherwise.  Its strengthening *)
(* says that every resource's writes are captured the way its             *)
(* ResourceInfo says (CapturesAll), so an unmap clears them.              *)
(***************************************************************************)
EXTENDS ResourceLifecycle, TLAPS

(* The ResourceInfo and the driver's watch recorded by                     *)
(* CreateCommittedResource are well typed, and a recorded write watch is  *)
(* one the driver keeps unless it dropped the flag.                       *)
LEMMA NewInfo ==
  ASSUME useWriteWatch \in BOOLEAN, NEW app \in AppHeapProps, NEW kept \in BOOLEAN
  PROVE  LET injected  == UseWriteWatch(app.type, app.watch, app.page)
             requested == IF injected THEN EnableWriteWatch(app) ELSE app
         IN  /\ InitializeID3D12ResourceInfo(requested.type, requested.page, injected)
                  \in ResInfo
             /\ (requested.watch /\ kept) \in BOOLEAN
             /\ injected => requested.watch
<1> DEFINE injected  == UseWriteWatch(app.type, app.watch, app.page)
           requested == IF injected THEN EnableWriteWatch(app) ELSE app
<1>1. app \in HeapProps
  BY DEF AppHeapProps, HeapProps, HeapTypes, PageProperties
<1>2. EnableWriteWatch(app) \in HeapProps /\ EnableWriteWatch(app).watch
  BY <1>1 DEF EnableWriteWatch, HeapProps, PageProperties, HeapTypes
<1>3. requested \in HeapProps /\ injected \in BOOLEAN
  BY <1>1, <1>2 DEF UseWriteWatch
<1>. QED
  BY <1>2, <1>3 DEF InitializeID3D12ResourceInfo, ResInfo, HeapProps

(* What a creation changes: the ResourceInfo and the driver's watch of the *)
(* new resource, and nothing of the others.                               *)
LEMMA CreateFacts ==
  ASSUME TypeOK, NEW r \in Resources, CreateCommittedResource(r)
  PROVE  /\ res' \in [Resources -> ResInfo]
         /\ watched' \in [Resources -> BOOLEAN]
         /\ \A s \in Resources \ {r} : res'[s] = res[s] /\ watched'[s] = watched[s]
         /\ WatchOutcomes = {TRUE} => (res'[r].writeWatch => watched'[r])
<1>1. PICK app \in AppHeapProps, kept \in WatchOutcomes :
        LET injected  == UseWriteWatch(app.type, app.watch, app.page)
            requested == IF injected THEN EnableWriteWatch(app) ELSE app
        IN  /\ res' = [res EXCEPT ![r] =
                         InitializeID3D12ResourceInfo(requested.type, requested.page, injected)]
            /\ watched' = [watched EXCEPT ![r] = requested.watch /\ kept]
  BY DEF CreateCommittedResource
<1>2. kept \in BOOLEAN
  BY WatchOutcomesAssumption
<1> DEFINE i == res'[r]
           w == watched'[r]
<1>3. /\ i \in ResInfo /\ w \in BOOLEAN
      /\ i.writeWatch /\ kept => w
  BY <1>1, <1>2, NewInfo DEF TypeOK, InitializeID3D12ResourceInfo
<1>4. res' = [res EXCEPT ![r] = i] /\ watched' = [watched EXCEPT ![r] = w]
  BY <1>1 DEF TypeOK
<1>5. WatchOutcomes = {TRUE} => kept
  OBVIOUS
<1>. QED
  BY <1>3, <1>4, <1>5 DEF TypeOK

(* Every step keeps the variables in their types. *)
LEMMA TypeStep == TypeOK /\ [Next]_vars => TypeOK'
<1> SUFFICES ASSUME TypeOK, [Next]_vars PROVE TypeOK'
  OBVIOUS
<1>1. CASE \E r \in Resources : CreateCommittedResource(r)
  <2>1. PICK r \in Resources : CreateCommittedResource(r)
    BY <1>1
  <2>2. res' \in [Resources -> ResInfo] /\ watched' \in [Resources -> BOOLEAN]
    BY <2>1, CreateFacts
  <2>3. created' \in 0..MaxCreates /\ live' \subseteq Resources
    BY <2>1, ResourceBoundsAssumption DEF CreateCommittedResource, TypeOK
  <2>. QED
    BY <2>1, <2>2, <2>3 DEF CreateCommittedResource, TypeOK
<1>2. CASE \E r \in Resources : Map(r)
  <2>1. PICK r \in Resources : Map(r)
    BY <1>2
  <2>2. PICK data \in BOOLEAN, result \in {"S_OK", "E_FAIL"} :
          IF result = "S_OK"
            THEN /\ mapCount' = [mapCount EXCEPT ![r] = @ + 1]
                 /\ hasPtr' = [hasPtr EXCEPT ![r] = @ \/ data]
            ELSE UNCHANGED <<mapCount, hasPtr>>
    BY <2>1 DEF Map
  <2>3. mapCount[r] < MaxMaps /\ mapCount[r] \in Nat
    BY <2>1 DEF Map, TypeOK
  <2>4. mapped' \subseteq Resources
    BY <2>1 DEF Map, PostProcess_ID3D12Resource_Map, TypeOK
  <2>. QED
    BY <2>1, <2>2, <2>3, <2>4, ResourceBoundsAssumption DEF Map, TypeOK
<1>3. CASE \E r \in Resources : Unmap(r)
  <2>1. PICK r \in Resources : Unmap(r)
    BY <1>3
  <2>2. mapCount[r] > 0 /\ mapCount[r] \in 0..MaxMaps
    BY <2>1 DEF Unmap, TypeOK
  <2>3. mapped' \subseteq Resources /\ dirty' \subseteq Resources
    BY <2>1 DEF Unmap, PreProcess_ID3D12Resource_Unmap, CaptureWrites, TypeOK
  <2>. QED
    BY <2>1, <2>2, <2>3, ResourceBoundsAssumption DEF Unmap, TypeOK
<1>4. CASE \E r \in Resources : Release(r)
  BY <1>4, ResourceBoundsAssumption DEF Release, Destroy_ID3D12Resource, TypeOK
<1>5. CASE \/ \E r \in Resources : Write(r)
           \/ ExecuteCommandLists \/ UNCHANGED vars
  BY <1>5 DEF Write, ExecuteCommandLists, CaptureWrites, vars, TypeOK
<1>. QED
  BY <1>1, <1>2, <1>3, <1>4, <1>5 DEF Next

LEMMA InitTypeOK == Init => TypeOK
BY ResourceBoundsAssumption
   DEF Init, TypeOK, InitializeID3D12ResourceInfo, ResInfo, HeapTypes, PageProperties

-----------------------------------------------------------------------------
(* mapped_resources_ against the runtime's pointers, when maps do not nest. *)

(* A released address carries no CPU pointer. *)
PtrsLive == \A r \in Resources \ live : ~hasPtr[r]

PInv == TypeOK /\ PtrsLive /\ MappedSetExact

(* The last (and only) unmap of a resource ends its pointer. *)
LEMMA UnmapEndsPointer ==
  ASSUME MaxMaps = 1, TypeOK, NEW r \in Resources, Unmap(r)
  PROVE  ~hasPtr'[r] /\ \A s \in Resources \ {r} : hasPtr'[s] = hasPtr[s]
<1>1. mapCount[r] = 1
  BY DEF Unmap, TypeOK
<1>2. ~(mapCount[r] > 1)
  BY <1>1
<1>. QED
  BY <1>2, Zenon DEF Unmap, TypeOK

LEMMA PointerStep ==
  ASSUME MaxMaps = 1
  PROVE  PInv /\ [Next]_vars => PtrsLive' /\ MappedSetExact'
<1> SUFFICES ASSUME PInv, [Next]_vars PROVE PtrsLive' /\ MappedSetExact'
  OBVIOUS
<1>1. CASE \E r \in Resources : CreateCommittedResource(r)
  <2>1. PICK r \in Resources : CreateCommittedResource(r)
    BY <1>1
  <2>2. ~hasPtr[r] /\ UNCHANGED <<hasPtr, mapped>> /\ live' = live \cup {r}
    BY <2>1 DEF CreateCommittedResource, PInv, PtrsLive
  <2>. QED
    BY <2>2 DEF PInv, PtrsLive, MappedSetExact
<1>2. CASE \E r \in Resources : Map(r)
  <2>1. PICK r \in Resources : Map(r)
    BY <1>2
  <2>2. PICK data \in BOOLEAN, result \in {"S_OK", "E_FAIL"} :
          /\ IF result = "S_OK"
               THEN /\ mapCount' = [mapCount EXCEPT ![r] = @ + 1]
                    /\ hasPtr' = [hasPtr EXCEPT ![r] = @ \/ data]
               ELSE UNCHANGED <<mapCount, hasPtr>>
          /\ PostProcess_ID3D12Resource_Map(r, result, data)
    BY <2>1 DEF Map
  <2>3. r \in live /\ UNCHANGED live
    BY <2>1 DEF Map
  <2>4. CASE result = "S_OK"
    BY <2>2, <2>3, <2>4 DEF PostProcess_ID3D12Resource_Map, PInv, TypeOK, PtrsLive,
                            MappedSetExact
  <2>5. CASE result # "S_OK"
    BY <2>2, <2>3, <2>5 DEF PostProcess_ID3D12Resource_Map, PInv, PtrsLive, MappedSetExact
  <2>. QED
    BY <2>4, <2>5
<1>3. CASE \E r \in Resources : Unmap(r)
  <2>1. PICK r \in Resources : Unmap(r)
    BY <1>3
  <2>2. ~hasPtr'[r] /\ \A s \in Resources \ {r} : hasPtr'[s] = hasPtr[s]
    BY <2>1, UnmapEndsPointer DEF PInv
  <2>3. mapped' = mapped \ {r} /\ UNCHANGED live
    BY <2>1 DEF Unmap, PreProcess_ID3D12Resource_Unmap
  <2>. QED
    BY <2>2, <2>3 DEF PInv, TypeOK, PtrsLive, MappedSetExact
<1>4. CASE \E r \in Resources : Release(r)
  <2>1. PICK r \in Resources : Release(r)
    BY <1>4
  <2>2. /\ mapped' = mapped \ {r} /\ live' = live \ {r}
        /\ hasPtr' = [hasPtr EXCEPT ![r] = FALSE]
    BY <2>1 DEF Release, Destroy_ID3D12Resource
  <2>. QED
    BY <2>2 DEF PInv, TypeOK, PtrsLive, MappedSetExact
<1>5. CASE \/ \E r \in Resources : Write(r)
           \/ ExecuteCommandLists \/ UNCHANGED vars
  <2>1. UNCHANGED <<live, hasPtr, mapped>>
    BY <1>5 DEF Write, ExecuteCommandLists, vars
  <2>. QED
    BY <2>1 DEF PInv, PtrsLive, MappedSetExact
<1>. QED
  BY <1>1, <1>2, <1>3, <1>4, <1>5 DEF Next

LEMMA PointerInvariant ==
  ASSUME MaxMaps = 1
  PROVE  Spec => []PInv
<1>1. Init => PInv
  BY InitTypeOK DEF Init, PInv, PtrsLive, MappedSetExact
<1>2. PInv /\ [Next]_vars => PInv'
  BY TypeStep, PointerStep DEF PInv
<1>. QED
  BY <1>1, <1>2, PTL DEF Spec

(* When the application never nests maps of a resource (D3D12 allows it;   *)
(* run resource_nested_maps shows what happens then), mapped_resources_ is *)
(* exactly the set of live resources it holds a CPU pointer into           *)
(* (MappedSetExact): PostProcess_ID3D12Resource_Map,                       *)
(* PreProcess_ID3D12Resource_Unmap and Destroy_ID3D12Resource keep it in   *)
(* step with the runtime's pointers, through address reuse.               *)
THEOREM MappedSetMatchesPointers ==
  ASSUME MaxMaps = 1
  PROVE  Spec => []MappedSetExact
BY PointerInvariant, PTL DEF PInv

-----------------------------------------------------------------------------
(* Pending writes against mapped_resources_, when maps do not nest and the *)
(* driver keeps every write-watch flag.                                    *)

(* Every resource's writes are captured the way its ResourceInfo says. *)
CapturesAll == \A r \in Resources : CapturesWrites(r)

WInv == PInv /\ CapturesAll /\ UncapturedWritesTracked

LEMMA CaptureStep ==
  ASSUME MaxMaps = 1, WatchOutcomes = {TRUE}
  PROVE  WInv /\ [Next]_vars => CapturesAll' /\ UncapturedWritesTracked'
<1> SUFFICES ASSUME WInv, [Next]_vars PROVE CapturesAll' /\ UncapturedWritesTracked'
  OBVIOUS
<1>1. CASE \E r \in Resources : CreateCommittedResource(r)
  <2>1. PICK r \in Resources : CreateCommittedResource(r)
    BY <1>1
  <2>2. /\ res'[r].writeWatch => watched'[r]
        /\ \A s \in Resources \ {r} : res'[s] = res[s] /\ watched'[s] = watched[s]
    BY <2>1, CreateFacts DEF WInv, PInv
  <2>3. CapturesAll'
    BY <2>2 DEF WInv, CapturesAll, CapturesWrites
  <2>. QED
    BY <2>1, <2>3 DEF CreateCommittedResource, WInv, UncapturedWritesTracked
<1>2. CASE \E r \in Resources : Map(r)
  <2>1. PICK r \in Resources : Map(r)
    BY <1>2
  <2>2. mapped \subseteq mapped' /\ UNCHANGED <<res, watched, dirty>>
    BY <2>1 DEF Map, PostProcess_ID3D12Resource_Map
  <2>. QED
    BY <2>2 DEF WInv, CapturesAll, CapturesWrites, UncapturedWritesTracked
<1>3. CASE \E r \in Resources : Write(r)
  <2>1. PICK r \in Resources : Write(r)
    BY <1>3
  <2>2. r \in mapped
    BY <2>1 DEF Write, WInv, PInv, PtrsLive, MappedSetExact
  <2>. QED
    BY <2>1, <2>2 DEF Write, WInv, CapturesAll, CapturesWrites, UncapturedWritesTracked
<1>4. CASE \E r \in Resources : Unmap(r)
  <2>1. PICK r \in Resources : Unmap(r)
    BY <1>4
  <2>2. mapped' = mapped \ {r} /\ dirty' = dirty \ {r} /\ UNCHANGED <<res, watched>>
    BY <2>1 DEF Unmap, PreProcess_ID3D12Resource_Unmap, CaptureWrites, WInv, CapturesAll
  <2>. QED
    BY <2>2 DEF WInv, CapturesAll, CapturesWrites, UncapturedWritesTracked
<1>5. CASE \E r \in Resources : Release(r)
  <2>1. PICK r \in Resources : Release(r)
    BY <1>5
  <2>2. mapped' = mapped \ {r} /\ dirty' = dirty \ {r} /\ UNCHANGED <<res, watched>>
    BY <2>1 DEF Release, Destroy_ID3D12Resource
  <2>. QED
    BY <2>2 DEF WInv, CapturesAll, CapturesWrites, UncapturedWritesTracked
<1>6. CASE ExecuteCommandLists \/ UNCHANGED vars
  <2>1. dirty' \subseteq dirty /\ UNCHANGED <<res, watched, mapped>>
    BY <1>6 DEF ExecuteCommandLists, CaptureWrites, vars
  <2>. QED
    BY <2>1 DEF WInv, CapturesAll, CapturesWrites, UncapturedWritesTracked
<1>. QED
  BY <1>1, <1>2, <1>3, <1>4, <1>5, <1>6 DEF Next

LEMMA WriteInvariant ==
  ASSUME MaxMaps = 1, WatchOutcomes = {TRUE}
  PROVE  Spec => []WInv
<1>1. Init => WInv
  BY InitTypeOK
     DEF Init, WInv, PInv, PtrsLive, MappedSetExact, CapturesAll, CapturesWrites,
         InitializeID3D12ResourceInfo, UncapturedWritesTracked
<1>2. WInv /\ [Next]_vars => WInv'
  BY TypeStep, PointerStep, CaptureStep DEF WInv, PInv
<1>. QED
  BY <1>1, <1>2, PTL DEF Spec

(* When the application never nests maps of a resource and the driver     *)
(* keeps every write-watch flag the override injects (runs                 *)
(* resource_nested_maps and resource_dropped_watch show what happens       *)
(* otherwise), every application write not yet in the trace belongs to a  *)
(* resource in mapped_resources_ (UncapturedWritesTracked), so the next    *)
(* ExecuteCommandLists captures it: an unmap or a release never ends a     *)
(* pointer whose writes are still pending, for any number of resources and *)
(* creations and whatever the capture setting.                            *)
THEOREM WritesCaptured ==
  ASSUME MaxMaps = 1, WatchOutcomes = {TRUE}
  PROVE  Spec => []UncapturedWritesTracked
BY WriteInvariant, PTL DEF WInv

-----------------------------------------------------------------------------
(* mapped_resources_ stays readable for any nesting of maps.  With TypeOK  *)
(* the property is inductive: each hook that can end a CPU pointer (the    *)
(* last Unmap, the release) takes the resource out of the set in the same  *)
(* step.                                                                   *)
MInv == TypeOK /\ MappedMemoryReadable

LEMMA MapReadable ==
  ASSUME MInv, NEW r \in Resources, Map(r)
  PROVE  MappedMemoryReadable'
<1>1. PICK data \in BOOLEAN, result \in {"S_OK", "E_FAIL"} :
        /\ IF result = "S_OK"
             THEN /\ mapCount' = [mapCount EXCEPT ![r] = @ + 1]
                  /\ hasPtr' = [hasPtr EXCEPT ![r] = @ \/ data]
             ELSE UNCHANGED <<mapCount, hasPtr>>
        /\ PostProcess_ID3D12Resource_Map(r, result, data)
  BY DEF Map
<1>2. r \in live /\ UNCHANGED live
  BY DEF Map
<1>3. CASE result = "S_OK"
  <2>1. hasPtr' = [hasPtr EXCEPT ![r] = @ \/ data] /\ mapped' = IF data THEN mapped \cup {r} ELSE mapped
    BY <1>1, <1>3 DEF PostProcess_ID3D12Resource_Map
  <2>2. \A s \in Resources : hasPtr[s] => hasPtr'[s]
    BY <2>1 DEF MInv, TypeOK
  <2>3. data => hasPtr'[r]
    BY <2>1 DEF MInv, TypeOK
  <2>. QED
    BY <1>2, <2>1, <2>2, <2>3 DEF MInv, TypeOK, MappedMemoryReadable
<1>4. CASE result # "S_OK"
  BY <1>1, <1>2, <1>4 DEF PostProcess_ID3D12Resource_Map, MInv, MappedMemoryReadable
<1>. QED
  BY <1>3, <1>4

LEMMA UnmapReadable ==
  ASSUME MInv, NEW r \in Resources, Unmap(r)
  PROVE  MappedMemoryReadable'
<1>1. mapped' = mapped \ {r} /\ UNCHANGED live
  BY DEF Unmap, PreProcess_ID3D12Resource_Unmap
<1>2. \A s \in Resources \ {r} : hasPtr'[s] = hasPtr[s]
  BY DEF Unmap, MInv, TypeOK
<1>. QED
  BY <1>1, <1>2 DEF MInv, TypeOK, MappedMemoryReadable

LEMMA ReleaseReadable ==
  ASSUME MInv, NEW r \in Resources, Release(r)
  PROVE  MappedMemoryReadable'
<1>1. mapped' = mapped \ {r} /\ live' = live \ {r}
  BY DEF Release, Destroy_ID3D12Resource
<1>2. \A s \in Resources \ {r} : hasPtr'[s] = hasPtr[s]
  BY DEF Release, MInv, TypeOK
<1>. QED
  BY <1>1, <1>2 DEF MInv, TypeOK, MappedMemoryReadable

(* For any resources, bounds and nesting of Map and Unmap, every resource  *)
(* in mapped_resources_ is live and mapped with a CPU pointer, so the      *)
(* pre-process of ExecuteCommandLists never reads released or unmapped    *)
(* memory (MappedMemoryReadable).                                          *)
THEOREM MappedMemoryStaysReadable == Spec => []MappedMemoryReadable
<1>1. Init => MInv
  BY InitTypeOK DEF Init, MInv, MappedMemoryReadable
<1>2. MInv /\ [Next]_vars => MInv'
  <2> SUFFICES ASSUME MInv, [Next]_vars PROVE MInv'
    OBVIOUS
  <2>1. TypeOK'
    BY TypeStep DEF MInv
  <2>2. CASE \E r \in Resources : CreateCommittedResource(r)
    <3>1. PICK r \in Resources : CreateCommittedResource(r)
      BY <2>2
    <3>2. r \notin mapped /\ UNCHANGED <<mapped, hasPtr>> /\ live \subseteq live'
      BY <3>1 DEF CreateCommittedResource, MInv, MappedMemoryReadable
    <3>. QED
      BY <2>1, <3>2 DEF MInv, MappedMemoryReadable
  <2>3. CASE \E r \in Resources : Map(r)
    BY <2>1, <2>3, MapReadable DEF MInv
  <2>4. CASE \E r \in Resources : Unmap(r)
    BY <2>1, <2>4, UnmapReadable DEF MInv
  <2>5. CASE \E r \in Resources : Release(r)
    BY <2>1, <2>5, ReleaseReadable DEF MInv
  <2>6. CASE \/ \E r \in Resources : Write(r)
             \/ ExecuteCommandLists \/ UNCHANGED vars
    <3>1. UNCHANGED <<mapped, hasPtr, live>>
      BY <2>6 DEF Write, ExecuteCommandLists, vars
    <3>. QED
      BY <2>1, <3>1 DEF MInv, MappedMemoryReadable
  <2>. QED
    BY <2>2, <2>3, <2>4, <2>5, <2>6 DEF Next
<1>. QED
  BY <1>1, <1>2, PTL DEF Spec, MInv


=============================================================================
