----------------------- MODULE InstanceLifecycle_proofs -----------------------
(***************************************************************************)
(* Proofs about InstanceLifecycle for any finite set of surfaces.          *)
(*                                                                         *)
(* DispatchTableReady is not inductive by itself: that the other surface's *)
(* DestroyInstance leaves the manager alive follows only from the count    *)
(* being the number of holders (CountMatchesHolders), which puts it at 2   *)
(* or more while two surfaces hold the manager.  LifeInv conjoins both     *)
(* with TypeOK.                                                            *)
(***************************************************************************)
EXTENDS InstanceLifecycle, FiniteSetTheorems, TLAPS

LifeInv == TypeOK /\ CountMatchesHolders /\ DispatchTableReady

-----------------------------------------------------------------------------
(* The holders form a finite set; one holder puts its cardinality at 1 or  *)
(* more, two distinct holders at 2 or more.                                *)
LEMMA HoldersCardinality ==
  ASSUME TypeOK
  PROVE  /\ IsFiniteSet(Holders)
         /\ Cardinality(Holders) \in Nat
         /\ \A s \in Holders : Cardinality(Holders) >= 1
         /\ \A s, u \in Holders : s # u => Cardinality(Holders) >= 2
<1>1. IsFiniteSet(Holders)
  BY SurfacesAssumption, FS_Subset DEF Holders
<1>2. Cardinality(Holders) \in Nat
  BY <1>1, FS_CardinalityType
<1>3. ASSUME NEW s \in Holders
      PROVE  /\ IsFiniteSet(Holders \ {s})
             /\ Cardinality(Holders \ {s}) = Cardinality(Holders) - 1
             /\ Cardinality(Holders \ {s}) \in Nat
  BY <1>1, FS_RemoveElement, FS_CardinalityType
<1>4. ASSUME NEW s \in Holders PROVE Cardinality(Holders) >= 1
  <2>1. /\ Cardinality(Holders \ {s}) = Cardinality(Holders) - 1
        /\ Cardinality(Holders \ {s}) \in Nat
    BY <1>3
  <2>. QED
    BY <1>2, <2>1
<1>5. ASSUME NEW s \in Holders, NEW u \in Holders, s # u
      PROVE  Cardinality(Holders) >= 2
  <2>1. u \in Holders \ {s}
    BY <1>5
  <2>2. Cardinality((Holders \ {s}) \ {u}) = Cardinality(Holders \ {s}) - 1
    BY <1>3, <2>1, FS_RemoveElement
  <2>3. Cardinality((Holders \ {s}) \ {u}) \in Nat
    BY <1>3, FS_RemoveElement, FS_CardinalityType
  <2>4. /\ Cardinality(Holders \ {s}) = Cardinality(Holders) - 1
        /\ Cardinality(Holders \ {s}) \in Nat
    BY <1>3
  <2>. QED
    BY <1>2, <2>2, <2>3, <2>4
<1>. QED
  BY <1>1, <1>2, <1>4, <1>5, Zenon

-----------------------------------------------------------------------------
LEMMA LoadInv ==
  ASSUME LifeInv, NEW s \in Surfaces, LoadSurface(s)
  PROVE  LifeInv'
<1>. USE DEF LifeInv
<1>1. Holders' = Holders \cup {s} /\ s \notin Holders
  BY DEF LoadSurface, Holders, TypeOK
<1>2. Cardinality(Holders') = Cardinality(Holders) + 1
  BY <1>1, HoldersCardinality, FS_AddElement
<1>3. TypeOK'
  BY DEF LoadSurface, CreateInstance, TypeOK, EmptyTables, SurfaceStates
<1>4. CountMatchesHolders'
  <2>1. Cardinality(Holders) \in Nat
    BY HoldersCardinality
  <2>2. instanceCount' = Cardinality(Holders') /\ instanceCount' > 0
    BY <1>2, <2>1 DEF LoadSurface, CreateInstance, CountMatchesHolders, TypeOK
  <2>3. instance' = TRUE
    BY DEF LoadSurface, CreateInstance
  <2>. QED
    BY <2>2, <2>3, Zenon DEF CountMatchesHolders
<1>5. DispatchTableReady'
  <2>1. CASE instanceCount = 0
    <3>1. Holders = {}
      BY <2>1, HoldersCardinality, FS_EmptySet DEF CountMatchesHolders
    <3>. QED
      BY <2>1, <3>1 DEF LoadSurface, CreateInstance, DispatchTableReady, Get,
                        GetDispatchTable, Holders, TypeOK
  <2>2. CASE instanceCount # 0
    BY <2>2 DEF LoadSurface, CreateInstance, DispatchTableReady, Get, GetDispatchTable,
                TypeOK
  <2>. QED
    BY <2>1, <2>2
<1>. QED
  BY <1>3, <1>4, <1>5

LEMMA InitTableInv ==
  ASSUME LifeInv, NEW s \in Surfaces, InitSurfaceTable(s)
  PROVE  LifeInv'
<1>. USE DEF LifeInv
<1>1. Holders' = Holders /\ s \in Holders
  BY DEF InitSurfaceTable, Holders, TypeOK
<1>2. instance
  <2>1. Cardinality(Holders) \in Nat /\ Cardinality(Holders) >= 1
    BY <1>1, HoldersCardinality
  <2>2. instanceCount = Cardinality(Holders)
    BY DEF CountMatchesHolders
  <2>. QED
    <3>1. instanceCount > 0
      BY <2>1, <2>2
    <3>. QED
      BY <3>1, Zenon DEF CountMatchesHolders
<1>3. TypeOK'
  BY DEF InitSurfaceTable, InitDispatchTable, TypeOK, SurfaceStates
<1>4. CountMatchesHolders'
  BY <1>1 DEF InitSurfaceTable, CountMatchesHolders
<1>5. DispatchTableReady'
  BY <1>2 DEF InitSurfaceTable, InitDispatchTable, DispatchTableReady, Get,
              GetDispatchTable, TypeOK
<1>. QED
  BY <1>3, <1>4, <1>5

LEMMA UnloadInv ==
  ASSUME LifeInv, NEW s \in Surfaces, UnloadSurface(s)
  PROVE  LifeInv'
<1>. USE DEF LifeInv
<1>1. Holders' = Holders \ {s} /\ s \in Holders
  BY DEF UnloadSurface, Holders, TypeOK
<1>2. Cardinality(Holders') = Cardinality(Holders) - 1
  BY <1>1, HoldersCardinality, FS_RemoveElement
<1>3. instanceCount >= 1
  BY <1>1, HoldersCardinality DEF CountMatchesHolders
<1>4. TypeOK'
  BY <1>3 DEF UnloadSurface, DestroyInstance, TypeOK, EmptyTables, SurfaceStates
<1>5. CountMatchesHolders'
  <2>1. Cardinality(Holders) \in Nat
    BY HoldersCardinality
  <2>2. instanceCount' = Cardinality(Holders')
    BY <1>2, <1>3, <2>1 DEF UnloadSurface, DestroyInstance, CountMatchesHolders
  <2>3. instance' <=> instanceCount > 1
    BY DEF UnloadSurface, DestroyInstance
  <2>4. instanceCount > 1 <=> instanceCount' > 0
    BY <1>3, <2>1 DEF UnloadSurface, DestroyInstance, TypeOK
  <2>. QED
    BY <2>2, <2>3, <2>4, Zenon DEF CountMatchesHolders
<1>6. DispatchTableReady'
  <2> SUFFICES ASSUME NEW u \in Surfaces, surface'[u] = "ready"
               PROVE  Get' /\ GetDispatchTable(u)'
    BY DEF DispatchTableReady
  <2>1. u # s /\ surface[u] = "ready" /\ u \in Holders
    BY DEF UnloadSurface, Holders, TypeOK
  <2>2. instanceCount >= 2
    <3>1. Cardinality(Holders) >= 2
      BY <1>1, <2>1, HoldersCardinality
    <3>. QED
      BY <3>1 DEF CountMatchesHolders
  <2>3. instance /\ tables[u]
    BY <2>1 DEF DispatchTableReady, Get, GetDispatchTable
  <2>. QED
    BY <2>2, <2>3 DEF UnloadSurface, DestroyInstance, Get, GetDispatchTable, TypeOK
<1>. QED
  BY <1>4, <1>5, <1>6

-----------------------------------------------------------------------------
(* For any finite set of surfaces and any number of loads: the reference   *)
(* count is the number of surfaces holding the manager, and a surface that *)
(* finished loading always finds the manager and its own dispatch table.   *)
THEOREM LifecycleInvariant == Spec => []LifeInv
<1>1. Init => LifeInv
  <2> SUFFICES ASSUME Init PROVE LifeInv
    OBVIOUS
  <2>1. Holders = {}
    BY DEF Init, Holders
  <2>2. TypeOK
    BY DEF Init, TypeOK, EmptyTables, SurfaceStates
  <2>3. CountMatchesHolders
    <3>1. Cardinality(Holders) = 0
      BY <2>1, FS_EmptySet, Zenon
    <3>2. instanceCount = 0 /\ ~(instanceCount > 0)
      BY DEF Init
    <3>. QED
      BY <3>1, <3>2 DEF Init, CountMatchesHolders
  <2>4. DispatchTableReady
    BY DEF Init, DispatchTableReady
  <2>. QED
    BY <2>2, <2>3, <2>4 DEF LifeInv
<1>2. LifeInv /\ [Next]_vars => LifeInv'
  <2> SUFFICES ASSUME LifeInv, [Next]_vars PROVE LifeInv'
    OBVIOUS
  <2>1. CASE \E s \in Surfaces : LoadSurface(s) \/ InitSurfaceTable(s) \/ UnloadSurface(s)
    BY <2>1, LoadInv, InitTableInv, UnloadInv
  <2>2. CASE UNCHANGED vars
    BY <2>2 DEF vars, LifeInv, TypeOK, CountMatchesHolders, DispatchTableReady, Holders,
                Get, GetDispatchTable
  <2>. QED
    BY <2>1, <2>2 DEF Next
<1>. QED
  BY <1>1, <1>2, PTL DEF Spec

(* The reference count always equals the number of loaded surfaces. *)
THEOREM RefCountCorrect == Spec => []CountMatchesHolders
BY LifecycleInvariant, PTL DEF LifeInv

(* A loaded surface always reaches its native functions through Get(). *)
THEOREM TablesSurviveOtherSurface == Spec => []DispatchTableReady
BY LifecycleInvariant, PTL DEF LifeInv

=============================================================================
