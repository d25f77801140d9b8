----------------------- MODULE CaptureManager_tracking -----------------------
(***************************************************************************)
(* Proof that no command list recorded by TrackCommand outlives its        *)
(* registry entry (TrackedInfoBelongsToEntries), for every value of the    *)
(* constants.                                                              *)
(*                                                                         *)
(* The property is not inductive by itself: EndCommandListMethodCallCapture *)
(* records commands for the wrapper of the call without looking it up, so *)
(* that the wrapper has an entry follows only from the registry being      *)
(* exact (RegInv): the wrapper is live, and the only call working on it is *)
(* this use, so no creation of it is pending.                              *)
(***************************************************************************)
EXTENDS CaptureManager_registry

TrackInv == RegInv /\ TrackedInfoBelongsToEntries

-----------------------------------------------------------------------------
(* While tracking, the wrapper of a thread's innermost use call has an     *)
(* entry in the registry.                                                  *)
LEMMA UsedHandleRegistered ==
  ASSUME RegInv, NEW t \in Threads, stack[t] # <<>>, Top(t).op = "use",
         Top(t).h \in Handles, kModeTrack \in captureMode
  PROVE  Top(t).h \in registry
<1>. USE DEF RegInv, CallInv
<1>. DEFINE f == Top(t)
            L == Len(stack[t])
<1>1. L \in Pos(t) /\ f = At(t, L)
  BY TopType DEF TypeOK, Top, Pos, At
<1>2. f.h \in wrappers
  BY <1>1 DEF FrameHandlesLive
<1>3. ~PendAt(stack, f.h)
  <2> SUFFICES ASSUME NEW u \in Threads, NEW i \in Pos(u), IsPend(At(u, i), f.h)
               PROVE  FALSE
    BY DEF PendAt, PendSeq, Pos, At
  <2>1. u = t /\ i = L
    BY <1>1 DEF FrameHandlesUnique, IsPend
  <2>. QED
    BY <1>1, <2>1 DEF IsPend
<1>4. tracker
  BY DEF TrackerMatchesMode
<1>. QED
  BY <1>2, <1>3, <1>4, RegistryExactAt

(* The end-of-call hook of a thread's innermost call keeps the per-kind    *)
(* information inside the registry.                                        *)
LEMMA EndCallTracked ==
  ASSUME RegInv, TrackedInfoBelongsToEntries, NEW t \in Threads, EndCall(t)
  PROVE  TrackedInfoBelongsToEntries'
<1>. USE DEF RegInv, CallInv
<1>. DEFINE f == Top(t)
<1>1. f \in Frame /\ stack[t] # <<>>
  BY TopType DEF EndCall, TypeOK, Top
<1>2. CASE f.op = "create"
  <2>1. UNCHANGED listCommands /\ registry \subseteq registry'
    BY <1>2 DEF EndCall, EndCreateMethodCallCapture, AddEntry
  <2>. QED
    BY <2>1 DEF TrackedInfoBelongsToEntries
<1>3. CASE f.op = "use" /\ kModeTrack \in captureMode
  <2>1. /\ listCommands' = [listCommands EXCEPT ![f.h] = TRUE]
        /\ UNCHANGED registry
    BY <1>3 DEF EndCall, EndCommandListMethodCallCapture, TrackCommand
  <2> SUFFICES ASSUME NEW h \in Handles, listCommands'[h] PROVE h \in registry'
    BY DEF TrackedInfoBelongsToEntries
  <2>2. CASE h = f.h
    BY <1>1, <1>3, <2>1, <2>2, UsedHandleRegistered
  <2>3. CASE h # f.h
    BY <2>1, <2>3 DEF TypeOK, TrackedInfoBelongsToEntries
  <2>. QED
    BY <2>2, <2>3
<1>4. CASE f.op = "use" /\ kModeTrack \notin captureMode
  BY <1>4 DEF EndCall, EndCommandListMethodCallCapture, TrackedInfoBelongsToEntries
<1>5. CASE f.op = "destroy" /\ kModeTrack \in captureMode
  <2>1. /\ listCommands' = [listCommands EXCEPT ![f.h] = FALSE]
        /\ registry' = registry \ {f.h}
    BY <1>5 DEF EndCall, ProcessWrapperDestroy, RemoveEntry
  <2>. QED
    BY <2>1 DEF TypeOK, TrackedInfoBelongsToEntries
<1>6. CASE f.op = "destroy" /\ kModeTrack \notin captureMode
  BY <1>6 DEF EndCall, ProcessWrapperDestroy, TrackedInfoBelongsToEntries
<1>7. CASE f.op = "present"
  BY <1>7 DEF EndCall, PostPresent, TrackedInfoBelongsToEntries
<1>. QED
  BY <1>1, <1>2, <1>3, <1>4, <1>5, <1>6, <1>7 DEF Frame, Ops

(* The trim controller keeps the per-kind information inside the registry: *)
(* it either leaves both alone or destroys the tracker with all its        *)
(* entries and information.                                                *)
LEMMA TrimmingTracked ==
  ASSUME TrackedInfoBelongsToEntries,
         ActivateTrimming \/ DeactivateTrimming \/ Finished \/ UNCHANGED vars
  PROVE  TrackedInfoBelongsToEntries'
<1>1. CASE DeactivateTrimming /\ captureMode' = {} /\ DestroyStateTracker
  BY <1>1 DEF DestroyStateTracker, TrackedInfoBelongsToEntries
<1>2. CASE ~(DeactivateTrimming /\ captureMode' = {} /\ DestroyStateTracker)
  <2>1. UNCHANGED <<registry, listCommands>>
    BY <1>2 DEF ActivateTrimming, DeactivateTrimming, Finished, vars
  <2>. QED
    BY <2>1 DEF TrackedInfoBelongsToEntries
<1>. QED
  BY <1>1, <1>2

-----------------------------------------------------------------------------
(* For any threads, wrapper addresses and bounds: no command list recorded *)
(* by TrackCommand outlives its registry entry, through deletions, address *)
(* reuse, nested calls and the tracker's destruction at the end of a trim  *)
(* range.                                                                  *)
THEOREM TrackingInvariant == Spec => []TrackInv
<1>1. Init => TrackedInfoBelongsToEntries
  BY DEF Init, TrackedInfoBelongsToEntries
<1>2. RegInv /\ TrackedInfoBelongsToEntries /\ [Next]_vars => TrackedInfoBelongsToEntries'
  <2> SUFFICES ASSUME RegInv, TrackedInfoBelongsToEntries, [Next]_vars
               PROVE  TrackedInfoBelongsToEntries'
    OBVIOUS
  <2>1. CASE \E t \in Threads : BeginCall(t) \/ NestedCall(t) \/ NativeCall(t)
    BY <2>1 DEF BeginCall, NestedCall, NativeCall, TrackedInfoBelongsToEntries
  <2>2. CASE \E t \in Threads : EndCall(t)
    BY <2>2, EndCallTracked
  <2>3. CASE ActivateTrimming \/ DeactivateTrimming \/ Finished \/ UNCHANGED vars
    BY <2>3, TrimmingTracked
  <2>. QED
    BY <2>1, <2>2, <2>3 DEF Next
<1>. QED
  BY <1>1, <1>2, RegistryInvariant, PTL DEF Spec, TrackInv

(* Per-kind information always belongs to a registry entry               *)
(* (TrackedInfoBelongsToEntries).                                          *)
THEOREM TrackedInfoOwned == Spec => []TrackedInfoBelongsToEntries
BY TrackingInvariant, PTL DEF TrackInv

=============================================================================
