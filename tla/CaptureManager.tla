--------------------------- MODULE CaptureManager ---------------------------
(***************************************************************************)
(* The D3D12 capture manager of src/framework/encode/                      *)
(* d3d12_capture_manager.h seen from the application threads that call     *)
(* intercepted entry points.  A thread's call goes through the wrapper     *)
(* protocol: IncrementCallScope (and, at scope 1, the shared API-call      *)
(* lock), the native call, the end-of-call hook of the header              *)
(* (EndCreateMethodCallCapture, EndCommandListMethodCallCapture,           *)
(* ProcessWrapperDestroy, PostPresent), DecrementCallScope.  A call may   *)
(* make nested calls while its native part runs.  The trim controller      *)
(* switches the capture mode and, when a trim range starts, writes the     *)
(* tracked state (WriteTrackedState) under the exclusive API-call lock.    *)
(*                                                                         *)
(* Data is abstracted: a wrapper is a member of Handles, the state         *)
(* tracker's registry is the set of wrappers it has an entry for, the      *)
(* per-kind information of a command list is whether commands were        *)
(* tracked for it, and a state block is the set of wrappers it describes.  *)
(* The call records written to the trace file are not modelled.            *)
(***************************************************************************)
EXTENDS Naturals, Sequences, FiniteSets

CONSTANTS
  Threads,   \* application threads calling intercepted entry points
  Handles,   \* wrapper addresses; an address is reused once its wrapper is deleted
  NULL,      \* a null output pointer
  Garbage,   \* an uninitialised output pointer left untouched by a failed call
  MaxDepth,  \* deepest nesting of intercepted calls on one thread
  MaxCalls,  \* bound on the number of application (top-level) calls
  MaxTrims   \* bound on the number of trim ranges started

ASSUME ThreadsAssumption == Threads # {}
ASSUME HandlesAssumption == NULL \notin Handles /\ Garbage \notin Handles /\ NULL # Garbage
ASSUME BoundsAssumption ==
  MaxDepth \in Nat \ {0} /\ MaxCalls \in Nat /\ MaxTrims \in Nat

(* Capture mode bits: the mode is the set of bits that are set. *)
kModeWrite == "write"
kModeTrack == "track"

Results == {"S_OK", "S_FALSE", "E_FAIL"}
SUCCEEDED(r) == r \in {"S_OK", "S_FALSE"}

OutValues == Handles \cup {NULL, Garbage}
Ops == {"create", "use", "destroy", "present"}

(* One active intercepted call: the entry point's kind, the wrapper it is  *)
(* on or has produced, whether the native call has returned, its result.   *)
Frame == [op : Ops, h : OutValues, phase : {"native", "end"}, res : Results]

VARIABLES
  captureMode,   \* CaptureManager::GetCaptureMode()
  tracker,       \* state_tracker_ != nullptr
  registry,      \* wrappers with an entry in the Dx12StateTracker
  listCommands,  \* command lists for which TrackCommand recorded commands
  callScope,     \* thread_local call_scope_
  stack,         \* per thread, the intercepted calls in progress, innermost last
  lockHolders,   \* threads holding the shared API-call lock
  wrappers,      \* allocated wrappers (objects created and not yet deleted)
  stateBlock,    \* the wrappers described by the last state block written
  snapshots,     \* number of state blocks written
  shots,         \* number of frame captures triggered by PostPresent
  appPresents,   \* history: successful presents called by the application itself
  issued         \* number of application calls made so far

vars == <<captureMode, tracker, registry, listCommands, callScope, stack,
          lockHolders, wrappers, stateBlock, snapshots, shots, appPresents, issued>>

-----------------------------------------------------------------------------
(* Helpers over the threads' calls. *)

Top(t) == stack[t][Len(stack[t])]
Pop(s) == SubSeq(s, 1, Len(s) - 1)
SetTop(t, f) == stack' = [stack EXCEPT ![t] = [@ EXCEPT ![Len(@)] = f]]

ActiveFrames == UNION {{stack[t][i] : i \in DOMAIN stack[t]} : t \in Threads}

(* Wrappers some call in progress is working on. *)
BusyHandles == {f.h : f \in ActiveFrames}

(* Wrappers created by a native call whose end-of-call hook has not run.  *)
PendingCreates ==
  {f.h : f \in {g \in ActiveFrames : g.op = "create" /\ g.phase = "end"}} \cap wrappers

(* Wrappers the application holds and no call is working on. *)
Owned == wrappers \ BusyHandles

(* A call just entered, before its native part has run. *)
NewCall(o, x) == [op |-> o, h |-> x, phase |-> "native", res |-> "S_OK"]

(* Calls the application can make: create an object, present, or use or   *)
(* release (to zero) an object it holds.                                  *)
AppCalls ==
  {NewCall("create", NULL), NewCall("present", NULL)}
    \cup {NewCall(o, x) : o \in {"use", "destroy"}, x \in Owned}

(* Calls a native implementation makes into another intercepted entry      *)
(* point: a present, or a use of an object.                               *)
NestedCalls == {NewCall("present", NULL)} \cup {NewCall("use", x) : x \in Owned}

-----------------------------------------------------------------------------
(* The header's own operations. *)

(* Mutant: call_scope_ declared without thread_local, one counter shared  *)
(* by every thread.                                                       *)
IncrementCallScopeShared(t) == callScope' = [u \in Threads |-> callScope[t] + 1]

IncrementCallScope(t) == callScope' = [callScope EXCEPT ![t] = @ + 1]

DecrementCallScope(t) == callScope' = [callScope EXCEPT ![t] = @ - 1]

CreateStateTracker == tracker' = TRUE

(* DestroyStateTracker drops the tracker and every entry it held. *)
DestroyStateTracker ==
  /\ tracker' = FALSE
  /\ registry' = {}
  /\ listCommands' = [h \in Handles |-> FALSE]

AddEntry(h) == registry' = registry \cup {h}

(* Mutant: RemoveEntry leaves the per-kind information behind. *)
RemoveEntryKeepsInfo(h) ==
  /\ registry' = registry \ {h}
  /\ UNCHANGED listCommands

(* RemoveEntry deregisters the wrapper and its per-kind information. *)
RemoveEntry(h) ==
  /\ registry' = registry \ {h}
  /\ listCommands' = [listCommands EXCEPT ![h] = FALSE]

TrackCommand(h) == listCommands' = [listCommands EXCEPT ![h] = TRUE]

(* Mutant: EndCreateMethodCallCapture without the SUCCEEDED(result) test. *)
EndCreateIgnoringResult(f) ==
  /\ IF kModeTrack \in captureMode /\ f.h # NULL
       THEN AddEntry(f.h)
       ELSE UNCHANGED registry
  /\ UNCHANGED <<listCommands, wrappers, shots, appPresents>>

(* EndCreateMethodCallCapture: register the created object when tracking, *)
(* the call succeeded and it produced a non-null handle.                  *)
EndCreateMethodCallCapture(f) ==
  /\ IF kModeTrack \in captureMode /\ SUCCEEDED(f.res) /\ f.h # NULL
       THEN AddEntry(f.h)
       ELSE UNCHANGED registry
  /\ UNCHANGED <<listCommands, wrappers, shots, appPresents>>

EndCommandListMethodCallCapture(f) ==
  /\ IF kModeTrack \in captureMode
       THEN TrackCommand(f.h)
       ELSE UNCHANGED listCommands
  /\ UNCHANGED <<registry, wrappers, shots, appPresents>>

(* ProcessWrapperDestroy, followed by the deletion of the wrapper, which   *)
(* frees its address for reuse.                                            *)
ProcessWrapperDestroy(f) ==
  /\ IF kModeTrack \in captureMode
       THEN RemoveEntry(f.h)
       ELSE UNCHANGED <<registry, listCommands>>
  /\ wrappers' = wrappers \ {f.h}
  /\ UNCHANGED <<shots, appPresents>>

(* Mutant: PostPresent without the call-scope test. *)
PostPresentAnyScope(t, f) ==
  /\ shots' = IF SUCCEEDED(f.res) THEN shots + 1 ELSE shots
  /\ appPresents' = IF SUCCEEDED(f.res) /\ Len(stack[t]) = 1
                      THEN appPresents + 1 ELSE appPresents
  /\ UNCHANGED <<registry, listCommands, wrappers>>

(* PostPresent: a frame capture only for a successful present made by the *)
(* application itself (call scope 1).                                      *)
PostPresent(t, f) ==
  /\ shots' = IF SUCCEEDED(f.res) /\ callScope[t] = 1 THEN shots + 1 ELSE shots
  /\ appPresents' = IF SUCCEEDED(f.res) /\ Len(stack[t]) = 1
                      THEN appPresents + 1 ELSE appPresents
  /\ UNCHANGED <<registry, listCommands, wrappers>>

(* Mutant: the trim controller does not wait for the shared lock holders. *)
ApiCallBarrierMissing == TRUE

(* The exclusive API-call lock can be taken only when no thread holds the  *)
(* shared one.                                                             *)
ApiCallBarrier == lockHolders = {}

(* WriteTrackedState: one state block describing every registered object. *)
WriteTrackedState ==
  /\ stateBlock' = registry
  /\ snapshots' = snapshots + 1

-----------------------------------------------------------------------------
Init ==
  /\ captureMode \in {{kModeTrack}, {kModeWrite}}
  /\ tracker = (kModeTrack \in captureMode)
  /\ registry = {}
  /\ listCommands = [h \in Handles |-> FALSE]
  /\ callScope = [t \in Threads |-> 0]
  /\ stack = [t \in Threads |-> <<>>]
  /\ lockHolders = {}
  /\ wrappers = {}
  /\ stateBlock = {}
  /\ snapshots = 0
  /\ shots = 0
  /\ appPresents = 0
  /\ issued = 0

(* The application enters an intercepted entry point on thread t.  At     *)
(* call scope 1 the wrapper takes the shared API-call lock.               *)
BeginCall(t) ==
  /\ stack[t] = <<>>
  /\ issued < MaxCalls
  /\ \E f \in AppCalls : stack' = [stack EXCEPT ![t] = <<f>>]
  /\ IncrementCallScope(t)
  /\ lockHolders' = IF callScope'[t] = 1 THEN lockHolders \cup {t} ELSE lockHolders
  /\ issued' = issued + 1
  /\ UNCHANGED <<captureMode, tracker, registry, listCommands, wrappers,
                 stateBlock, snapshots, shots, appPresents>>

(* The native implementation of the innermost call calls another          *)
(* intercepted entry point (a use of an object, or a present).            *)
NestedCall(t) ==
  /\ stack[t] # <<>>
  /\ Len(stack[t]) < MaxDepth
  /\ Top(t).phase = "native"
  /\ \E f \in NestedCalls : stack' = [stack EXCEPT ![t] = Append(@, f)]
  /\ IncrementCallScope(t)
  /\ lockHolders' = IF callScope'[t] = 1 THEN lockHolders \cup {t} ELSE lockHolders
  /\ UNCHANGED <<captureMode, tracker, registry, listCommands, wrappers,
                 stateBlock, snapshots, shots, appPresents, issued>>

(* The native call of the innermost call returns.  A creation succeeds    *)
(* with a new wrapper at a free address, succeeds without an object       *)
(* (S_FALSE for a null output pointer) or fails, leaving the output null  *)
(* or uninitialised.                                                      *)
NativeCall(t) ==
  /\ stack[t] # <<>>
  /\ Top(t).phase = "native"
  /\ LET f == Top(t) IN
       \/ /\ f.op = "create"
          /\ \/ \E x \in Handles \ wrappers :
                  /\ SetTop(t, [f EXCEPT !.h = x, !.phase = "end", !.res = "S_OK"])
                  /\ wrappers' = wrappers \cup {x}
             \/ /\ SetTop(t, [f EXCEPT !.h = NULL, !.phase = "end", !.res = "S_FALSE"])
                /\ UNCHANGED wrappers
             \/ \E x \in {NULL, Garbage} :
                  /\ SetTop(t, [f EXCEPT !.h = x, !.phase = "end", !.res = "E_FAIL"])
                  /\ UNCHANGED wrappers
       \/ /\ f.op \in {"use", "destroy"}
          /\ SetTop(t, [f EXCEPT !.phase = "end"])
          /\ UNCHANGED wrappers
       \/ /\ f.op = "present"
          /\ \E r \in {"S_OK", "E_FAIL"} : SetTop(t, [f EXCEPT !.phase = "end", !.res = r])
          /\ UNCHANGED wrappers
  /\ UNCHANGED <<captureMode, tracker, registry, listCommands, callScope, lockHolders,
                 stateBlock, snapshots, shots, appPresents, issued>>

(* The end-of-call hook of the innermost call, then DecrementCallScope;   *)
(* the shared lock is released when the scope drops to 0.                 *)
EndCall(t) ==
  /\ stack[t] # <<>>
  /\ Top(t).phase = "end"
  /\ LET f == Top(t) IN
       CASE f.op = "create"  -> EndCreateMethodCallCapture(f)
         [] f.op = "use"     -> EndCommandListMethodCallCapture(f)
         [] f.op = "destroy" -> ProcessWrapperDestroy(f)
         [] f.op = "present" -> PostPresent(t, f)
  /\ DecrementCallScope(t)
  /\ stack' = [stack EXCEPT ![t] = Pop(@)]
  /\ lockHolders' = IF callScope'[t] = 0 THEN lockHolders \ {t} ELSE lockHolders
  /\ UNCHANGED <<captureMode, tracker, stateBlock, snapshots, issued>>

(* A trim range starts: under the exclusive lock, writing is switched on  *)
(* and the tracked state is written.                                      *)
ActivateTrimming ==
  /\ ApiCallBarrier
  /\ captureMode = {kModeTrack}
  /\ snapshots < MaxTrims
  /\ captureMode' = {kModeWrite, kModeTrack}
  /\ WriteTrackedState
  /\ UNCHANGED <<tracker, registry, listCommands, callScope, stack, lockHolders,
                 wrappers, shots, appPresents, issued>>

(* A trim range ends: tracking goes on for the next range, or stops and   *)
(* the state tracker is destroyed.                                        *)
DeactivateTrimming ==
  /\ captureMode = {kModeWrite, kModeTrack}
  /\ \/ /\ captureMode' = {kModeTrack}
        /\ UNCHANGED <<tracker, registry, listCommands>>
     \/ /\ captureMode' = {}
        /\ DestroyStateTracker
  /\ UNCHANGED <<callScope, stack, lockHolders, wrappers, stateBlock, snapshots,
                 shots, appPresents, issued>>

(* The application has made its last call and every call has returned.   *)
Finished ==
  /\ issued = MaxCalls
  /\ \A t \in Threads : stack[t] = <<>>
  /\ UNCHANGED vars

Next ==
  \/ \E t \in Threads : BeginCall(t) \/ NestedCall(t) \/ NativeCall(t) \/ EndCall(t)
  \/ ActivateTrimming
  \/ DeactivateTrimming
  \/ Finished

Spec == Init /\ [][Next]_vars

(* The native call at nesting depth d of thread t returns. *)
NativeReturnAt(t, d) == NativeCall(t) /\ Len(stack[t]) = d

(* Each thread keeps running its intercepted calls: the native call at     *)
(* every depth makes finitely many nested calls and returns (strong        *)
(* fairness: it returns although each nested call disables it for a       *)
(* while), and once it has, the wrapper runs its end-of-call hook and      *)
(* returns on the same thread.  Neither the application's next call nor    *)
(* the trim controller is assumed to happen.                               *)
FairSpec ==
  /\ Spec
  /\ \A t \in Threads :
       /\ \A d \in 1..MaxDepth : SF_vars(NativeReturnAt(t, d))
       /\ WF_vars(EndCall(t))

-----------------------------------------------------------------------------
TypeOK ==
  /\ captureMode \in {{}, {kModeTrack}, {kModeWrite}, {kModeWrite, kModeTrack}}
  /\ tracker \in BOOLEAN
  /\ registry \subseteq Handles
  /\ listCommands \in [Handles -> BOOLEAN]
  /\ callScope \in [Threads -> Nat]
  /\ stack \in [Threads -> Seq(Frame)]
  /\ lockHolders \subseteq Threads
  /\ wrappers \subseteq Handles
  /\ stateBlock \subseteq Handles
  /\ snapshots \in Nat
  /\ shots \in Nat
  /\ appPresents \in Nat
  /\ issued \in Nat

(* Registry exactness (spec 3, 4.1, 4.2): while the state tracker exists,  *)
(* it has an entry for exactly the objects created by the application and  *)
(* not yet deleted, except those whose creating call has not reached       *)
(* EndCreateMethodCallCapture.  Breaking it takes a failed or S_FALSE      *)
(* creation registered, a deletion that leaves its entry behind, or a      *)
(* wrapper address reused by another thread before the entry is removed.  *)
RegistryExact == tracker => registry = wrappers \ PendingCreates

(* Per-kind information is dropped with its entry (spec 3): no command     *)
(* list recorded by TrackCommand outlives its registry entry, so a wrapper *)
(* reallocated at the same address never inherits old commands.           *)
TrackedInfoBelongsToEntries == \A h \in Handles : listCommands[h] => h \in registry

(* The thread-local call scope of every thread is the number of           *)
(* intercepted calls that thread is inside, whatever the other threads do: *)
(* 1 exactly for a call the application made itself (header 104-123).     *)
CallScopeIsNesting == \A t \in Threads : callScope[t] = Len(stack[t])

(* PostPresent's frame capture happens once for every successful present   *)
(* the application itself makes, never for a present made from inside      *)
(* another intercepted call (spec 4.1, call scope; spec 8).                *)
ScreenshotPerAppPresent == shots = appPresents

(* A state block written by WriteTrackedState describes exactly the        *)
(* objects that exist at that moment: none that is half-created or         *)
(* half-destroyed by a thread inside an intercepted call (spec 4.2, 5).    *)
SnapshotMatchesLive == [][snapshots' # snapshots => stateBlock' = wrappers]_vars


(* The shared API-call lock is free again and again: a thread releases it *)
(* when its outermost call returns (call scope back to 0), so the trim     *)
(* controller, which waits for the exclusive lock, is never blocked for    *)
(* good.  A call scope counted across threads, or a nested call that takes *)
(* or drops the lock at the wrong scope, leaves a holder that never lets   *)
(* go.                                                                     *)
ApiLockReleased == []<>(lockHolders = {})

=============================================================================
