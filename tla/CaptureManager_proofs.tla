------------------------ MODULE CaptureManager_proofs ------------------------
(***************************************************************************)
(* Proofs about CaptureManager for every value of the constants.           *)
(*                                                                         *)
(* TypeOK alone is not inductive: DecrementCallScope keeps call_scope_ in  *)
(* Nat only because a thread that ends a call has the call counted in its  *)
(* scope.  The inductive invariant CallInv adds CallScopeIsNesting, and    *)
(* with it ScreenshotPerAppPresent becomes inductive as well: PostPresent  *)
(* tests call_scope_ = 1 and the history counter tests that the present    *)
(* is the only call on the thread's stack.                                 *)
(***************************************************************************)
EXTENDS CaptureManager, SequenceTheorems, TLAPS

(* An uninitialised output pointer only ever sits in a creation whose    *)
(* native call failed: it is what keeps EndCreateMethodCallCapture from    *)
(* registering anything but a wrapper.                                     *)
GoodFrame(f) == f.h = Garbage => f.op = "create" /\ f.phase = "end" /\ f.res = "E_FAIL"
GoodStack(s) == \A i \in 1 .. Len(s) : GoodFrame(s[i])
GarbageOnlyFromFailedCreate == \A t \in Threads : GoodStack(stack[t])

CallInv ==
  /\ TypeOK
  /\ CallScopeIsNesting
  /\ ScreenshotPerAppPresent
  /\ GarbageOnlyFromFailedCreate

-----------------------------------------------------------------------------
(* Lemmas on the per-thread stacks of calls. *)

LEMMA TopType ==
  ASSUME NEW s \in Seq(Frame), s # <<>>
  PROVE  /\ s[Len(s)] \in Frame
         /\ Len(s) \in Nat \ {0}
BY EmptySeq, ElementOfSeq

LEMMA SetTopType ==
  ASSUME NEW s \in Seq(Frame), s # <<>>, NEW f \in Frame
  PROVE  /\ [s EXCEPT ![Len(s)] = f] \in Seq(Frame)
         /\ Len([s EXCEPT ![Len(s)] = f]) = Len(s)
BY EmptySeq, ExceptSeq

LEMMA PopType ==
  ASSUME NEW s \in Seq(Frame), s # <<>>
  PROVE  /\ Pop(s) \in Seq(Frame)
         /\ Len(Pop(s)) = Len(s) - 1
<1>1. Len(s) \in Nat \ {0}
  BY EmptySeq
<1>2. \A i \in 1 .. Len(s) - 1 : s[i] \in Frame
  BY <1>1, ElementOfSeq
<1>3. /\ SubSeq(s, 1, Len(s) - 1) \in Seq(Frame)
      /\ Len(SubSeq(s, 1, Len(s) - 1)) = IF 1 <= Len(s) - 1 THEN Len(s) - 1 ELSE 0
  BY <1>1, <1>2, SubSeqProperties
<1>4. (IF 1 <= Len(s) - 1 THEN Len(s) - 1 ELSE 0) = Len(s) - 1
  <2>. DEFINE n == Len(s)
  <2>1. n \in Nat \ {0}
    BY <1>1
  <2>. HIDE DEF n
  <2>2. (IF 1 <= n - 1 THEN n - 1 ELSE 0) = n - 1
    BY <2>1
  <2>. QED
    BY <2>2 DEF n
<1>. QED
  BY <1>3, <1>4, Zenon DEF Pop

LEMMA GoodStackSingle ==
  ASSUME NEW f, GoodFrame(f)
  PROVE  GoodStack(<<f>>)
BY DEF GoodStack

LEMMA GoodStackAppend ==
  ASSUME NEW s \in Seq(Frame), GoodStack(s), NEW f \in Frame, GoodFrame(f)
  PROVE  GoodStack(Append(s, f))
BY AppendProperties DEF GoodStack

LEMMA GoodStackSetTop ==
  ASSUME NEW s \in Seq(Frame), s # <<>>, GoodStack(s), NEW f \in Frame, GoodFrame(f)
  PROVE  GoodStack([s EXCEPT ![Len(s)] = f])
BY EmptySeq, ExceptSeq DEF GoodStack

LEMMA GoodStackPop ==
  ASSUME NEW s \in Seq(Frame), s # <<>>, GoodStack(s)
  PROVE  GoodStack(Pop(s))
<1>1. /\ Len(Pop(s)) = Len(s) - 1
      /\ Len(s) \in Nat \ {0}
  BY PopType, EmptySeq
<1>2. \A i \in 1 .. Len(s) - 1 : Pop(s)[i] = s[i]
  BY <1>1, SubSeqProperties DEF Pop
<1>. QED
  BY <1>1, <1>2 DEF GoodStack

-----------------------------------------------------------------------------
(* Frames the calls can push are frames. *)

LEMMA CallFrames ==
  ASSUME TypeOK
  PROVE  /\ AppCalls \subseteq Frame /\ NestedCalls \subseteq Frame
         /\ \A f \in AppCalls \cup NestedCalls : GoodFrame(f)
<1>1. \A o \in Ops, x \in OutValues : NewCall(o, x) \in Frame
  BY DEF NewCall, Frame, Results
<1>2. Owned \subseteq Handles
  BY DEF TypeOK, Owned
<1>3. \A o \in Ops, x \in Handles \cup {NULL} : GoodFrame(NewCall(o, x))
  BY HandlesAssumption DEF NewCall, GoodFrame
<1>. QED
  BY <1>1, <1>2, <1>3 DEF AppCalls, NestedCalls, Ops, OutValues

-----------------------------------------------------------------------------
(* One lemma per action: it preserves CallInv. *)

LEMMA BeginCallInv ==
  ASSUME CallInv, NEW t \in Threads, BeginCall(t)
  PROVE  CallInv'
<1>. USE DEF CallInv
<1>1. PICK f \in Frame : stack' = [stack EXCEPT ![t] = <<f>>] /\ GoodFrame(f)
  BY CallFrames DEF BeginCall
<1>2. <<f>> \in Seq(Frame) /\ Len(<<f>>) = 1 /\ GoodStack(<<f>>)
  BY <1>1, GoodStackSingle
<1>3. TypeOK'
  BY <1>1, <1>2 DEF BeginCall, TypeOK, IncrementCallScope
<1>4. CallScopeIsNesting'
  BY <1>1, <1>2 DEF BeginCall, TypeOK, IncrementCallScope, CallScopeIsNesting
<1>5. ScreenshotPerAppPresent'
  BY DEF BeginCall, ScreenshotPerAppPresent
<1>6. GarbageOnlyFromFailedCreate'
  BY <1>1, <1>2 DEF GarbageOnlyFromFailedCreate, TypeOK
<1>. QED
  BY <1>3, <1>4, <1>5, <1>6

LEMMA NestedCallInv ==
  ASSUME CallInv, NEW t \in Threads, NestedCall(t)
  PROVE  CallInv'
<1>. USE DEF CallInv
<1>1. PICK f \in Frame : stack' = [stack EXCEPT ![t] = Append(@, f)] /\ GoodFrame(f)
  BY CallFrames DEF NestedCall
<1>2. /\ Append(stack[t], f) \in Seq(Frame)
      /\ Len(Append(stack[t], f)) = Len(stack[t]) + 1
      /\ GoodStack(Append(stack[t], f))
  BY <1>1, AppendProperties, GoodStackAppend DEF TypeOK, GarbageOnlyFromFailedCreate
<1>3. TypeOK'
  BY <1>1, <1>2 DEF NestedCall, TypeOK, IncrementCallScope
<1>4. CallScopeIsNesting'
  BY <1>1, <1>2 DEF NestedCall, TypeOK, IncrementCallScope, CallScopeIsNesting
<1>5. ScreenshotPerAppPresent'
  BY DEF NestedCall, ScreenshotPerAppPresent
<1>6. GarbageOnlyFromFailedCreate'
  BY <1>1, <1>2 DEF GarbageOnlyFromFailedCreate, TypeOK
<1>. QED
  BY <1>3, <1>4, <1>5, <1>6

LEMMA NativeCallInv ==
  ASSUME CallInv, NEW t \in Threads, NativeCall(t)
  PROVE  CallInv'
<1>. USE DEF CallInv
<1>1. /\ stack[t] \in Seq(Frame)
      /\ stack[t] # <<>>
      /\ Top(t) \in Frame
      /\ GoodStack(stack[t])
  BY TopType DEF NativeCall, TypeOK, Top, GarbageOnlyFromFailedCreate
<1>1a. Top(t).h # Garbage
  <2>0. Len(stack[t]) \in 1 .. Len(stack[t])
    BY <1>1, TopType
  <2>1. GoodFrame(Top(t)) /\ Top(t).phase = "native"
    BY <1>1, <2>0 DEF GoodStack, Top, NativeCall
  <2>. QED
    BY <2>1 DEF GoodFrame
<1>2. PICK g \in Frame : /\ SetTop(t, g)
                          /\ GoodFrame(g)
                          /\ wrappers' \subseteq Handles
  <2>. DEFINE f == Top(t)
  <2>1. CASE f.op = "create"
    <3>1. CASE \E x \in Handles \ wrappers :
                 /\ SetTop(t, [f EXCEPT !.h = x, !.phase = "end", !.res = "S_OK"])
                 /\ wrappers' = wrappers \cup {x}
      BY <1>1, <3>1, HandlesAssumption DEF TypeOK, Frame, OutValues, Results, GoodFrame
    <3>2. CASE /\ SetTop(t, [f EXCEPT !.h = NULL, !.phase = "end", !.res = "S_FALSE"])
               /\ UNCHANGED wrappers
      BY <1>1, <3>2, HandlesAssumption DEF TypeOK, Frame, OutValues, Results, GoodFrame
    <3>3. CASE \E x \in {NULL, Garbage} :
                 /\ SetTop(t, [f EXCEPT !.h = x, !.phase = "end", !.res = "E_FAIL"])
                 /\ UNCHANGED wrappers
      BY <1>1, <2>1, <3>3 DEF TypeOK, Frame, OutValues, Results, GoodFrame
    <3>. QED
      BY <2>1, <3>1, <3>2, <3>3 DEF NativeCall
  <2>2. CASE f.op \in {"use", "destroy"}
    BY <1>1, <1>1a, <2>2 DEF NativeCall, TypeOK, Frame, GoodFrame
  <2>3. CASE f.op = "present"
    BY <1>1, <1>1a, <2>3 DEF NativeCall, TypeOK, Frame, Results, GoodFrame
  <2>. QED
    BY <1>1, <2>1, <2>2, <2>3 DEF Frame, Ops
<1>2a. /\ [stack[t] EXCEPT ![Len(stack[t])] = g] \in Seq(Frame)
       /\ Len([stack[t] EXCEPT ![Len(stack[t])] = g]) = Len(stack[t])
       /\ GoodStack([stack[t] EXCEPT ![Len(stack[t])] = g])
  BY <1>1, <1>2, SetTopType, GoodStackSetTop
<1>3. TypeOK'
  BY <1>2, <1>2a DEF NativeCall, TypeOK, SetTop
<1>4. CallScopeIsNesting'
  BY <1>2, <1>2a DEF NativeCall, TypeOK, SetTop, CallScopeIsNesting
<1>5. ScreenshotPerAppPresent'
  BY DEF NativeCall, ScreenshotPerAppPresent
<1>6. GarbageOnlyFromFailedCreate'
  BY <1>2, <1>2a DEF TypeOK, SetTop, GarbageOnlyFromFailedCreate
<1>. QED
  BY <1>3, <1>4, <1>5, <1>6

LEMMA EndCallInv ==
  ASSUME CallInv, NEW t \in Threads, EndCall(t)
  PROVE  CallInv'
<1>. USE DEF CallInv
<1>. DEFINE f == Top(t)
<1>1. /\ stack[t] \in Seq(Frame)
      /\ stack[t] # <<>>
      /\ f \in Frame
      /\ Len(stack[t]) \in Nat \ {0}
      /\ GoodStack(stack[t])
  BY TopType DEF EndCall, TypeOK, Top, GarbageOnlyFromFailedCreate
<1>1a. GoodFrame(f)
  BY <1>1 DEF GoodStack, Top
<1>2. /\ Pop(stack[t]) \in Seq(Frame)
      /\ Len(Pop(stack[t])) = Len(stack[t]) - 1
      /\ GoodStack(Pop(stack[t]))
  BY <1>1, PopType, GoodStackPop
<1>3. stack' = [stack EXCEPT ![t] = Pop(stack[t])]
  BY DEF EndCall
<1>4. /\ callScope' = [callScope EXCEPT ![t] = callScope[t] - 1]
      /\ callScope[t] = Len(stack[t])
  BY DEF EndCall, DecrementCallScope, CallScopeIsNesting
<1>5. /\ registry' \subseteq Handles
      /\ listCommands' \in [Handles -> BOOLEAN]
      /\ wrappers' \subseteq Handles
      /\ shots' \in Nat
      /\ appPresents' \in Nat
      /\ shots' = appPresents'
  <2>1. CASE f.op = "create"
    <3>1. SUCCEEDED(f.res) /\ f.h # NULL => f.h \in Handles
      BY <1>1, <1>1a DEF GoodFrame, SUCCEEDED, Frame, OutValues
    <3>. QED
      BY <1>1, <2>1, <3>1 DEF EndCall, EndCreateMethodCallCapture, AddEntry, TypeOK,
                              ScreenshotPerAppPresent
  <2>2. CASE f.op = "use"
    <3>1. f.h \in OutValues
      BY <1>1 DEF Frame
    <3>2. listCommands' \in [Handles -> BOOLEAN]
      BY <2>2, <3>1 DEF EndCall, EndCommandListMethodCallCapture, TrackCommand, TypeOK
    <3>. QED
      BY <2>2, <3>2 DEF EndCall, EndCommandListMethodCallCapture, TypeOK,
                        ScreenshotPerAppPresent
  <2>3. CASE f.op = "destroy"
    BY <1>1, <2>3 DEF EndCall, ProcessWrapperDestroy, RemoveEntry, TypeOK, Frame,
                      ScreenshotPerAppPresent
  <2>4. CASE f.op = "present"
    BY <1>1, <1>4, <2>4 DEF EndCall, PostPresent, TypeOK, ScreenshotPerAppPresent
  <2>. QED
    BY <1>1, <2>1, <2>2, <2>3, <2>4 DEF Frame, Ops
<1>6. TypeOK'
  BY <1>1, <1>2, <1>3, <1>4, <1>5 DEF EndCall, TypeOK
<1>7. CallScopeIsNesting'
  BY <1>1, <1>2, <1>3, <1>4 DEF TypeOK, CallScopeIsNesting
<1>8. ScreenshotPerAppPresent'
  BY <1>5 DEF ScreenshotPerAppPresent
<1>9. GarbageOnlyFromFailedCreate'
  BY <1>2, <1>3 DEF TypeOK, GarbageOnlyFromFailedCreate
<1>. QED
  BY <1>6, <1>7, <1>8, <1>9

LEMMA TrimmingInv ==
  ASSUME CallInv, ActivateTrimming \/ DeactivateTrimming \/ Finished
  PROVE  CallInv'
<1>. USE DEF CallInv
<1>1. CASE ActivateTrimming
  BY <1>1 DEF ActivateTrimming, WriteTrackedState, TypeOK, CallScopeIsNesting,
              ScreenshotPerAppPresent, GarbageOnlyFromFailedCreate
<1>2. CASE DeactivateTrimming
  <2>1. TypeOK'
    BY <1>2 DEF DeactivateTrimming, DestroyStateTracker, TypeOK
  <2>2. CallScopeIsNesting' /\ ScreenshotPerAppPresent' /\ GarbageOnlyFromFailedCreate'
    BY <1>2 DEF DeactivateTrimming, CallScopeIsNesting, ScreenshotPerAppPresent,
                GarbageOnlyFromFailedCreate
  <2>. QED
    BY <2>1, <2>2
<1>3. CASE Finished
  BY <1>3 DEF Finished, vars, TypeOK, CallScopeIsNesting, ScreenshotPerAppPresent,
              GarbageOnlyFromFailedCreate
<1>. QED
  BY <1>1, <1>2, <1>3

-----------------------------------------------------------------------------
(* Type correctness: every reachable state is well typed. *)
THEOREM CallInvariant == Spec => []CallInv
<1>1. Init => CallInv
  BY DEF Init, CallInv, TypeOK, CallScopeIsNesting, ScreenshotPerAppPresent,
         GarbageOnlyFromFailedCreate, GoodStack
<1>2. CallInv /\ [Next]_vars => CallInv'
  <2> SUFFICES ASSUME CallInv, [Next]_vars PROVE CallInv'
    OBVIOUS
  <2>1. CASE \E t \in Threads : BeginCall(t) \/ NestedCall(t) \/ NativeCall(t) \/ EndCall(t)
    BY <2>1, BeginCallInv, NestedCallInv, NativeCallInv, EndCallInv
  <2>2. CASE ActivateTrimming \/ DeactivateTrimming \/ Finished
    BY <2>2, TrimmingInv
  <2>3. CASE UNCHANGED vars
    BY <2>3 DEF vars, CallInv, TypeOK, CallScopeIsNesting, ScreenshotPerAppPresent,
                GarbageOnlyFromFailedCreate
  <2>. QED
    BY <2>1, <2>2, <2>3 DEF Next
<1>. QED
  BY <1>1, <1>2, PTL DEF Spec

(* The state of the capture manager is always well typed. *)
THEOREM TypeCorrect == Spec => []TypeOK
BY CallInvariant, PTL DEF CallInv

(* Every thread's call_scope_ is its nesting depth of intercepted calls,   *)
(* for any number of threads and any nesting bound.                        *)
THEOREM CallScopeNesting == Spec => []CallScopeIsNesting
BY CallInvariant, PTL DEF CallInv

(* PostPresent triggers exactly one frame capture per successful present   *)
(* made by the application itself, for any number of threads and nesting.  *)
THEOREM ScreenshotsMatchPresents == Spec => []ScreenshotPerAppPresent
BY CallInvariant, PTL DEF CallInv

=============================================================================
