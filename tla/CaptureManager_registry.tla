----------------------- MODULE CaptureManager_registry -----------------------
(***************************************************************************)
(* Proof that the state tracker's registry is exact (RegistryExact) and   *)
(* that every state block describes the live objects (SnapshotMatchesLive) *)
(* for every value of the constants.                                       *)
(***************************************************************************)
EXTENDS CaptureManager_proofs

(* Frame at position i of thread t's stack. *)
At(t, i) == stack[t][i]
Pos(t) == 1 .. Len(stack[t])

(* The tracker exists exactly while the track bit is set. *)
TrackerMatchesMode == tracker <=> kModeTrack \in captureMode

(* The shared lock is held by exactly the threads with a call in flight.  *)
LockHoldersBusy == lockHolders = {t \in Threads : stack[t] # <<>>}

(* A wrapper a call works on is live. *)
FrameHandlesLive ==
  \A t \in Threads : \A i \in Pos(t) : At(t, i).h \in Handles => At(t, i).h \in wrappers

(* No wrapper is worked on by two calls in progress. *)
FrameHandlesUnique ==
  \A t, u \in Threads : \A i \in Pos(t), j \in Pos(u) :
    At(t, i).h \in Handles /\ At(t, i).h = At(u, j).h => t = u /\ i = j

(* A creation holds a wrapper only when its native call returned S_OK. *)
CreatesWellFormed ==
  \A t \in Threads : \A i \in Pos(t) :
    At(t, i).op = "create" /\ At(t, i).h \in Handles => At(t, i).res = "S_OK"

RegInv ==
  /\ CallInv
  /\ TrackerMatchesMode
  /\ LockHoldersBusy
  /\ FrameHandlesLive
  /\ FrameHandlesUnique
  /\ CreatesWellFormed
  /\ RegistryExact

-----------------------------------------------------------------------------
(* PendingCreates seen one frame at a time. *)
IsPend(f, x) == f.op = "create" /\ f.phase = "end" /\ f.h = x
PendSeq(s, x) == \E i \in 1 .. Len(s) : IsPend(s[i], x)
PendAt(stk, x) == \E u \in Threads : PendSeq(stk[u], x)

LEMMA PendingCreatesAt ==
  ASSUME TypeOK
  PROVE  PendingCreates = {x \in wrappers : PendAt(stack, x)}
<1>1. ASSUME NEW x PROVE x \in PendingCreates <=> x \in wrappers /\ PendAt(stack, x)
  <2>1. ASSUME NEW u \in Threads PROVE DOMAIN stack[u] = 1 .. Len(stack[u])
    BY DEF TypeOK
  <2>. QED
    BY <2>1 DEF PendingCreates, ActiveFrames, PendAt, PendSeq, IsPend
<1>. QED
  BY <1>1

LEMMA PendingCreatesAtPrime ==
  ASSUME TypeOK'
  PROVE  PendingCreates' = {x \in wrappers' : PendAt(stack', x)}
<1>1. ASSUME NEW x PROVE x \in PendingCreates' <=> x \in wrappers' /\ PendAt(stack', x)
  <2>1. ASSUME NEW u \in Threads PROVE DOMAIN stack'[u] = 1 .. Len(stack'[u])
    BY DEF TypeOK
  <2>. QED
    BY <2>1 DEF PendingCreates, ActiveFrames, PendAt, PendSeq, IsPend
<1>. QED
  BY <1>1

(* RegistryExact in terms of the frames. *)
LEMMA RegistryExactAt ==
  ASSUME TypeOK
  PROVE  RegistryExact <=> (tracker => registry = {x \in wrappers : ~PendAt(stack, x)})
BY PendingCreatesAt DEF RegistryExact

LEMMA RegistryExactAtPrime ==
  ASSUME TypeOK'
  PROVE  RegistryExact' <=> (tracker' => registry' = {x \in wrappers' : ~PendAt(stack', x)})
BY PendingCreatesAtPrime DEF RegistryExact

(* A wrapper the application owns is in no frame. *)
LEMMA OwnedIdle ==
  ASSUME TypeOK, NEW x \in Owned
  PROVE  x \in wrappers /\ \A u \in Threads : \A j \in Pos(u) : At(u, j).h # x
<1>1. ASSUME NEW u \in Threads PROVE DOMAIN stack[u] = 1 .. Len(stack[u])
  BY DEF TypeOK
<1>. QED
  BY <1>1 DEF Owned, BusyHandles, ActiveFrames, Pos, At

-----------------------------------------------------------------------------
(* What pushing a frame on a thread's stack leaves where. *)
LEMMA PushFacts ==
  ASSUME TypeOK, NEW t \in Threads, NEW f \in Frame,
         stack' = [stack EXCEPT ![t] = Append(stack[t], f)]
  PROVE  /\ \A u \in Threads \ {t} : stack'[u] = stack[u]
         /\ Len(stack'[t]) = Len(stack[t]) + 1
         /\ \A i \in 1 .. Len(stack[t]) : stack'[t][i] = stack[t][i]
         /\ stack'[t][Len(stack[t]) + 1] = f
         /\ Len(stack[t]) \in Nat
BY AppendProperties DEF TypeOK

(* Pushing a call that is not yet pending, on an idle wrapper or none,    *)
(* keeps the frame invariants and RegistryExact.                          *)
LEMMA PushInv ==
  ASSUME RegInv, NEW t \in Threads, NEW f \in Frame,
         f.phase = "native", f.res = "S_OK", f.h \in Owned \cup {NULL},
         stack' = [stack EXCEPT ![t] = Append(stack[t], f)],
         UNCHANGED <<tracker, captureMode, registry, wrappers>>, TypeOK'
  PROVE  FrameHandlesLive' /\ FrameHandlesUnique' /\ CreatesWellFormed' /\ RegistryExact'
<1>. USE DEF RegInv, CallInv
<1>1. /\ \A u \in Threads \ {t} : stack'[u] = stack[u]
      /\ Len(stack'[t]) = Len(stack[t]) + 1
      /\ \A i \in 1 .. Len(stack[t]) : stack'[t][i] = stack[t][i]
      /\ stack'[t][Len(stack[t]) + 1] = f
      /\ Len(stack[t]) \in Nat
  BY PushFacts
<1>2. f.h \in Handles => f.h \in wrappers /\ \A u \in Threads : \A j \in Pos(u) : At(u, j).h # f.h
  BY OwnedIdle, HandlesAssumption
<1>3. FrameHandlesLive'
  BY <1>1, <1>2 DEF FrameHandlesLive, Pos, At
<1>4. FrameHandlesUnique'
  BY <1>1, <1>2 DEF FrameHandlesUnique, Pos, At
<1>5. CreatesWellFormed'
  BY <1>1 DEF CreatesWellFormed, Pos, At
<1>6. \A x : PendAt(stack', x) <=> PendAt(stack, x)
  BY <1>1 DEF PendAt, PendSeq, IsPend
<1>. QED
  BY <1>3, <1>4, <1>5, <1>6, RegistryExactAt, RegistryExactAtPrime

(* What replacing the innermost call of a thread leaves where. *)
LEMMA SetTopFacts ==
  ASSUME TypeOK, NEW t \in Threads, stack[t] # <<>>, NEW g \in Frame, SetTop(t, g)
  PROVE  /\ \A u \in Threads \ {t} : stack'[u] = stack[u]
         /\ Len(stack'[t]) = Len(stack[t])
         /\ \A i \in 1 .. Len(stack[t]) - 1 : stack'[t][i] = stack[t][i]
         /\ stack'[t][Len(stack[t])] = g
         /\ Len(stack[t]) \in Nat \ {0}
BY EmptySeq, ExceptSeq DEF TypeOK, SetTop

(* The native call of a thread's innermost call returns without taking a *)
(* new wrapper: the frame keeps its wrapper, or has none.                 *)
LEMMA SetTopKeep ==
  ASSUME RegInv, NEW t \in Threads, stack[t] # <<>>, Top(t).phase = "native",
         NEW g \in Frame, SetTop(t, g),
         g.h \notin Handles \/ (g.h = Top(t).h /\ g.op # "create"),
         UNCHANGED <<tracker, captureMode, registry, wrappers>>, TypeOK'
  PROVE  FrameHandlesLive' /\ FrameHandlesUnique' /\ CreatesWellFormed' /\ RegistryExact'
<1>. USE DEF RegInv, CallInv
<1>1. /\ \A u \in Threads \ {t} : stack'[u] = stack[u]
      /\ Len(stack'[t]) = Len(stack[t])
      /\ \A i \in 1 .. Len(stack[t]) - 1 : stack'[t][i] = stack[t][i]
      /\ stack'[t][Len(stack[t])] = g
      /\ Len(stack[t]) \in Nat \ {0}
  BY SetTopFacts
<1>2. Top(t) = stack[t][Len(stack[t])]
  BY DEF Top
<1>3. \A u \in Threads : Pos(u)' = Pos(u)
  BY <1>1 DEF Pos
<1>4. ASSUME NEW u \in Threads, NEW i \in Pos(u)
      PROVE  \/ At(u, i)' = At(u, i)
             \/ u = t /\ i = Len(stack[t]) /\ At(u, i)' = g
  BY <1>1 DEF Pos, At
<1>5. ASSUME NEW u \in Threads, NEW i \in Pos(u)
      PROVE  At(u, i).h' \in Handles =>
               /\ At(u, i).h' = At(u, i).h
               /\ At(u, i).op' = "create" => At(u, i)' = At(u, i)
  <2>1. \/ At(u, i)' = At(u, i)
        \/ u = t /\ i = Len(stack[t]) /\ At(u, i)' = g
    BY <1>4
  <2>2. CASE At(u, i)' = At(u, i)
    BY <2>2
  <2>3. CASE u = t /\ i = Len(stack[t]) /\ At(u, i)' = g
    <3> SUFFICES ASSUME g.h \in Handles
                 PROVE  /\ g.h = At(u, i).h
                        /\ g.op = "create" => g = At(u, i)
      BY <2>3
    <3>1. g.h = Top(t).h /\ g.op # "create"
      OBVIOUS
    <3>. QED
      BY <2>3, <3>1, <1>2 DEF At
  <2>. QED
    BY <2>1, <2>2, <2>3
<1>6. FrameHandlesLive'
  BY <1>3, <1>5 DEF FrameHandlesLive
<1>7. FrameHandlesUnique'
  BY <1>3, <1>5 DEF FrameHandlesUnique
<1>8. CreatesWellFormed'
  BY <1>3, <1>5 DEF CreatesWellFormed
<1>9. ASSUME NEW x \in wrappers PROVE PendAt(stack', x) <=> PendAt(stack, x)
  <2>1. ~IsPend(Top(t), x) /\ ~IsPend(g, x)
    BY <1>2 DEF IsPend, TypeOK
  <2>2. ASSUME NEW u \in Threads, NEW i \in Pos(u)
        PROVE  IsPend(At(u, i)', x) <=> IsPend(At(u, i), x)
    <3>1. \/ At(u, i)' = At(u, i)
          \/ u = t /\ i = Len(stack[t]) /\ At(u, i)' = g
      BY <1>4
    <3>. QED
      BY <3>1, <2>1, <1>2 DEF At
  <2>. QED
    BY <1>3, <2>2 DEF PendAt, PendSeq, Pos, At
<1>. QED
  BY <1>6, <1>7, <1>8, <1>9, RegistryExactAt, RegistryExactAtPrime

(* A creation's native call returns S_OK with a wrapper at a free address. *)
LEMMA SetTopCreate ==
  ASSUME RegInv, NEW t \in Threads, stack[t] # <<>>, Top(t).phase = "native",
         NEW x \in Handles \ wrappers,
         NEW g \in Frame, SetTop(t, g), g.h = x, g.res = "S_OK", IsPend(g, x),
         wrappers' = wrappers \cup {x},
         UNCHANGED <<tracker, captureMode, registry>>, TypeOK'
  PROVE  FrameHandlesLive' /\ FrameHandlesUnique' /\ CreatesWellFormed' /\ RegistryExact'
<1>. USE DEF RegInv, CallInv
<1>1. /\ \A u \in Threads \ {t} : stack'[u] = stack[u]
      /\ Len(stack'[t]) = Len(stack[t])
      /\ \A i \in 1 .. Len(stack[t]) - 1 : stack'[t][i] = stack[t][i]
      /\ stack'[t][Len(stack[t])] = g
      /\ Len(stack[t]) \in Nat \ {0}
  BY SetTopFacts
<1>2. Top(t) = stack[t][Len(stack[t])]
  BY DEF Top
<1>3. \A u \in Threads : \A j \in Pos(u) : At(u, j).h # x
  BY DEF FrameHandlesLive
<1>4. FrameHandlesLive'
  BY <1>1 DEF FrameHandlesLive, Pos, At
<1>3a. \A u \in Threads : Pos(u)' = Pos(u)
  BY <1>1 DEF Pos
<1>3b. ASSUME NEW u \in Threads, NEW i \in Pos(u)
       PROVE  \/ At(u, i)' = At(u, i)
              \/ u = t /\ i = Len(stack[t]) /\ At(u, i)' = g
  BY <1>1 DEF Pos, At
<1>5. FrameHandlesUnique'
  <2> SUFFICES ASSUME NEW u \in Threads, NEW v \in Threads, NEW i \in Pos(u), NEW j \in Pos(v),
                      At(u, i).h' \in Handles, At(u, i).h' = At(v, j).h'
               PROVE  u = v /\ i = j
    BY <1>3a DEF FrameHandlesUnique
  <2>1. CASE At(u, i)' = At(u, i) /\ At(v, j)' = At(v, j)
    BY <2>1 DEF FrameHandlesUnique
  <2>2. CASE u = t /\ i = Len(stack[t]) /\ v = t /\ j = Len(stack[t])
    BY <2>2
  <2>3. CASE u = t /\ i = Len(stack[t]) /\ At(u, i)' = g /\ At(v, j)' = At(v, j)
    BY <2>3, <1>3
  <2>4. CASE v = t /\ j = Len(stack[t]) /\ At(v, j)' = g /\ At(u, i)' = At(u, i)
    BY <2>4, <1>3
  <2>. QED
    BY <1>3b, <2>1, <2>2, <2>3, <2>4
<1>6. CreatesWellFormed'
  BY <1>3a, <1>3b DEF CreatesWellFormed
<1>7. ASSUME NEW y \in wrappers PROVE PendAt(stack', y) <=> PendAt(stack, y)
  <2>1. ~IsPend(Top(t), y) /\ ~IsPend(g, y)
    BY <1>2 DEF IsPend, TypeOK
  <2>2. ASSUME NEW u \in Threads, NEW i \in Pos(u)
        PROVE  IsPend(At(u, i)', y) <=> IsPend(At(u, i), y)
    <3>1. \/ At(u, i)' = At(u, i)
          \/ u = t /\ i = Len(stack[t]) /\ At(u, i)' = g
      BY <1>3b
    <3>. QED
      BY <3>1, <2>1, <1>2 DEF At
  <2>. QED
    BY <1>3a, <2>2 DEF PendAt, PendSeq, Pos, At
<1>8. PendAt(stack', x)
  <2>1. Len(stack[t]) \in 1 .. Len(stack'[t]) /\ IsPend(stack'[t][Len(stack[t])], x)
    BY <1>1
  <2>. QED
    BY <2>1 DEF PendAt, PendSeq
<1>9. {y \in wrappers' : ~PendAt(stack', y)} = {y \in wrappers : ~PendAt(stack, y)}
  BY <1>7, <1>8
<1>. QED
  BY <1>4, <1>5, <1>6, <1>9, RegistryExactAt, RegistryExactAtPrime

(* What popping the innermost call of a thread leaves where. *)
LEMMA PopFacts ==
  ASSUME TypeOK, NEW t \in Threads, stack[t] # <<>>,
         stack' = [stack EXCEPT ![t] = Pop(stack[t])]
  PROVE  /\ \A u \in Threads : \A i \in Pos(u)' :
              /\ i \in Pos(u)
              /\ At(u, i)' = At(u, i)
              /\ ~(u = t /\ i = Len(stack[t]))
         /\ \A u \in Threads : \A i \in Pos(u) :
              ~(u = t /\ i = Len(stack[t])) => i \in Pos(u)'
<1>1. /\ Len(Pop(stack[t])) = Len(stack[t]) - 1
      /\ Len(stack[t]) \in Nat \ {0}
  BY PopType, EmptySeq DEF TypeOK
<1>2. \A i \in 1 .. Len(stack[t]) - 1 : Pop(stack[t])[i] = stack[t][i]
  BY <1>1, SubSeqProperties DEF Pop, TypeOK
<1>3. \A u \in Threads \ {t} : stack'[u] = stack[u]
  BY DEF TypeOK
<1>4. stack'[t] = Pop(stack[t])
  BY DEF TypeOK
<1>. QED
  BY <1>1, <1>2, <1>3, <1>4 DEF Pos, At

(* The end-of-call hook of a thread's innermost call, and its pop, keep   *)
(* the frame invariants and RegistryExact.                                *)
LEMMA EndCallReg ==
  ASSUME RegInv, NEW t \in Threads, EndCall(t), TypeOK'
  PROVE  FrameHandlesLive' /\ FrameHandlesUnique' /\ CreatesWellFormed' /\ RegistryExact'
<1>. USE DEF RegInv, CallInv
<1>. DEFINE f == Top(t)
            L == Len(stack[t])
<1>1. /\ stack[t] # <<>>
      /\ L \in Pos(t)
      /\ f = At(t, L)
      /\ f \in Frame
      /\ f.phase = "end"
      /\ GoodFrame(f)
  BY TopType DEF EndCall, TypeOK, Top, Pos, At, GarbageOnlyFromFailedCreate, GoodStack
<1>2. /\ \A u \in Threads : \A i \in Pos(u)' :
           /\ i \in Pos(u)
           /\ At(u, i)' = At(u, i)
           /\ ~(u = t /\ i = L)
      /\ \A u \in Threads : \A i \in Pos(u) : ~(u = t /\ i = L) => i \in Pos(u)'
  BY <1>1, PopFacts DEF EndCall
<1>3. FrameHandlesUnique' /\ CreatesWellFormed'
  BY <1>2 DEF FrameHandlesUnique, CreatesWellFormed
<1>4. f.h \in Handles => \A u \in Threads : \A i \in Pos(u)' : At(u, i).h' # f.h
  BY <1>1, <1>2 DEF FrameHandlesUnique
<1>5. ASSUME NEW y, y # f.h \/ f.op # "create"
      PROVE  PendAt(stack', y) <=> PendAt(stack, y)
  <2>1. ~IsPend(At(t, L), y)
    BY <1>1, <1>5 DEF IsPend
  <2>2. PendAt(stack', y) <=> \E u \in Threads : \E i \in Pos(u)' : IsPend(At(u, i)', y)
    BY DEF PendAt, PendSeq, Pos, At
  <2>3. PendAt(stack, y) <=> \E u \in Threads : \E i \in Pos(u) : IsPend(At(u, i), y)
    BY DEF PendAt, PendSeq, Pos, At
  <2>4. ASSUME NEW u \in Threads, NEW i \in Pos(u), IsPend(At(u, i), y)
        PROVE  i \in Pos(u)' /\ IsPend(At(u, i)', y)
    <3>1. ~(u = t /\ i = L)
      BY <2>1, <2>4
    <3>. QED
      BY <1>2, <3>1, <2>4
  <2>. QED
    BY <1>2, <2>2, <2>3, <2>4
<1>6. f.h \in Handles => ~PendAt(stack', f.h)
  BY <1>4 DEF PendAt, PendSeq, IsPend, Pos, At
<1>7. \A u \in Threads : \A i \in Pos(u)' : At(u, i).h' \in Handles => At(u, i).h' \in wrappers
  BY <1>2 DEF FrameHandlesLive
<1>8. UNCHANGED <<tracker, captureMode>>
  BY DEF EndCall
<1>9. CASE f.op = "create"
  <2>1. UNCHANGED wrappers
    BY <1>9 DEF EndCall, EndCreateMethodCallCapture
  <2>2. FrameHandlesLive'
    BY <1>7, <2>1 DEF FrameHandlesLive
  <2>3. CASE kModeTrack \in captureMode /\ SUCCEEDED(f.res) /\ f.h # NULL
    <3>1. f.h \in Handles /\ f.h \in wrappers
      BY <1>1, <2>3 DEF GoodFrame, SUCCEEDED, Frame, OutValues, FrameHandlesLive
    <3>2. registry' = registry \cup {f.h}
      BY <1>9, <2>3 DEF EndCall, EndCreateMethodCallCapture, AddEntry
    <3>3. PendAt(stack, f.h)
      BY <1>1, <1>9 DEF PendAt, PendSeq, IsPend, Pos, At
    <3>4. tracker => registry = {y \in wrappers : ~PendAt(stack, y)}
      BY RegistryExactAt
    <3>5. {y \in wrappers' : ~PendAt(stack', y)}
            = {y \in wrappers : ~PendAt(stack, y)} \cup {f.h}
      BY <1>5, <1>6, <2>1, <3>1, <3>3
    <3>. QED
      BY <1>3, <1>8, <2>2, <3>2, <3>4, <3>5, RegistryExactAtPrime
  <2>4. CASE ~(kModeTrack \in captureMode /\ SUCCEEDED(f.res) /\ f.h # NULL)
    <3>1. UNCHANGED registry
      BY <1>9, <2>4 DEF EndCall, EndCreateMethodCallCapture
    <3>2. tracker => f.h \notin wrappers
      BY <1>1, <1>9, <2>4, HandlesAssumption
         DEF TrackerMatchesMode, CreatesWellFormed, SUCCEEDED, TypeOK
    <3>3. tracker => {y \in wrappers' : ~PendAt(stack', y)} = {y \in wrappers : ~PendAt(stack, y)}
      BY <1>5, <2>1, <3>2
    <3>. QED
      BY <1>3, <1>8, <2>2, <3>1, <3>3, RegistryExactAt, RegistryExactAtPrime
  <2>. QED
    BY <2>3, <2>4
<1>10. CASE f.op = "destroy"
  <2>1. wrappers' = wrappers \ {f.h}
    BY <1>10 DEF EndCall, ProcessWrapperDestroy
  <2>2. FrameHandlesLive'
    BY <1>4, <1>7, <2>1 DEF FrameHandlesLive, TypeOK
  <2>3. tracker => registry' = registry \ {f.h}
    BY <1>10 DEF EndCall, ProcessWrapperDestroy, RemoveEntry, TrackerMatchesMode
  <2>4. {y \in wrappers' : ~PendAt(stack', y)} = {y \in wrappers : ~PendAt(stack, y)} \ {f.h}
    BY <1>5, <1>10, <2>1
  <2>. QED
    BY <1>3, <1>8, <2>2, <2>3, <2>4, RegistryExactAt, RegistryExactAtPrime
<1>11. CASE f.op \in {"use", "present"}
  <2>1. UNCHANGED <<wrappers, registry>>
    BY <1>11 DEF EndCall, EndCommandListMethodCallCapture, PostPresent
  <2>2. FrameHandlesLive'
    BY <1>7, <2>1 DEF FrameHandlesLive
  <2>3. {y \in wrappers' : ~PendAt(stack', y)} = {y \in wrappers : ~PendAt(stack, y)}
    BY <1>5, <1>11, <2>1
  <2>. QED
    BY <1>3, <1>8, <2>1, <2>2, <2>3, RegistryExactAt, RegistryExactAtPrime
<1>. QED
  BY <1>1, <1>3, <1>9, <1>10, <1>11 DEF Frame, Ops

-----------------------------------------------------------------------------
(* One lemma per action: it preserves RegInv. *)

LEMMA BeginCallReg ==
  ASSUME RegInv, NEW t \in Threads, BeginCall(t)
  PROVE  RegInv'
<1>. USE DEF RegInv
<1>1. CallInv'
  BY BeginCallInv
<1>2. PICK f \in AppCalls : stack' = [stack EXCEPT ![t] = <<f>>]
  BY DEF BeginCall
<1>3. /\ f \in Frame
      /\ f.phase = "native" /\ f.res = "S_OK" /\ f.h \in Owned \cup {NULL}
  BY CallFrames DEF CallInv, AppCalls, NewCall
<1>4. stack' = [stack EXCEPT ![t] = Append(stack[t], f)]
  <2>1. stack[t] = <<>>
    BY DEF BeginCall
  <2>2. Append(stack[t], f) = <<f>>
    BY <2>1, AppendProperties, EmptySeq
  <2>. QED
    BY <1>2, <2>2
<1>5. FrameHandlesLive' /\ FrameHandlesUnique' /\ CreatesWellFormed' /\ RegistryExact'
  BY <1>1, <1>3, <1>4, PushInv DEF BeginCall, CallInv
<1>6. TrackerMatchesMode'
  BY DEF BeginCall, TrackerMatchesMode
<1>7. LockHoldersBusy'
  <2>1. callScope[t] = 0
    BY DEF BeginCall, CallInv, CallScopeIsNesting
  <2>2. callScope'[t] = 1 /\ stack'[t] # <<>>
    BY <1>2, <2>1 DEF BeginCall, IncrementCallScope, CallInv, TypeOK
  <2>3. \A u \in Threads \ {t} : stack'[u] = stack[u]
    BY <1>2 DEF CallInv, TypeOK
  <2>. QED
    BY <2>2, <2>3 DEF BeginCall, LockHoldersBusy
<1>. QED
  BY <1>1, <1>5, <1>6, <1>7

LEMMA NestedCallReg ==
  ASSUME RegInv, NEW t \in Threads, NestedCall(t)
  PROVE  RegInv'
<1>. USE DEF RegInv
<1>1. CallInv'
  BY NestedCallInv
<1>2. PICK f \in NestedCalls : stack' = [stack EXCEPT ![t] = Append(@, f)]
  BY DEF NestedCall
<1>3. /\ f \in Frame
      /\ f.phase = "native" /\ f.res = "S_OK" /\ f.h \in Owned \cup {NULL}
  BY CallFrames DEF CallInv, NestedCalls, NewCall
<1>5. FrameHandlesLive' /\ FrameHandlesUnique' /\ CreatesWellFormed' /\ RegistryExact'
  BY <1>1, <1>2, <1>3, PushInv DEF NestedCall, CallInv
<1>6. TrackerMatchesMode'
  BY DEF NestedCall, TrackerMatchesMode
<1>7. LockHoldersBusy'
  <2>1. callScope[t] = Len(stack[t]) /\ Len(stack[t]) \in Nat \ {0}
    BY EmptySeq DEF NestedCall, CallInv, CallScopeIsNesting, TypeOK
  <2>2. callScope'[t] # 1 /\ stack'[t] # <<>> /\ t \in lockHolders
    BY <1>2, <2>1 DEF NestedCall, IncrementCallScope, CallInv, TypeOK, LockHoldersBusy
  <2>3. \A u \in Threads \ {t} : stack'[u] = stack[u]
    BY <1>2 DEF CallInv, TypeOK
  <2>. QED
    BY <2>2, <2>3 DEF NestedCall, LockHoldersBusy
<1>. QED
  BY <1>1, <1>5, <1>6, <1>7

LEMMA NativeCallReg ==
  ASSUME RegInv, NEW t \in Threads, NativeCall(t)
  PROVE  RegInv'
<1>. USE DEF RegInv
<1>. DEFINE f == Top(t)
<1>1. CallInv'
  BY NativeCallInv
<1>2. /\ stack[t] # <<>>
      /\ f \in Frame
      /\ f.phase = "native"
      /\ UNCHANGED <<tracker, captureMode, registry, lockHolders>>
      /\ TypeOK'
  BY <1>1, TopType DEF NativeCall, CallInv, TypeOK, Top
<1>3. FrameHandlesLive' /\ FrameHandlesUnique' /\ CreatesWellFormed' /\ RegistryExact'
  <2>1. CASE f.op = "create"
    <3>1. CASE \E x \in Handles \ wrappers :
                 /\ SetTop(t, [f EXCEPT !.h = x, !.phase = "end", !.res = "S_OK"])
                 /\ wrappers' = wrappers \cup {x}
      <4>1. PICK x \in Handles \ wrappers :
                 /\ SetTop(t, [f EXCEPT !.h = x, !.phase = "end", !.res = "S_OK"])
                 /\ wrappers' = wrappers \cup {x}
        BY <3>1
      <4>. DEFINE g == [f EXCEPT !.h = x, !.phase = "end", !.res = "S_OK"]
      <4>2. g \in Frame /\ g.h = x /\ g.res = "S_OK" /\ IsPend(g, x)
        BY <1>2, <2>1 DEF Frame, OutValues, Results, IsPend
      <4>. QED
        BY <1>2, <4>1, <4>2, SetTopCreate
    <3>2. CASE /\ SetTop(t, [f EXCEPT !.h = NULL, !.phase = "end", !.res = "S_FALSE"])
               /\ UNCHANGED wrappers
      <4>. DEFINE g == [f EXCEPT !.h = NULL, !.phase = "end", !.res = "S_FALSE"]
      <4>1. g \in Frame /\ g.h \notin Handles
        BY <1>2, HandlesAssumption DEF Frame, OutValues, Results
      <4>. QED
        BY <1>2, <3>2, <4>1, SetTopKeep
    <3>3. CASE \E x \in {NULL, Garbage} :
                 /\ SetTop(t, [f EXCEPT !.h = x, !.phase = "end", !.res = "E_FAIL"])
                 /\ UNCHANGED wrappers
      <4>1. PICK x \in {NULL, Garbage} :
                 /\ SetTop(t, [f EXCEPT !.h = x, !.phase = "end", !.res = "E_FAIL"])
                 /\ UNCHANGED wrappers
        BY <3>3
      <4>. DEFINE g == [f EXCEPT !.h = x, !.phase = "end", !.res = "E_FAIL"]
      <4>2. g \in Frame /\ g.h \notin Handles
        BY <1>2, HandlesAssumption DEF Frame, OutValues, Results
      <4>. QED
        BY <1>2, <4>1, <4>2, SetTopKeep
    <3>. QED
      BY <2>1, <3>1, <3>2, <3>3 DEF NativeCall
  <2>2. CASE f.op \in {"use", "destroy"}
    <3>. DEFINE g == [f EXCEPT !.phase = "end"]
    <3>1. g \in Frame /\ g.h = f.h /\ g.op # "create"
      BY <1>2, <2>2 DEF Frame
    <3>2. SetTop(t, g) /\ UNCHANGED wrappers
      BY <2>2 DEF NativeCall
    <3>. QED
      BY <1>2, <3>1, <3>2, SetTopKeep
  <2>3. CASE f.op = "present"
    <3>1. PICK r \in {"S_OK", "E_FAIL"} : SetTop(t, [f EXCEPT !.phase = "end", !.res = r])
      BY <2>3 DEF NativeCall
    <3>. DEFINE g == [f EXCEPT !.phase = "end", !.res = r]
    <3>2. g \in Frame /\ g.h = f.h /\ g.op # "create"
      BY <1>2, <2>3 DEF Frame, Results
    <3>3. UNCHANGED wrappers
      BY <2>3 DEF NativeCall
    <3>. QED
      BY <1>2, <3>1, <3>2, <3>3, SetTopKeep
  <2>. QED
    BY <1>2, <2>1, <2>2, <2>3 DEF Frame, Ops
<1>4. TrackerMatchesMode'
  BY <1>2 DEF TrackerMatchesMode
<1>5. LockHoldersBusy'
  <2>0. PICK g : SetTop(t, g)
    BY DEF NativeCall
  <2>1. stack'[t] # <<>>
    BY <1>2, <2>0 DEF SetTop, CallInv, TypeOK
  <2>2. \A u \in Threads \ {t} : stack'[u] = stack[u]
    BY <2>0 DEF SetTop, CallInv, TypeOK
  <2>3. t \in lockHolders
    BY <1>2 DEF LockHoldersBusy
  <2>. QED
    BY <1>2, <2>1, <2>2, <2>3 DEF LockHoldersBusy
<1>. QED
  BY <1>1, <1>3, <1>4, <1>5

LEMMA EndCallRegInv ==
  ASSUME RegInv, NEW t \in Threads, EndCall(t)
  PROVE  RegInv'
<1>. USE DEF RegInv
<1>1. CallInv'
  BY EndCallInv
<1>2. FrameHandlesLive' /\ FrameHandlesUnique' /\ CreatesWellFormed' /\ RegistryExact'
  BY <1>1, EndCallReg DEF CallInv
<1>3. TrackerMatchesMode'
  BY DEF EndCall, TrackerMatchesMode
<1>4. LockHoldersBusy'
  <2>1. /\ Len(Pop(stack[t])) = Len(stack[t]) - 1
        /\ Len(stack[t]) \in Nat \ {0}
        /\ Pop(stack[t]) \in Seq(Frame)
    BY PopType, EmptySeq DEF EndCall, CallInv, TypeOK
  <2>2. /\ stack'[t] = Pop(stack[t])
        /\ \A u \in Threads \ {t} : stack'[u] = stack[u]
    BY DEF EndCall, CallInv, TypeOK
  <2>3. callScope'[t] = Len(stack[t]) - 1
    BY DEF EndCall, DecrementCallScope, CallInv, CallScopeIsNesting, TypeOK
  <2>4. callScope'[t] = 0 <=> stack'[t] = <<>>
    BY <2>1, <2>2, <2>3, EmptySeq
  <2>5. t \in lockHolders
    BY DEF EndCall, LockHoldersBusy
  <2>. QED
    BY <2>2, <2>4, <2>5 DEF EndCall, LockHoldersBusy
<1>. QED
  BY <1>1, <1>2, <1>3, <1>4

LEMMA StutterReg ==
  ASSUME RegInv, UNCHANGED vars
  PROVE  RegInv'
<1>1. CallInv'
  BY DEF vars, RegInv, CallInv, TypeOK, CallScopeIsNesting, ScreenshotPerAppPresent,
         GarbageOnlyFromFailedCreate, GoodStack, GoodFrame
<1>2. TrackerMatchesMode' /\ LockHoldersBusy'
  BY DEF vars, RegInv, TrackerMatchesMode, LockHoldersBusy
<1>3. FrameHandlesLive' /\ FrameHandlesUnique' /\ CreatesWellFormed'
  BY DEF vars, RegInv, FrameHandlesLive, FrameHandlesUnique, CreatesWellFormed, Pos, At
<1>4. RegistryExact'
  BY DEF vars, RegInv, RegistryExact, PendingCreates, ActiveFrames
<1>. QED
  BY <1>1, <1>2, <1>3, <1>4 DEF RegInv

LEMMA TrimmingReg ==
  ASSUME RegInv, ActivateTrimming \/ DeactivateTrimming \/ Finished
  PROVE  RegInv'
<1>. USE DEF RegInv
<1>1. CallInv'
  BY TrimmingInv
<1>2. TypeOK
  BY DEF CallInv
<1>3. UNCHANGED <<stack, wrappers, lockHolders>>
  BY DEF ActivateTrimming, DeactivateTrimming, Finished, vars
<1>4. FrameHandlesLive' /\ FrameHandlesUnique' /\ CreatesWellFormed' /\ LockHoldersBusy'
  BY <1>3 DEF FrameHandlesLive, FrameHandlesUnique, CreatesWellFormed, LockHoldersBusy, Pos, At
<1>5. CASE ActivateTrimming
  <2>1. tracker' /\ kModeTrack \in captureMode' /\ UNCHANGED <<tracker, registry>>
    BY <1>5 DEF ActivateTrimming, TrackerMatchesMode, kModeTrack, kModeWrite
  <2>2. TrackerMatchesMode'
    BY <2>1 DEF TrackerMatchesMode
  <2>. QED
    BY <1>1, <1>2, <1>3, <1>4, <2>1, <2>2, RegistryExactAt, RegistryExactAtPrime DEF CallInv
<1>6. CASE DeactivateTrimming
  <2>1. CASE captureMode' = {kModeTrack} /\ UNCHANGED <<tracker, registry, listCommands>>
    <3>1. tracker /\ tracker'
      BY <1>6, <2>1 DEF DeactivateTrimming, TrackerMatchesMode, kModeTrack, kModeWrite
    <3>2. TrackerMatchesMode'
      BY <2>1, <3>1 DEF TrackerMatchesMode
    <3>. QED
      BY <1>1, <1>2, <1>3, <1>4, <2>1, <3>2, RegistryExactAt, RegistryExactAtPrime DEF CallInv
  <2>2. CASE captureMode' = {} /\ DestroyStateTracker
    <3>1. ~tracker'
      BY <2>2 DEF DestroyStateTracker
    <3>2. TrackerMatchesMode' /\ RegistryExact'
      BY <2>2, <3>1 DEF TrackerMatchesMode, RegistryExact
    <3>. QED
      BY <1>1, <1>4, <3>2
  <2>. QED
    BY <1>6, <2>1, <2>2 DEF DeactivateTrimming
<1>7. CASE Finished
  BY <1>7, StutterReg DEF Finished
<1>. QED
  BY <1>5, <1>6, <1>7

-----------------------------------------------------------------------------
(* For any threads, wrapper addresses and bounds: while the state tracker  *)
(* exists, its registry holds exactly the objects created and not yet      *)
(* released whose EndCreateMethodCallCapture has run, through reuse of     *)
(* addresses, failed and S_FALSE creations and nested calls.               *)
THEOREM RegistryInvariant == Spec => []RegInv
<1>1. Init => RegInv
  <2> SUFFICES ASSUME Init PROVE RegInv
    OBVIOUS
  <2>1. CallInv
    BY DEF Init, CallInv, TypeOK, CallScopeIsNesting, ScreenshotPerAppPresent,
           GarbageOnlyFromFailedCreate, GoodStack
  <2>2. TrackerMatchesMode /\ LockHoldersBusy
    BY DEF Init, TrackerMatchesMode, LockHoldersBusy
  <2>3. FrameHandlesLive /\ FrameHandlesUnique /\ CreatesWellFormed
    BY DEF Init, FrameHandlesLive, FrameHandlesUnique, CreatesWellFormed, Pos
  <2>4. RegistryExact
    BY DEF Init, RegistryExact, PendingCreates, ActiveFrames
  <2>. QED
    BY <2>1, <2>2, <2>3, <2>4 DEF RegInv
<1>2. RegInv /\ [Next]_vars => RegInv'
  <2> SUFFICES ASSUME RegInv, [Next]_vars PROVE RegInv'
    OBVIOUS
  <2>1. CASE \E t \in Threads : BeginCall(t) \/ NestedCall(t) \/ NativeCall(t) \/ EndCall(t)
    BY <2>1, BeginCallReg, NestedCallReg, NativeCallReg, EndCallRegInv
  <2>2. CASE ActivateTrimming \/ DeactivateTrimming \/ Finished
    BY <2>2, TrimmingReg
  <2>3. CASE UNCHANGED vars
    BY <2>3, StutterReg
  <2>. QED
    BY <2>1, <2>2, <2>3 DEF Next
<1>. QED
  BY <1>1, <1>2, PTL DEF Spec

(* The registry of the state tracker is always exact (RegistryExact). *)
THEOREM RegistryIsExact == Spec => []RegistryExact
BY RegistryInvariant, PTL DEF RegInv

(* WriteTrackedState, run under the exclusive API-call lock, waits for     *)
(* every call in flight, so no creation is between its native call and its *)
(* hook and the registry is the set of live objects.                      *)
LEMMA SnapshotStep ==
  ASSUME RegInv, [Next]_vars
  PROVE  [snapshots' # snapshots => stateBlock' = wrappers]_vars
<1>1. CASE ActivateTrimming
  <2>1. \A u \in Threads : stack[u] = <<>>
    BY <1>1 DEF ActivateTrimming, ApiCallBarrier, RegInv, LockHoldersBusy
  <2>2. \A x : ~PendAt(stack, x)
    BY <2>1, EmptySeq DEF PendAt, PendSeq
  <2>3. tracker
    BY <1>1 DEF ActivateTrimming, RegInv, TrackerMatchesMode, kModeTrack
  <2>4. registry = wrappers
    BY <2>2, <2>3, RegistryExactAt DEF RegInv, CallInv
  <2>. QED
    BY <1>1, <2>4 DEF ActivateTrimming, WriteTrackedState
<1>2. CASE ~ActivateTrimming
  BY <1>2 DEF Next, vars, BeginCall, NestedCall, NativeCall, EndCall, DeactivateTrimming,
              Finished
<1>. QED
  BY <1>1, <1>2

(* Every state block WriteTrackedState writes describes exactly the objects *)
(* alive at that moment (SnapshotMatchesLive).                              *)
THEOREM SnapshotsDescribeLive == Spec => SnapshotMatchesLive
<1>1. RegInv /\ [Next]_vars => [snapshots' # snapshots => stateBlock' = wrappers]_vars
  BY SnapshotStep
<1>. QED
  BY <1>1, RegistryInvariant, PTL DEF Spec, SnapshotMatchesLive

=============================================================================
