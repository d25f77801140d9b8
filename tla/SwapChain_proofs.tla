--------------------------- MODULE SwapChain_proofs ---------------------------
(***************************************************************************)
(* Proofs about SwapChain for every value of the constants.                *)
(*                                                                         *)
(* BuffersMatchSwapChain speaks only of swapchains outside ResizeBuffers,  *)
(* so it is not inductive: EndResizeBuffers re-acquires the buffers from   *)
(* the native result, and that this matches DXGI's count is a fact about   *)
(* the resize in progress (ResizeInProgress): the swapchain exists, the    *)
(* pre-process has released its buffers, and a successful resize with a    *)
(* non-zero count has set the native count to it.                          *)
(***************************************************************************)
EXTENDS SwapChain, TLAPS

(* A ResizeBuffers between its native call and its post-process. *)
ResizeInProgress ==
  \A sc \in SwapChains : resizing[sc] # NoResize =>
    /\ sc \in chains
    /\ images[sc] = 0
    /\ SUCCEEDED(resizing[sc].result) /\ resizing[sc].bufferCount # 0
         => native[sc] = resizing[sc].bufferCount

SInv == TypeOK /\ ResizeInProgress /\ BuffersMatchSwapChain

(* The parts of SInv about one swapchain. *)
ChainOK(sc) ==
  /\ resizing[sc] # NoResize =>
       /\ sc \in chains
       /\ images[sc] = 0
       /\ SUCCEEDED(resizing[sc].result) /\ resizing[sc].bufferCount # 0
            => native[sc] = resizing[sc].bufferCount
  /\ resizing[sc] = NoResize => images[sc] = IF sc \in chains THEN native[sc] ELSE 0

LEMMA ChainOKSplit == SInv <=> TypeOK /\ \A sc \in SwapChains : ChainOK(sc)
BY DEF SInv, ChainOK, ResizeInProgress, BuffersMatchSwapChain

LEMMA ChainOKSplitPrime == SInv' <=> TypeOK' /\ \A sc \in SwapChains : ChainOK(sc)'
BY DEF SInv, ChainOK, ResizeInProgress, BuffersMatchSwapChain

(* A step that leaves a swapchain's own state alone keeps its facts. *)
LEMMA ChainFrame ==
  ASSUME NEW sc, ChainOK(sc),
         resizing'[sc] = resizing[sc], images'[sc] = images[sc], native'[sc] = native[sc],
         appRefs'[sc] = appRefs[sc], sc \in chains' <=> sc \in chains
  PROVE  ChainOK(sc)'
BY DEF ChainOK

LEMMA QueueStepInv ==
  ASSUME SInv, NEW q \in Queues, CreateCommandQueue(q) \/ ReleaseQueue(q)
  PROVE  SInv'
<1>1. UNCHANGED <<chains, native, images, appRefs, resizing>>
  BY DEF CreateCommandQueue, ReleaseQueue
<1>2. TypeOK'
  <2>1. CASE CreateCommandQueue(q)
    <3>1. PICK type \in QueueTypes :
            /\ liveQueues' = liveQueues \cup {q}
            /\ queueType' = [queueType EXCEPT ![q] = type]
            /\ directQueues' = IF type = "DIRECT" THEN Append(directQueues, q)
                                                  ELSE directQueues
      BY <2>1 DEF CreateCommandQueue, PostProcess_ID3D12Device_CreateCommandQueue, SUCCEEDED
    <3>. QED
      BY <1>1, <2>1, <3>1, SwapChainBoundsAssumption DEF CreateCommandQueue, SInv, TypeOK
  <2>2. CASE ReleaseQueue(q)
    BY <1>1, <2>2 DEF ReleaseQueue, SInv, TypeOK
  <2>. QED
    BY <2>1, <2>2
<1>3. \A sc \in SwapChains : ChainOK(sc)'
  BY <1>1, ChainOKSplit, ChainFrame
<1>. QED
  BY <1>2, <1>3, ChainOKSplitPrime

LEMMA CreateSwapChainInv ==
  ASSUME SInv, NEW sc \in SwapChains, CreateSwapChain(sc)
  PROVE  SInv'
<1>1. PICK q \in liveQueues, n \in 1..MaxBuffers :
        /\ chains' = chains \cup {sc}
        /\ native' = [native EXCEPT ![sc] = n]
        /\ images' = [images EXCEPT ![sc] = n]
        /\ chainQueue' = [chainQueue EXCEPT ![sc] = q]
  BY DEF CreateSwapChain, PreAcquireSwapChainImages
<1>2. UNCHANGED <<liveQueues, queueType, directQueues, appRefs, resizing, queuesMade>>
  BY DEF CreateSwapChain
<1>3. resizing[sc] = NoResize
  BY DEF CreateSwapChain, SInv, ResizeInProgress
<1>4. TypeOK'
  BY <1>1, <1>2 DEF SInv, TypeOK
<1>5. ChainOK(sc)'
  BY <1>1, <1>2, <1>3 DEF ChainOK, SInv, TypeOK
<1>6. \A s \in SwapChains \ {sc} : ChainOK(s)'
  BY <1>1, <1>2, ChainOKSplit, ChainFrame DEF SInv, TypeOK
<1>. QED
  BY <1>4, <1>5, <1>6, ChainOKSplitPrime

LEMMA SetBufferReferencesInv ==
  ASSUME SInv, NEW sc \in SwapChains, SetBufferReferences(sc)
  PROVE  SInv'
<1>1. TypeOK'
  BY DEF SetBufferReferences, SInv, TypeOK
<1>2. ChainOK(sc)'
  <2>1. ChainOK(sc) /\ resizing[sc] = NoResize
    BY ChainOKSplit DEF SetBufferReferences
  <2>. QED
    BY <2>1 DEF SetBufferReferences, ChainOK, SInv, TypeOK
<1>3. \A s \in SwapChains \ {sc} : ChainOK(s)'
  BY ChainOKSplit, ChainFrame DEF SetBufferReferences, SInv, TypeOK
<1>. QED
  BY <1>1, <1>2, <1>3, ChainOKSplitPrime

LEMMA ResizeBuffersInv ==
  ASSUME SInv, NEW sc \in SwapChains, ResizeBuffers(sc)
  PROVE  SInv'
<1>1. PICK bufferCount \in 0..MaxBuffers, fails \in BOOLEAN :
        LET result == NativeResizeResult(sc, fails) IN
        /\ native' = [native EXCEPT ![sc] =
                        IF SUCCEEDED(result) /\ bufferCount # 0 THEN bufferCount ELSE @]
        /\ resizing' = [resizing EXCEPT ![sc] = [result |-> result, bufferCount |-> bufferCount]]
  BY DEF ResizeBuffers
<1> DEFINE result == NativeResizeResult(sc, fails)
<1>2. images' = [images EXCEPT ![sc] = 0]
  BY DEF ResizeBuffers, PreProcess_IDXGISwapChain_ResizeBuffers, ReleaseSwapChainImages
<1>3. result \in Results
  BY <1>2 DEF NativeResizeResult, Results, SInv, TypeOK
<1>4. [result |-> result, bufferCount |-> bufferCount] \in Resize
  BY <1>3 DEF Resize
<1>5. UNCHANGED <<liveQueues, queueType, directQueues, chains, chainQueue, appRefs, queuesMade>>
  BY DEF ResizeBuffers
<1>6. sc \in chains /\ resizing[sc] = NoResize
  BY DEF ResizeBuffers
<1>7. TypeOK'
  <2>1. native' \in [SwapChains -> 0..MaxBuffers]
    <3>1. (IF SUCCEEDED(result) /\ bufferCount # 0 THEN bufferCount ELSE native[sc])
            \in 0..MaxBuffers
      BY DEF SInv, TypeOK
    <3>. QED
      BY <1>1, <3>1 DEF SInv, TypeOK
  <2>2. resizing' \in [SwapChains -> Resize \cup {NoResize}]
    BY <1>1, <1>4 DEF SInv, TypeOK
  <2>3. images' \in [SwapChains -> 0..MaxBuffers]
    BY <1>2, SwapChainBoundsAssumption DEF SInv, TypeOK
  <2>. QED
    BY <1>5, <2>1, <2>2, <2>3 DEF SInv, TypeOK
<1>8. ChainOK(sc)'
  <2>1. resizing'[sc] = [result |-> result, bufferCount |-> bufferCount]
    BY <1>1 DEF SInv, TypeOK
  <2>2. resizing'[sc] # NoResize
    BY <1>4, <2>1, NoResizeAssumption
  <2>. QED
    BY <1>1, <1>2, <1>3, <1>5, <1>6, <2>1, <2>2 DEF ChainOK, SInv, TypeOK
<1>9. \A s \in SwapChains \ {sc} : ChainOK(s)'
  BY <1>1, <1>2, <1>5, ChainOKSplit, ChainFrame DEF SInv, TypeOK
<1>. QED
  BY <1>7, <1>8, <1>9, ChainOKSplitPrime

LEMMA EndResizeBuffersInv ==
  ASSUME SInv, NEW sc \in SwapChains, EndResizeBuffers(sc)
  PROVE  SInv'
<1>1. resizing[sc] # NoResize /\ ChainOK(sc)
  BY ChainOKSplit DEF EndResizeBuffers
<1>2. images' = [images EXCEPT ![sc] = native[sc]]
  BY <1>1 DEF EndResizeBuffers, ResizeSwapChainImages, ChainOK
<1>3. TypeOK'
  BY <1>2 DEF EndResizeBuffers, SInv, TypeOK
<1>4. ChainOK(sc)'
  BY <1>1, <1>2 DEF EndResizeBuffers, ChainOK, SInv, TypeOK
<1>5. \A s \in SwapChains \ {sc} : ChainOK(s)'
  BY <1>2, ChainOKSplit, ChainFrame DEF EndResizeBuffers, SInv, TypeOK
<1>. QED
  BY <1>3, <1>4, <1>5, ChainOKSplitPrime

LEMMA ReleaseSwapChainInv ==
  ASSUME SInv, NEW sc \in SwapChains, ReleaseSwapChain(sc)
  PROVE  SInv'
<1>1. images' = [images EXCEPT ![sc] = 0]
  BY DEF ReleaseSwapChain, Destroy_IDXGISwapChain, ReleaseSwapChainImages
<1>2. TypeOK'
  BY <1>1, SwapChainBoundsAssumption DEF ReleaseSwapChain, SInv, TypeOK
<1>3. ChainOK(sc)'
  BY <1>1 DEF ReleaseSwapChain, ChainOK, SInv, TypeOK
<1>4. \A s \in SwapChains \ {sc} : ChainOK(s)'
  BY <1>1, ChainOKSplit, ChainFrame DEF ReleaseSwapChain, SInv, TypeOK
<1>. QED
  BY <1>2, <1>3, <1>4, ChainOKSplitPrime

-----------------------------------------------------------------------------
(* For every number of swapchains, queues and buffers: outside a           *)
(* ResizeBuffers call the capture layer holds exactly the buffers DXGI     *)
(* gives the swapchain, through failed resizes, resizes with a buffer      *)
(* count of 0 and release.                                                 *)
THEOREM SwapChainInvariant == Spec => []SInv
<1>1. Init => SInv
  <2> SUFFICES ASSUME Init PROVE SInv
    OBVIOUS
  <2>1. TypeOK
    BY SwapChainBoundsAssumption, QueuesAssumption DEF Init, TypeOK, QueueTypes
  <2>. QED
    BY <2>1 DEF Init, SInv, ResizeInProgress, BuffersMatchSwapChain
<1>2. SInv /\ [Next]_vars => SInv'
  <2> SUFFICES ASSUME SInv, [Next]_vars PROVE SInv'
    OBVIOUS
  <2>1. CASE \E q \in Queues : CreateCommandQueue(q) \/ ReleaseQueue(q)
    BY <2>1, QueueStepInv
  <2>2. CASE \E sc \in SwapChains : CreateSwapChain(sc) \/ SetBufferReferences(sc)
    BY <2>2, CreateSwapChainInv, SetBufferReferencesInv
  <2>3. CASE \E sc \in SwapChains : ResizeBuffers(sc) \/ EndResizeBuffers(sc)
    BY <2>3, ResizeBuffersInv, EndResizeBuffersInv
  <2>4. CASE \E sc \in SwapChains : ReleaseSwapChain(sc)
    BY <2>4, ReleaseSwapChainInv
  <2>5. CASE UNCHANGED vars
    BY <2>5 DEF vars, SInv, TypeOK, ResizeInProgress, BuffersMatchSwapChain
  <2>. QED
    BY <2>1, <2>2, <2>3, <2>4, <2>5 DEF Next
<1>. QED
  BY <1>1, <1>2, PTL DEF Spec

(* The captured buffer list matches the swapchain (BuffersMatchSwapChain). *)
THEOREM BuffersMatch == Spec => []BuffersMatchSwapChain
BY SwapChainInvariant, PTL DEF SInv

=============================================================================
