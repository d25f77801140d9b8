------------------------------ MODULE SwapChain ------------------------------
(***************************************************************************)
(* The swapchain and queue hooks of src/framework/encode/                  *)
(* d3d12_capture_manager.h: the CreateSwapChain* post-processes, which     *)
(* call PreAcquireSwapChainImages; ResizeBuffers, whose pre-process calls  *)
(* ReleaseSwapChainImages and whose post-process calls                     *)
(* ResizeSwapChainImages with the native result and buffer_count;          *)
(* Destroy_IDXGISwapChain; and the CreateCommandQueue post-process, which  *)
(* adds a direct queue to direct_queues_.  The bodies are not under src/;  *)
(* they follow spec 3 and spec 4.4.                                        *)
(*                                                                         *)
(* A swapchain's buffer array in its SwapchainInfo and the registry        *)
(* entries of its buffers are acquired and released together, so they are *)
(* one number: how many buffer wrappers the capture layer holds.  DXGI is  *)
(* the environment: ResizeBuffers fails with DXGI_ERROR_INVALID_CALL while *)
(* anyone holds a reference to a back buffer, may fail for other reasons,  *)
(* and a buffer_count of 0 keeps the current number of buffers.  A         *)
(* swapchain holds a reference to its queue.  D3D12 swapchains use a flip  *)
(* swap effect, so every buffer can be acquired.                           *)
(***************************************************************************)
EXTENDS Naturals, Sequences

CONSTANTS
  SwapChains,   \* swapchain wrapper addresses, reused after release
  Queues,       \* command queue wrapper addresses, reused after release
  NoResize,     \* no ResizeBuffers in progress
  MaxBuffers,   \* largest buffer count used
  MaxQueues     \* bound on the number of queues created

ASSUME SwapChainBoundsAssumption == MaxBuffers \in Nat \ {0} /\ MaxQueues \in Nat

(* There is a queue address for the swapchains' initial queue field. *)
ASSUME QueuesAssumption == Queues # {}

QueueTypes == {"DIRECT", "COPY"}
Results == {"S_OK", "DXGI_ERROR_INVALID_CALL", "E_OUTOFMEMORY"}
SUCCEEDED(r) == r = "S_OK"

(* A ResizeBuffers between its native call and its post-process. *)
Resize == [result : Results, bufferCount : 0..MaxBuffers]

ASSUME NoResizeAssumption == NoResize \notin Resize

VARIABLES
  liveQueues,    \* command queues that exist
  queueType,     \* the type each queue was created with
  directQueues,  \* direct_queues_
  chains,        \* swapchains that exist
  chainQueue,    \* the queue each swapchain presents on
  native,        \* DXGI's buffer count of each swapchain
  images,        \* buffer wrappers the capture layer holds and has registered
  appRefs,       \* the application holds references to back buffers
  resizing,      \* a ResizeBuffers whose post-process has not run
  queuesMade     \* number of queues created

vars == <<liveQueues, queueType, directQueues, chains, chainQueue, native, images,
          appRefs, resizing, queuesMade>>

-----------------------------------------------------------------------------
(* PostProcess_ID3D12Device_CreateCommandQueue: a direct queue is          *)
(* remembered in direct_queues_.                                           *)
PostProcess_ID3D12Device_CreateCommandQueue(q, result, type) ==
  directQueues' = IF SUCCEEDED(result) /\ type = "DIRECT"
                    THEN Append(directQueues, q)
                    ELSE directQueues

(* PreAcquireSwapChainImages: acquire and register every buffer of the    *)
(* swapchain (each with InitializeSwapChainBufferResourceInfo) and record  *)
(* its queue.                                                              *)
PreAcquireSwapChainImages(sc, queue, imageCount) ==
  /\ images' = [images EXCEPT ![sc] = imageCount]
  /\ chainQueue' = [chainQueue EXCEPT ![sc] = queue]

(* ReleaseSwapChainImages: deregister and release every buffer wrapper. *)
ReleaseSwapChainImages(sc) == images' = [images EXCEPT ![sc] = 0]

(* Mutant: buffer_count passed to DXGI is taken as the new buffer count,   *)
(* also when it is 0, which asks DXGI to keep the current count.          *)
ResizeSwapChainImagesZeroCount(sc, result, bufferCount) ==
  images' = [images EXCEPT ![sc] = IF SUCCEEDED(result) THEN bufferCount ELSE native[sc]]

(* ResizeSwapChainImages: re-acquire the buffers the swapchain has after   *)
(* ResizeBuffers: the new count on success (the old one for a count of 0), *)
(* the old buffers when the resize failed.                                 *)
ResizeSwapChainImages(sc, result, bufferCount) ==
  images' = [images EXCEPT ![sc] =
               IF SUCCEEDED(result) /\ bufferCount # 0 THEN bufferCount ELSE native[sc]]

(* Mutant: Destroy_IDXGISwapChain leaves the buffers registered. *)
DestroySwapChainKeepsImages(sc) == UNCHANGED images

(* Destroy_IDXGISwapChain: the buffers are deregistered and released. *)
Destroy_IDXGISwapChain(sc) == ReleaseSwapChainImages(sc)

(* PreProcess_IDXGISwapChain_ResizeBuffers: drop the capture layer's      *)
(* buffer references before the native call (spec 4.4).                   *)
PreProcess_IDXGISwapChain_ResizeBuffers(sc) == ReleaseSwapChainImages(sc)

(* DXGI's ResizeBuffers, run after the pre-process: it fails while any    *)
(* back-buffer reference remains, and may fail for other reasons.         *)
NativeResizeResult(sc, fails) ==
  IF appRefs[sc] \/ images'[sc] > 0 THEN "DXGI_ERROR_INVALID_CALL"
  ELSE IF fails THEN "E_OUTOFMEMORY" ELSE "S_OK"

-----------------------------------------------------------------------------
Init ==
  /\ liveQueues = {}
  /\ queueType = [q \in Queues |-> "DIRECT"]
  /\ directQueues = <<>>
  /\ chains = {}
  /\ chainQueue = [sc \in SwapChains |-> CHOOSE q \in Queues : TRUE]
  /\ native = [sc \in SwapChains |-> 0]
  /\ images = [sc \in SwapChains |-> 0]
  /\ appRefs = [sc \in SwapChains |-> FALSE]
  /\ resizing = [sc \in SwapChains |-> NoResize]
  /\ queuesMade = 0

(* The application creates a command queue at a free address. *)
CreateCommandQueue(q) ==
  /\ q \notin liveQueues
  /\ queuesMade < MaxQueues
  /\ \E type \in QueueTypes :
       /\ liveQueues' = liveQueues \cup {q}
       /\ queueType' = [queueType EXCEPT ![q] = type]
       /\ PostProcess_ID3D12Device_CreateCommandQueue(q, "S_OK", type)
  /\ queuesMade' = queuesMade + 1
  /\ UNCHANGED <<chains, chainQueue, native, images, appRefs, resizing>>

(* The application releases a queue no swapchain holds.  The header       *)
(* declares no hook for the destruction of a queue.                       *)
ReleaseQueue(q) ==
  /\ q \in liveQueues
  /\ \A sc \in chains : chainQueue[sc] # q
  /\ liveQueues' = liveQueues \ {q}
  /\ UNCHANGED <<queueType, directQueues, chains, chainQueue, native, images, appRefs,
                 resizing, queuesMade>>

(* The application creates a swapchain on a direct queue; the             *)
(* CreateSwapChain* post-process acquires its buffers.                    *)
CreateSwapChain(sc) ==
  /\ sc \notin chains
  /\ \E q \in liveQueues, n \in 1..MaxBuffers :
       /\ queueType[q] = "DIRECT"
       /\ chains' = chains \cup {sc}
       /\ native' = [native EXCEPT ![sc] = n]
       /\ PreAcquireSwapChainImages(sc, q, n)
  /\ UNCHANGED <<liveQueues, queueType, directQueues, appRefs, resizing, queuesMade>>

(* The application takes (GetBuffer) or drops its back-buffer references. *)
SetBufferReferences(sc) ==
  /\ sc \in chains
  /\ resizing[sc] = NoResize
  /\ appRefs' = [appRefs EXCEPT ![sc] = ~@]
  /\ UNCHANGED <<liveQueues, queueType, directQueues, chains, chainQueue, native, images,
                 resizing, queuesMade>>

(* The application calls ResizeBuffers: the pre-process, then DXGI's      *)
(* resize, which keeps the count for a buffer_count of 0.                 *)
ResizeBuffers(sc) ==
  /\ sc \in chains
  /\ resizing[sc] = NoResize
  /\ PreProcess_IDXGISwapChain_ResizeBuffers(sc)
  /\ \E bufferCount \in 0..MaxBuffers, fails \in BOOLEAN :
       LET result == NativeResizeResult(sc, fails) IN
       /\ native' = [native EXCEPT ![sc] =
                       IF SUCCEEDED(result) /\ bufferCount # 0 THEN bufferCount ELSE @]
       /\ resizing' = [resizing EXCEPT ![sc] = [result |-> result, bufferCount |-> bufferCount]]
  /\ UNCHANGED <<liveQueues, queueType, directQueues, chains, chainQueue, appRefs, queuesMade>>

(* PostProcess_IDXGISwapChain_ResizeBuffers: ResizeSwapChainImages with   *)
(* the native result; the result is returned to the application.          *)
EndResizeBuffers(sc) ==
  /\ resizing[sc] # NoResize
  /\ ResizeSwapChainImages(sc, resizing[sc].result, resizing[sc].bufferCount)
  /\ resizing' = [resizing EXCEPT ![sc] = NoResize]
  /\ UNCHANGED <<liveQueues, queueType, directQueues, chains, chainQueue, native, appRefs,
                 queuesMade>>

(* The application releases a swapchain. *)
ReleaseSwapChain(sc) ==
  /\ sc \in chains
  /\ resizing[sc] = NoResize
  /\ Destroy_IDXGISwapChain(sc)
  /\ chains' = chains \ {sc}
  /\ native' = [native EXCEPT ![sc] = 0]
  /\ appRefs' = [appRefs EXCEPT ![sc] = FALSE]
  /\ UNCHANGED <<liveQueues, queueType, directQueues, chainQueue, resizing, queuesMade>>

Next ==
  \/ \E q \in Queues : CreateCommandQueue(q) \/ ReleaseQueue(q)
  \/ \E sc \in SwapChains :
       \/ CreateSwapChain(sc) \/ SetBufferReferences(sc) \/ ResizeBuffers(sc)
       \/ EndResizeBuffers(sc) \/ ReleaseSwapChain(sc)

Spec == Init /\ [][Next]_vars

-----------------------------------------------------------------------------
TypeOK ==
  /\ liveQueues \subseteq Queues
  /\ queueType \in [Queues -> QueueTypes]
  /\ directQueues \in Seq(Queues)
  /\ chains \subseteq SwapChains
  /\ chainQueue \in [SwapChains -> Queues]
  /\ native \in [SwapChains -> 0..MaxBuffers]
  /\ images \in [SwapChains -> 0..MaxBuffers]
  /\ appRefs \in [SwapChains -> BOOLEAN]
  /\ resizing \in [SwapChains -> Resize \cup {NoResize}]
  /\ queuesMade \in 0..MaxQueues

(* Outside a ResizeBuffers call, the capture layer holds and has          *)
(* registered exactly the buffers the swapchain has (spec 3: the buffer    *)
(* array length equals the buffer count after any completed resize),      *)
(* through failed resizes, resizes that keep the count, and release.      *)
BuffersMatchSwapChain ==
  \A sc \in SwapChains : resizing[sc] = NoResize =>
    images[sc] = IF sc \in chains THEN native[sc] ELSE 0

(* direct_queues_ holds only queues that exist (spec 3: the QueueRegistry  *)
(* is the set of the direct queues), so no released queue's wrapper is     *)
(* reached through it.                                                     *)
DirectQueuesLive == \A i \in 1..Len(directQueues) : directQueues[i] \in liveQueues

=============================================================================
