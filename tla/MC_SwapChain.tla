---------------------------- MODULE MC_SwapChain ----------------------------
(* Small instance of SwapChain for TLC: two swapchains, two queues.        *)
EXTENDS SwapChain

CONSTANTS s1, s2, q1, q2

MCSwapChains == {s1, s2}
MCQueues == {q1, q2}
=============================================================================
