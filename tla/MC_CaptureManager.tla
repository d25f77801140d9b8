------------------------- MODULE MC_CaptureManager -------------------------
(* Small instance of CaptureManager for TLC: two threads, two wrapper      *)
(* addresses (so that an address is reused), nesting depth 2.              *)
EXTENDS CaptureManager

CONSTANTS t1, t2, w1, w2

MCThreads == {t1, t2}
MCHandles == {w1, w2}
=============================================================================
