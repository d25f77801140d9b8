------------------------ MODULE MC_ResourceLifecycle ------------------------
(* Small instance of ResourceLifecycle for TLC: two resource addresses.    *)
EXTENDS ResourceLifecycle

CONSTANTS r1, r2

MCResources == {r1, r2}
=============================================================================
