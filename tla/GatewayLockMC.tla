--------------------------- MODULE GatewayLockMC ---------------------------
(* Small instances of GatewayLock: three starts, a foreign listener.        *)
EXTENDS GatewayLock

ThreeStarts == 1 .. 3
=============================================================================
