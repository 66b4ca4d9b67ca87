---------------------------- MODULE GatewayRunLoopMC ----------------------------
(* Two requests for a restart, interchangeable, for TLC.                     *)
EXTENDS GatewayRunLoop, TLC

RequestSymmetry == Permutations(Requests)
=============================================================================
