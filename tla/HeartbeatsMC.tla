------------------------------ MODULE HeartbeatsMC ------------------------------
(* Heartbeats needs no definitions of its own for TLC: agents and the target *)
(* of all of them are model values, the bounds come from the .cfg.           *)
EXTENDS Heartbeats
=============================================================================
