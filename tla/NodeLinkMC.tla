----------------------------- MODULE NodeLinkMC -----------------------------
(* Small instances of NodeLink: one node, two connections, two calls of one *)
(* key (a caller that tries again) or of two keys.                          *)
EXTENDS NodeLink

CONSTANTS n1, k1, k2

OneNode == [r \in Reqs |-> n1]
SameKey == [r \in Reqs |-> k1]
TwoKeys == [r \in Reqs |-> IF r = 2 THEN k2 ELSE k1]
TwoConns == 1 .. 2
TwoReqs == 1 .. 2
=============================================================================
