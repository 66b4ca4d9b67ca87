----------------------------- MODULE FollowupQueueMC ----------------------------
(* Messages of two routes for TLC; those of the first are interchangeable.   *)
EXTENDS FollowupQueue, TLC

CONSTANTS m1, m2, m3, m4, here, there

RouteOfMessage == [m \in Messages |-> IF m = m4 THEN there ELSE here]

MessageSymmetry == Permutations(Messages \ {m4})
=============================================================================
