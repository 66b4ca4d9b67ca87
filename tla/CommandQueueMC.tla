----------------------------- MODULE CommandQueueMC -----------------------------
(* Instances of CommandQueue for TLC: one lane that tasks share, one session *)
(* lane whose task may enqueue into the shared lane from its prefix.         *)
EXTENDS CommandQueue

CONSTANTS main, session, t1, t2, t3, t4

LaneOfTask == [t \in Tasks |-> IF t = t4 THEN session ELSE main]

\* The tasks of the shared lane are interchangeable.
TaskSymmetry == Permutations({t1, t2, t3} \cap Tasks)
=============================================================================
