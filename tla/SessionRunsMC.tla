------------------------------ MODULE SessionRunsMC -----------------------------
(* Two runs of one session, and a cron run of another, for TLC.              *)
EXTENDS SessionRuns

CONSTANTS A, C, a1, a2, c1

SessionOfRun == [r \in Runs |-> IF r = c1 THEN C ELSE A]
LaneOfRun == [r \in Runs |-> IF r = c1 THEN "cron" ELSE "main"]
=============================================================================
