------------------------------ MODULE LaneContract ------------------------------
(***************************************************************************)
(* What process/command-queue.ts promises its callers, without saying how. *)
(*                                                                         *)
(* A lane is a FIFO queue with a number of slots.  A submitted task is     *)
(* refused, cleared while it waits, or started once, in submission order,  *)
(* when its lane has a free slot; a started task is settled once.  A       *)
(* restart takes every slot back at once, although the bodies of the       *)
(* tasks that held them may still be executing.                            *)
(*                                                                         *)
(* CommandQueue implements this module: there `slots` is activeTaskIds,    *)
(* `cap` is maxConcurrent and `open` is the negation of gatewayDraining.   *)
(***************************************************************************)
EXTENDS Integers, Sequences, FiniteSets, SequencesExt

CONSTANTS
  Lanes,     \* lane names
  Tasks,     \* tasks the callers may submit
  LaneOf,    \* LaneOf[t]: the lane task t is submitted to
  Requested  \* the caps a configuration may request

VARIABLES
  waiting,   \* waiting[l]: submitted tasks of l that have not started
  slots,     \* slots[l]: the started tasks that occupy a slot of l
  cap,       \* cap[l]: number of slots of l
  open,      \* whether submissions are accepted
  status     \* status[t]: what the submitter of t can observe

vars == <<waiting, slots, cap, open, status>>

Init ==
  /\ waiting = [l \in Lanes |-> <<>>]
  /\ slots = [l \in Lanes |-> {}]
  /\ cap = [l \in Lanes |-> 1]
  /\ open = TRUE
  /\ status = [t \in Tasks |-> "new"]

Submit(t) ==
  /\ status[t] = "new"
  /\ open
  /\ waiting' = [waiting EXCEPT ![LaneOf[t]] = Append(@, t)]
  /\ status' = [status EXCEPT ![t] = "queued"]
  /\ UNCHANGED <<slots, cap, open>>

Refuse(t) ==
  /\ status[t] = "new"
  /\ ~open
  /\ status' = [status EXCEPT ![t] = "refused"]
  /\ UNCHANGED <<waiting, slots, cap, open>>

Start(l) ==
  /\ waiting[l] # <<>>
  /\ Cardinality(slots[l]) < cap[l]
  /\ waiting' = [waiting EXCEPT ![l] = Tail(@)]
  /\ slots' = [slots EXCEPT ![l] = @ \cup {Head(waiting[l])}]
  /\ status' = [status EXCEPT ![Head(waiting[l])] = "running"]
  /\ UNCHANGED <<cap, open>>

\* The body of t is over: its slot is free, its promise not yet settled.
Release(t) ==
  /\ t \in slots[LaneOf[t]]
  /\ slots' = [slots EXCEPT ![LaneOf[t]] = @ \ {t}]
  /\ UNCHANGED <<waiting, cap, open, status>>

\* A promise is settled only after the slot is free, or was taken back.
Settle(t) ==
  /\ status[t] = "running"
  /\ t \notin slots[LaneOf[t]]
  /\ \E outcome \in {"resolved", "rejected"} :
       status' = [status EXCEPT ![t] = outcome]
  /\ UNCHANGED <<waiting, slots, cap, open>>

Clear(l) ==
  /\ waiting' = [waiting EXCEPT ![l] = <<>>]
  /\ status' = [t \in Tasks |->
                  IF t \in ToSet(waiting[l]) THEN "cleared" ELSE status[t]]
  /\ UNCHANGED <<slots, cap, open>>

Resize(l) ==
  /\ \E n \in Requested : cap' = [cap EXCEPT ![l] = IF n < 1 THEN 1 ELSE n]
  /\ UNCHANGED <<waiting, slots, open, status>>

Close ==
  /\ open' = FALSE
  /\ UNCHANGED <<waiting, slots, cap, status>>

Restart ==
  /\ open' = TRUE
  /\ slots' = [l \in Lanes |-> {}]
  /\ UNCHANGED <<waiting, cap, status>>

Next ==
  \/ \E t \in Tasks : Submit(t) \/ Refuse(t) \/ Release(t) \/ Settle(t)
  \/ \E l \in Lanes : Start(l) \/ Clear(l) \/ Resize(l)
  \/ Close
  \/ Restart

Spec == Init /\ [][Next]_vars
=============================================================================
