------------------------------ MODULE CommandQueue ------------------------------
(***************************************************************************)
(* The lane-aware command queue, process/command-queue.ts.                 *)
(*                                                                         *)
(* Everything runs on one JavaScript thread.  A step of this module is the *)
(* code between two points where another function of the queue can be      *)
(* entered, so the call stack is a variable: the pump of a lane calls the  *)
(* synchronous prefix of a task, which may enqueue another task, which may *)
(* enter the pump of another lane or of the same one, or may throw, which  *)
(* completes the task and pumps again inside the pump that called it.      *)
(* With an empty stack the event loop picks any ready callback.            *)
(*                                                                         *)
(* Abstracted: a task id is the task itself (ids are never reused); every  *)
(* lane exists from the start with the defaults getLaneState gives it (a   *)
(* lane that does not exist has nothing to clear, reset or count); onWait  *)
(* and the diagnostics, whose exceptions the pump swallows.                *)
(***************************************************************************)
EXTENDS Integers, Sequences, FiniteSets, SequencesExt

CONSTANTS
  Lanes,         \* lane names
  Tasks,         \* the tasks callers may enqueue, each at most once
  LaneOf,        \* LaneOf[t]: the lane t is enqueued in
  Requested,     \* values a configuration may pass as maxConcurrent
  MaxGeneration  \* bound: number of resetAllLanes() calls explored

ASSUME LaneOfAssumption == LaneOf \in [Tasks -> Lanes]
ASSUME RequestedAssumption == Requested \subseteq Int
ASSUME MaxGenerationAssumption == MaxGeneration \in Nat

VARIABLES
  queue,           \* queue[l]: entries of l that have not started
  activeTaskIds,   \* activeTaskIds[l]: tasks that occupy a slot of l
  maxConcurrent,   \* maxConcurrent[l]: number of slots of l
  draining,        \* draining[l]: drainLane(l) has a pump on the stack
  generation,      \* generation[l]: number of resets l has seen
  gatewayDraining, \* enqueues are refused: the gateway is about to restart
  taskGeneration,  \* taskGeneration[t]: generation of its lane when t started
  status,          \* status[t]: what the caller that enqueued t can observe
  stack,           \* the JavaScript call stack, outermost frame first
  lanesToDrain,    \* lanes resetAllLanes() has still to drain
  activeAtStart,   \* the tasks a waitForActiveTasks() call waits for
  waitResult       \* "none", "waiting", "drained" or "timeout"

laneVars == <<queue, activeTaskIds, maxConcurrent, generation, taskGeneration>>
waitVars == <<activeAtStart, waitResult>>
vars == <<laneVars, draining, gatewayDraining, status, stack, lanesToDrain,
          waitVars>>

Statuses ==
  {"new", "queued", "running", "resolved", "rejected", "cleared", "refused"}

\* A frame is a pump, the synchronous prefix of a task, or the settlement of
\* its promise that waits for the pump above it to return.
Frames == ({"pump"} \X Lanes) \cup ({"task", "resolved", "rejected"} \X Tasks)

TypeOK ==
  /\ queue \in [Lanes -> Seq(Tasks)]
  /\ activeTaskIds \in [Lanes -> SUBSET Tasks]
  /\ maxConcurrent \in [Lanes -> Nat \ {0}]
  /\ draining \in [Lanes -> BOOLEAN]
  /\ generation \in [Lanes -> Nat]
  /\ gatewayDraining \in BOOLEAN
  /\ taskGeneration \in [Tasks -> Nat]
  /\ status \in [Tasks -> Statuses]
  /\ stack \in Seq(Frames)
  /\ lanesToDrain \in SUBSET Lanes
  /\ activeAtStart \in SUBSET Tasks
  /\ waitResult \in {"none", "waiting", "drained", "timeout"}

Init ==
  /\ queue = [l \in Lanes |-> <<>>]
  /\ activeTaskIds = [l \in Lanes |-> {}]
  /\ maxConcurrent = [l \in Lanes |-> 1]
  /\ draining = [l \in Lanes |-> FALSE]
  /\ generation = [l \in Lanes |-> 0]
  /\ gatewayDraining = FALSE
  /\ taskGeneration = [t \in Tasks |-> 0]
  /\ status = [t \in Tasks |-> "new"]
  /\ stack = <<>>
  /\ lanesToDrain = {}
  /\ activeAtStart = {}
  /\ waitResult = "none"

-----------------------------------------------------------------------------
\* No queue function is executing: the event loop may run any callback.
Idle == stack = <<>> /\ lanesToDrain = {}

\* The frame that executes is of this kind, for this lane or task.
Executing(kind, x) == stack # <<>> /\ Last(stack) = <<kind, x>>

\* (mistake) CanStart with an off-by-one against the cap.
CanStartOverCap(l) ==
  Cardinality(activeTaskIds[l]) <= maxConcurrent[l] /\ queue[l] # <<>>

CanStart(l) ==
  Cardinality(activeTaskIds[l]) < maxConcurrent[l] /\ queue[l] # <<>>

\* drainLane(l): enter the pump of l unless one is already draining it.
DrainLane(l) ==
  \/ /\ draining[l]
     /\ UNCHANGED <<draining, stack>>
  \/ /\ ~draining[l]
     /\ draining' = [draining EXCEPT ![l] = TRUE]
     /\ stack' = Append(stack, <<"pump", l>>)

\* completeTask, then the pump, then the settlement of the promise of t;
\* `below` is the stack under the frames that remain to be executed.  A task
\* that a reset has orphaned frees no slot and pumps nothing.
CompleteTask(t, outcome, below) ==
  LET l == LaneOf[t] IN
  \/ /\ taskGeneration[t] = generation[l]
     /\ activeTaskIds' = [activeTaskIds EXCEPT ![l] = @ \ {t}]
     /\ stack' = Append(Append(below, <<outcome, t>>), <<"pump", l>>)
  \/ /\ taskGeneration[t] # generation[l]
     /\ stack' = Append(below, <<outcome, t>>)
     /\ UNCHANGED activeTaskIds

-----------------------------------------------------------------------------
(* Mistakes the properties below must catch: each stands for one definition. *)

\* PumpReturn without the finally clause.
PumpReturnKeepsFlag(l) ==
  /\ Executing("pump", l)
  /\ ~CanStart(l)
  /\ stack' = Front(stack)
  /\ UNCHANGED <<laneVars, draining, gatewayDraining, status, lanesToDrain,
                 waitVars>>

\* TaskThrows whose catch clause forgets to give the slot back.
TaskThrowsKeepsSlot(t) ==
  /\ Executing("task", t)
  /\ stack' = Append(Front(stack), <<"rejected", t>>)
  /\ UNCHANGED <<laneVars, draining, gatewayDraining, status, lanesToDrain,
                 waitVars>>

\* SetConcurrency without the lower bound of one slot.
SetConcurrencyUnclamped(l) ==
  /\ Idle
  /\ \E n \in Requested : maxConcurrent' = [maxConcurrent EXCEPT ![l] = n]
  /\ DrainLane(l)
  /\ UNCHANGED <<queue, activeTaskIds, generation, gatewayDraining,
                 taskGeneration, status, lanesToDrain, waitVars>>

\* ResetAllLanes that waits for a later enqueue to pump the preserved entries.
ResetWithoutDrain ==
  /\ Idle
  /\ waitResult # "waiting"
  /\ \A l \in Lanes : generation[l] < MaxGeneration
  /\ generation' = [l \in Lanes |-> generation[l] + 1]
  /\ activeTaskIds' = [l \in Lanes |-> {}]
  /\ draining' = [l \in Lanes |-> FALSE]
  /\ gatewayDraining' = FALSE
  /\ UNCHANGED <<queue, maxConcurrent, taskGeneration, status, stack,
                 lanesToDrain, waitVars>>

\* HasPending that requires a pending task in each lane.
HasPendingEverywhere == \A l \in Lanes : activeTaskIds[l] \cap activeAtStart # {}

-----------------------------------------------------------------------------
\* enqueueCommandInLane, called by an event or by the prefix of a task.
Enqueue(t) ==
  /\ Idle \/ \E u \in Tasks : Executing("task", u)
  /\ status[t] = "new"
  /\ \/ /\ gatewayDraining
        /\ status' = [status EXCEPT ![t] = "refused"]
        /\ UNCHANGED <<queue, draining, stack>>
     \/ /\ ~gatewayDraining
        /\ queue' = [queue EXCEPT ![LaneOf[t]] = Append(@, t)]
        /\ status' = [status EXCEPT ![t] = "queued"]
        /\ DrainLane(LaneOf[t])
  /\ UNCHANGED <<activeTaskIds, maxConcurrent, generation, gatewayDraining,
                 taskGeneration, lanesToDrain, waitVars>>

\* One iteration of the pump: the first entry takes a slot and is called.
PumpStart(l) ==
  /\ Executing("pump", l)
  /\ CanStart(l)
  /\ LET t == Head(queue[l]) IN
       /\ queue' = [queue EXCEPT ![l] = Tail(@)]
       /\ activeTaskIds' = [activeTaskIds EXCEPT ![l] = @ \cup {t}]
       /\ taskGeneration' = [taskGeneration EXCEPT ![t] = generation[l]]
       /\ status' = [status EXCEPT ![t] = "running"]
       /\ stack' = Append(stack, <<"task", t>>)
  /\ UNCHANGED <<maxConcurrent, draining, generation, gatewayDraining,
                 lanesToDrain, waitVars>>

\* The loop of the pump is over: its finally clause lowers the flag.
PumpReturn(l) ==
  /\ Executing("pump", l)
  /\ ~CanStart(l)
  /\ draining' = [draining EXCEPT ![l] = FALSE]
  /\ stack' = Front(stack)
  /\ UNCHANGED <<laneVars, gatewayDraining, status, lanesToDrain, waitVars>>

\* The prefix of t ends at its first await; its promise is pending.
TaskAwaits(t) ==
  /\ Executing("task", t)
  /\ stack' = Front(stack)
  /\ UNCHANGED <<laneVars, draining, gatewayDraining, status, lanesToDrain,
                 waitVars>>

\* The prefix of t throws: the catch clause runs inside the pump.
TaskThrows(t) ==
  /\ Executing("task", t)
  /\ CompleteTask(t, "rejected", Front(stack))
  /\ UNCHANGED <<queue, maxConcurrent, draining, generation, gatewayDraining,
                 taskGeneration, status, lanesToDrain, waitVars>>

\* The promise of t settles while nothing executes.
TaskFinishes(t) ==
  /\ Idle
  /\ status[t] = "running"
  /\ \E outcome \in {"resolved", "rejected"} : CompleteTask(t, outcome, stack)
  /\ UNCHANGED <<queue, maxConcurrent, draining, generation, gatewayDraining,
                 taskGeneration, status, lanesToDrain, waitVars>>

\* entry.resolve or entry.reject, after the pump has returned.
Settle(t) ==
  /\ \E outcome \in {"resolved", "rejected"} :
       /\ Executing(outcome, t)
       /\ status' = [status EXCEPT ![t] = outcome]
  /\ stack' = Front(stack)
  /\ UNCHANGED <<laneVars, draining, gatewayDraining, lanesToDrain, waitVars>>

-----------------------------------------------------------------------------
\* setCommandLaneConcurrency: a raised cap is used at once.
SetConcurrency(l) ==
  /\ Idle
  /\ \E n \in Requested :
       maxConcurrent' = [maxConcurrent EXCEPT ![l] = IF n < 1 THEN 1 ELSE n]
  /\ DrainLane(l)
  /\ UNCHANGED <<queue, activeTaskIds, generation, gatewayDraining,
                 taskGeneration, status, lanesToDrain, waitVars>>

\* clearCommandLane: every entry that waits is rejected.
ClearLane(l) ==
  /\ Idle
  /\ queue[l] # <<>>
  /\ queue' = [queue EXCEPT ![l] = <<>>]
  /\ status' = [t \in Tasks |->
                  IF t \in ToSet(queue[l]) THEN "cleared" ELSE status[t]]
  /\ UNCHANGED <<activeTaskIds, maxConcurrent, draining, generation,
                 gatewayDraining, taskGeneration, stack, lanesToDrain, waitVars>>

\* markGatewayDraining
MarkDraining ==
  /\ Idle
  /\ gatewayDraining' = TRUE
  /\ UNCHANGED <<laneVars, draining, status, stack, lanesToDrain, waitVars>>

\* resetAllLanes, up to the loop that drains.  The run loop calls it when no
\* waitForActiveTasks() is polling: it awaits the drain before it restarts.
ResetAllLanes ==
  /\ Idle
  /\ waitResult # "waiting"
  /\ \A l \in Lanes : generation[l] < MaxGeneration
  /\ generation' = [l \in Lanes |-> generation[l] + 1]
  /\ activeTaskIds' = [l \in Lanes |-> {}]
  /\ draining' = [l \in Lanes |-> FALSE]
  /\ gatewayDraining' = FALSE
  /\ lanesToDrain' = {l \in Lanes : queue[l] # <<>>}
  /\ UNCHANGED <<queue, maxConcurrent, taskGeneration, status, stack, waitVars>>

\* One iteration of the loop at the end of resetAllLanes.
DrainAfterReset(l) ==
  /\ stack = <<>>
  /\ l \in lanesToDrain
  /\ lanesToDrain' = lanesToDrain \ {l}
  /\ DrainLane(l)
  /\ UNCHANGED <<laneVars, gatewayDraining, status, waitVars>>

-----------------------------------------------------------------------------
\* waitForActiveTasks: snapshot of the tasks that execute; its first check.
WaitForActiveTasks ==
  /\ Idle
  /\ waitResult # "waiting"
  /\ activeAtStart' = UNION {activeTaskIds[l] : l \in Lanes}
  /\ waitResult' = IF activeAtStart' = {} THEN "drained" ELSE "waiting"
  /\ UNCHANGED <<laneVars, draining, gatewayDraining, status, stack,
                 lanesToDrain>>

HasPending == \E l \in Lanes : activeTaskIds[l] \cap activeAtStart # {}

\* A poll of the timer, before or after the deadline.
WaitCheck ==
  /\ Idle
  /\ waitResult = "waiting"
  /\ waitResult' = IF HasPending THEN "timeout" ELSE "drained"
  /\ UNCHANGED <<laneVars, draining, gatewayDraining, status, stack,
                 lanesToDrain, activeAtStart>>

Next ==
  \/ \E t \in Tasks : \/ Enqueue(t) \/ TaskAwaits(t) \/ TaskThrows(t)
                      \/ TaskFinishes(t) \/ Settle(t)
  \/ \E l \in Lanes : \/ PumpStart(l) \/ PumpReturn(l) \/ SetConcurrency(l)
                      \/ ClearLane(l) \/ DrainAfterReset(l)
  \/ MarkDraining
  \/ ResetAllLanes
  \/ WaitForActiveTasks
  \/ WaitCheck

Spec == Init /\ [][Next]_vars

\* The thread executes its stack to the end; every task body ends, and the
\* event loop, which serves ready callbacks in turn, does settle its promise
\* although other callbacks run in between (hence strong fairness).
Fairness ==
  /\ \A l \in Lanes : /\ WF_vars(PumpStart(l))
                      /\ WF_vars(PumpReturn(l))
                      /\ WF_vars(DrainAfterReset(l))
  /\ \A t \in Tasks : /\ WF_vars(TaskAwaits(t) \/ TaskThrows(t))
                      /\ WF_vars(Settle(t))
                      /\ SF_vars(TaskFinishes(t))

FairSpec == Spec /\ Fairness

-----------------------------------------------------------------------------
\* The pump of l is somewhere on the stack.
Pumping(l) == \E i \in DOMAIN stack : stack[i] = <<"pump", l>>

\* The promise of t is about to be settled by a frame of the stack.
Settling(t) == \E i \in DOMAIN stack :
                 stack[i] \in {<<"resolved", t>>, <<"rejected", t>>}

\* The flag that turns drainLane away is raised only while a pump of that
\* lane will still look at the queue: "drainLane blocked" is never reached.
NoWedgedLane == \A l \in Lanes : draining[l] => Pumping(l)

\* Work that could start is about to be looked at by a pump.
WorkIsPumped == \A l \in Lanes :
                  CanStart(l) => Pumping(l) \/ l \in lanesToDrain

\* Whenever control is back in the event loop, no lane has both a free slot
\* and an entry waiting, whatever was thrown, nested, resized or reset.
WorkConserving == Idle => \A l \in Lanes : ~CanStart(l)

\* No slot is lost and none is held by a ghost: the slots of a lane are the
\* tasks of its current generation whose bodies have not ended.
SlotsAccounted ==
  \A l \in Lanes :
    activeTaskIds[l] = {t \in Tasks : /\ LaneOf[t] = l
                                      /\ status[t] = "running"
                                      /\ taskGeneration[t] = generation[l]
                                      /\ ~Settling(t)}

\* waitForActiveTasks answers "drained" only when each task that was
\* executing when it was called has finished.
DrainedMeansFinished ==
  waitResult = "drained" => \A t \in activeAtStart : status[t] # "running"

\* Every accepted task eventually starts or is cleared, across resets.
EveryTaskLeavesQueue ==
  \A t \in Tasks : status[t] = "queued" ~> status[t] # "queued"

\* The queue implements the contract of its lanes.
Contract == INSTANCE LaneContract
  WITH waiting <- queue, slots <- activeTaskIds, cap <- maxConcurrent,
       open <- ~gatewayDraining

ImplementsContract == Contract!Spec
=============================================================================
