--------------------------- MODULE CommandQueueProofs ---------------------------
(***************************************************************************)
(* Proofs about CommandQueue, for every set of lanes and tasks, every      *)
(* requested cap and every number of resets.                               *)
(***************************************************************************)
EXTENDS CommandQueue, TLAPS

-----------------------------------------------------------------------------
(* The call stack as a sequence. *)

\* Appending a frame leaves the frames under it where they were.
LEMMA Push ==
  ASSUME NEW S, NEW s \in Seq(S), NEW x \in S
  PROVE  /\ Append(s, x) \in Seq(S)
         /\ DOMAIN Append(s, x) = 1 .. (Len(s) + 1)
         /\ DOMAIN s = 1 .. Len(s)
         /\ Append(s, x) # <<>>
         /\ \A i \in DOMAIN s : Append(s, x)[i] = s[i]
         /\ Append(s, x)[Len(s) + 1] = x
         /\ Len(s) \in Nat
  OBVIOUS

\* Removing the last frame leaves the frames under it where they were.
LEMMA Pop ==
  ASSUME NEW S, NEW s \in Seq(S), s # <<>>
  PROVE  /\ Front(s) \in Seq(S)
         /\ DOMAIN Front(s) = 1 .. (Len(s) - 1)
         /\ DOMAIN s = 1 .. Len(s)
         /\ Len(s) \in Nat \ {0}
         /\ \A i \in DOMAIN Front(s) : Front(s)[i] = s[i]
         /\ Last(s) = s[Len(s)]
         /\ Last(s) \in S
  BY DEF Front, Last

\* A queue that is not empty has a head and a tail.
LEMMA Shift ==
  ASSUME NEW S, NEW s \in Seq(S), s # <<>>
  PROVE  /\ Head(s) \in S /\ Tail(s) \in Seq(S)
         /\ Head(s) = s[1]
         /\ DOMAIN Tail(s) = 1 .. (Len(s) - 1)
         /\ DOMAIN s = 1 .. Len(s)
         /\ Len(s) \in Nat \ {0}
         /\ \A i \in DOMAIN Tail(s) : Tail(s)[i] = s[i + 1]
  OBVIOUS

-----------------------------------------------------------------------------
(* Type correctness. *)

LEMMA DrainLaneType ==
  ASSUME NEW l \in Lanes, DrainLane(l),
         draining \in [Lanes -> BOOLEAN], stack \in Seq(Frames)
  PROVE  draining' \in [Lanes -> BOOLEAN] /\ stack' \in Seq(Frames)
<1>1. CASE draining[l] /\ UNCHANGED <<draining, stack>>
  BY <1>1
<1>2. CASE /\ ~draining[l]
           /\ draining' = [draining EXCEPT ![l] = TRUE]
           /\ stack' = Append(stack, <<"pump", l>>)
  <2>1. <<"pump", l>> \in Frames
    BY DEF Frames
  <2> QED
    BY <1>2, <2>1, Push
<1> QED
  BY <1>1, <1>2 DEF DrainLane

LEMMA CompleteTaskType ==
  ASSUME NEW t \in Tasks, NEW outcome \in {"resolved", "rejected"},
         NEW below \in Seq(Frames), CompleteTask(t, outcome, below),
         activeTaskIds \in [Lanes -> SUBSET Tasks]
  PROVE  activeTaskIds' \in [Lanes -> SUBSET Tasks] /\ stack' \in Seq(Frames)
<1>1. LaneOf[t] \in Lanes
  BY LaneOfAssumption
<1>2. <<outcome, t>> \in Frames /\ <<"pump", LaneOf[t]>> \in Frames
  BY <1>1 DEF Frames
<1>3. Append(below, <<outcome, t>>) \in Seq(Frames)
  BY <1>2, Push
<1>4. Append(Append(below, <<outcome, t>>), <<"pump", LaneOf[t]>>) \in Seq(Frames)
  BY <1>2, <1>3, Push
<1> QED
  BY <1>1, <1>3, <1>4 DEF CompleteTask

\* Every variable keeps its type: in particular a lane always has at least
\* one slot and the stack holds only frames of known lanes and tasks.
THEOREM TypeCorrect == Spec => []TypeOK
<1>1. Init => TypeOK
  <2>1. <<>> \in Seq(Tasks) /\ <<>> \in Seq(Frames)
    OBVIOUS
  <2> SUFFICES ASSUME Init PROVE TypeOK
    OBVIOUS
  <2>2. queue \in [Lanes -> Seq(Tasks)] /\ stack \in Seq(Frames)
    BY <2>1 DEF Init
  <2>3. draining \in [Lanes -> BOOLEAN] /\ gatewayDraining \in BOOLEAN
    BY DEF Init
  <2>4. /\ activeTaskIds \in [Lanes -> SUBSET Tasks]
        /\ maxConcurrent \in [Lanes -> Nat \ {0}]
        /\ generation \in [Lanes -> Nat]
        /\ taskGeneration \in [Tasks -> Nat]
    BY DEF Init
  <2>5. /\ status \in [Tasks -> Statuses]
        /\ lanesToDrain \in SUBSET Lanes
        /\ activeAtStart \in SUBSET Tasks
        /\ waitResult \in {"none", "waiting", "drained", "timeout"}
    BY DEF Init, Statuses
  <2> QED
    BY <2>2, <2>3, <2>4, <2>5 DEF TypeOK
<1>2. TypeOK /\ [Next]_vars => TypeOK'
  <2> SUFFICES ASSUME TypeOK, [Next]_vars
               PROVE  TypeOK'
    OBVIOUS
  <2> USE DEF TypeOK
  <2>1. ASSUME NEW t \in Tasks, Enqueue(t)
        PROVE  TypeOK'
    <3>1. LaneOf[t] \in Lanes
      BY LaneOfAssumption
    <3>2. CASE gatewayDraining
      BY <2>1, <3>2 DEF Enqueue, waitVars, Statuses
    <3>3. CASE ~gatewayDraining
      <4>1. DrainLane(LaneOf[t])
        BY <2>1, <3>3 DEF Enqueue
      <4>2. draining' \in [Lanes -> BOOLEAN] /\ stack' \in Seq(Frames)
        BY <3>1, <4>1, DrainLaneType
      <4>3. queue' = [queue EXCEPT ![LaneOf[t]] = Append(@, t)]
        BY <2>1, <3>3 DEF Enqueue
      <4>4. Append(queue[LaneOf[t]], t) \in Seq(Tasks)
        BY <3>1, Push
      <4>5. queue' \in [Lanes -> Seq(Tasks)]
        BY <4>3, <4>4
      <4> QED
        BY <2>1, <3>3, <4>2, <4>5 DEF Enqueue, waitVars, Statuses
    <3> QED
      BY <3>2, <3>3
  <2>2. ASSUME NEW t \in Tasks, TaskAwaits(t)
        PROVE  TypeOK'
    BY <2>2, Pop DEF TaskAwaits, Executing, laneVars, waitVars
  <2>3. ASSUME NEW t \in Tasks, TaskThrows(t)
        PROVE  TypeOK'
    <3>1. Front(stack) \in Seq(Frames)
      BY <2>3, Pop DEF TaskThrows, Executing
    <3>2. CompleteTask(t, "rejected", Front(stack))
      BY <2>3 DEF TaskThrows
    <3>3. activeTaskIds' \in [Lanes -> SUBSET Tasks] /\ stack' \in Seq(Frames)
      BY <3>1, <3>2, CompleteTaskType
    <3> QED
      BY <2>3, <3>3 DEF TaskThrows, waitVars
  <2>4. ASSUME NEW t \in Tasks, TaskFinishes(t)
        PROVE  TypeOK'
    <3>1. PICK outcome \in {"resolved", "rejected"} : CompleteTask(t, outcome, stack)
      BY <2>4 DEF TaskFinishes
    <3>2. activeTaskIds' \in [Lanes -> SUBSET Tasks] /\ stack' \in Seq(Frames)
      BY <3>1, CompleteTaskType
    <3> QED
      BY <2>4, <3>2 DEF TaskFinishes, waitVars
  <2>5. ASSUME NEW t \in Tasks, Settle(t)
        PROVE  TypeOK'
    BY <2>5, Pop DEF Settle, Executing, laneVars, waitVars, Statuses
  <2>6. ASSUME NEW l \in Lanes, PumpStart(l)
        PROVE  TypeOK'
    <3> DEFINE t == Head(queue[l])
    <3>1. t \in Tasks /\ Tail(queue[l]) \in Seq(Tasks)
      BY <2>6, Shift DEF PumpStart, CanStart
    <3>2. stack' \in Seq(Frames)
      <4>1. <<"task", t>> \in Frames
        BY <3>1 DEF Frames
      <4> QED
        BY <2>6, <4>1, Push DEF PumpStart
    <3> QED
      BY <2>6, <3>1, <3>2 DEF PumpStart, waitVars, Statuses
  <2>7. ASSUME NEW l \in Lanes, PumpReturn(l)
        PROVE  TypeOK'
    BY <2>7, Pop DEF PumpReturn, Executing, laneVars, waitVars
  <2>8. ASSUME NEW l \in Lanes, SetConcurrency(l)
        PROVE  TypeOK'
    <3>1. draining' \in [Lanes -> BOOLEAN] /\ stack' \in Seq(Frames)
      BY <2>8, DrainLaneType DEF SetConcurrency
    <3>2. PICK n \in Requested :
            maxConcurrent' = [maxConcurrent EXCEPT ![l] = IF n < 1 THEN 1 ELSE n]
      BY <2>8 DEF SetConcurrency
    <3>3. (IF n < 1 THEN 1 ELSE n) \in Nat \ {0}
      BY RequestedAssumption
    <3> QED
      BY <2>8, <3>1, <3>2, <3>3 DEF SetConcurrency, waitVars
  <2>9. ASSUME NEW l \in Lanes, ClearLane(l)
        PROVE  TypeOK'
    <3>1. <<>> \in Seq(Tasks)
      OBVIOUS
    <3>2. queue' \in [Lanes -> Seq(Tasks)]
      BY <2>9, <3>1 DEF ClearLane
    <3>3. status' \in [Tasks -> Statuses]
      BY <2>9 DEF ClearLane, Statuses
    <3> QED
      BY <2>9, <3>2, <3>3 DEF ClearLane, waitVars
  <2>10. ASSUME NEW l \in Lanes, DrainAfterReset(l)
         PROVE  TypeOK'
    <3>1. draining' \in [Lanes -> BOOLEAN] /\ stack' \in Seq(Frames)
      BY <2>10, DrainLaneType DEF DrainAfterReset
    <3> QED
      BY <2>10, <3>1 DEF DrainAfterReset, laneVars, waitVars
  <2>11. CASE MarkDraining
    BY <2>11 DEF MarkDraining, laneVars, waitVars
  <2>12. CASE ResetAllLanes
    <3>1. draining' \in [Lanes -> BOOLEAN] /\ gatewayDraining' \in BOOLEAN
      BY <2>12 DEF ResetAllLanes
    <3>2. /\ generation' \in [Lanes -> Nat]
          /\ activeTaskIds' \in [Lanes -> SUBSET Tasks]
          /\ lanesToDrain' \in SUBSET Lanes
      BY <2>12 DEF ResetAllLanes
    <3> QED
      BY <2>12, <3>1, <3>2 DEF ResetAllLanes, waitVars
  <2>13. CASE WaitForActiveTasks
    BY <2>13 DEF WaitForActiveTasks, laneVars
  <2>14. CASE WaitCheck
    BY <2>14 DEF WaitCheck, laneVars
  <2>15. CASE UNCHANGED vars
    BY <2>15 DEF vars, laneVars, waitVars
  <2> QED
    BY <2>1, <2>2, <2>3, <2>4, <2>5, <2>6, <2>7, <2>8, <2>9, <2>10, <2>11,
       <2>12, <2>13, <2>14, <2>15 DEF Next
<1> QED
  BY <1>1, <1>2, PTL DEF Spec

-----------------------------------------------------------------------------
(* Pumps and the work they will look at. *)

\* A pump of l is a frame of s: Pumping(l) is PumpIn(stack, l).
PumpIn(s, l) == \E i \in DOMAIN s : s[i] = <<"pump", l>>

LEMMA PumpPushed ==
  ASSUME NEW s \in Seq(Frames), NEW x \in Frames
  PROVE  /\ Append(s, x) \in Seq(Frames)
         /\ \A l \in Lanes : PumpIn(s, l) => PumpIn(Append(s, x), l)
         /\ \A l \in Lanes : x = <<"pump", l>> => PumpIn(Append(s, x), l)
BY Push DEF PumpIn

LEMMA PumpPopped ==
  ASSUME NEW s \in Seq(Frames), s # <<>>
  PROVE  /\ Front(s) \in Seq(Frames)
         /\ \A l \in Lanes :
              PumpIn(s, l) /\ Last(s) # <<"pump", l>> => PumpIn(Front(s), l)
<1>1. Front(s) \in Seq(Frames)
  BY Pop
<1>2. ASSUME NEW l \in Lanes, PumpIn(s, l), Last(s) # <<"pump", l>>
      PROVE  PumpIn(Front(s), l)
  <2>1. PICK i \in DOMAIN s : s[i] = <<"pump", l>>
    BY <1>2 DEF PumpIn
  <2>2. i # Len(s)
    BY <2>1, <1>2, Pop
  <2>3. i \in DOMAIN Front(s) /\ Front(s)[i] = s[i]
    BY <2>2, Pop
  <2> QED
    BY <2>1, <2>3 DEF PumpIn
<1> QED
  BY <1>1, <1>2

\* drainLane leaves a pump of its lane on the stack, and every other.
LEMMA DrainLanePumps ==
  ASSUME NEW l \in Lanes, DrainLane(l), NoWedgedLane,
         draining \in [Lanes -> BOOLEAN], stack \in Seq(Frames)
  PROVE  /\ NoWedgedLane'
         /\ Pumping(l)'
         /\ \A m \in Lanes : Pumping(m) => Pumping(m)'
<1>1. CASE draining[l] /\ UNCHANGED <<draining, stack>>
  BY <1>1 DEF NoWedgedLane, Pumping
<1>2. CASE /\ ~draining[l]
           /\ draining' = [draining EXCEPT ![l] = TRUE]
           /\ stack' = Append(stack, <<"pump", l>>)
  <2>1. <<"pump", l>> \in Frames
    BY DEF Frames
  <2>2. Pumping(l)' /\ \A m \in Lanes : Pumping(m) => Pumping(m)'
    BY <1>2, <2>1, PumpPushed DEF Pumping, PumpIn
  <2>3. \A m \in Lanes : m # l => draining'[m] = draining[m]
    BY <1>2
  <2> QED
    BY <2>2, <2>3 DEF NoWedgedLane
<1> QED
  BY <1>1, <1>2 DEF DrainLane

\* The completion of a task keeps every pump under it, and pumps its lane
\* when it freed a slot of it.
LEMMA CompleteTaskPumps ==
  ASSUME NEW t \in Tasks, NEW outcome \in {"resolved", "rejected"},
         NEW below \in Seq(Frames), CompleteTask(t, outcome, below),
         activeTaskIds \in [Lanes -> SUBSET Tasks]
  PROVE  /\ \A m \in Lanes : PumpIn(below, m) => Pumping(m)'
         /\ \A m \in Lanes : activeTaskIds'[m] # activeTaskIds[m] => Pumping(m)'
<1>1. LaneOf[t] \in Lanes
  BY LaneOfAssumption
<1>2. <<outcome, t>> \in Frames /\ <<"pump", LaneOf[t]>> \in Frames
  BY <1>1 DEF Frames
<1>3. CASE /\ taskGeneration[t] = generation[LaneOf[t]]
           /\ activeTaskIds' = [activeTaskIds EXCEPT ![LaneOf[t]] = @ \ {t}]
           /\ stack' = Append(Append(below, <<outcome, t>>), <<"pump", LaneOf[t]>>)
  <2>1. /\ Append(below, <<outcome, t>>) \in Seq(Frames)
        /\ \A m \in Lanes : PumpIn(below, m) => PumpIn(Append(below, <<outcome, t>>), m)
    BY <1>2, PumpPushed
  <2>2. /\ \A m \in Lanes : PumpIn(below, m) => Pumping(m)'
        /\ Pumping(LaneOf[t])'
    BY <1>1, <1>2, <1>3, <2>1, PumpPushed DEF Pumping, PumpIn
  <2>3. \A m \in Lanes : m # LaneOf[t] => activeTaskIds'[m] = activeTaskIds[m]
    BY <1>3
  <2> QED
    BY <2>2, <2>3
<1>4. CASE /\ stack' = Append(below, <<outcome, t>>)
           /\ UNCHANGED activeTaskIds
  BY <1>2, <1>4, PumpPushed DEF Pumping, PumpIn
<1> QED
  BY <1>3, <1>4 DEF CompleteTask

PumpInv == NoWedgedLane /\ WorkIsPumped

LEMMA PumpInvStep == TypeOK /\ PumpInv /\ [Next]_vars => PumpInv'
<1> SUFFICES ASSUME TypeOK, NoWedgedLane, WorkIsPumped, [Next]_vars
             PROVE  NoWedgedLane' /\ WorkIsPumped'
  BY DEF PumpInv
<1>t. /\ draining \in [Lanes -> BOOLEAN] /\ stack \in Seq(Frames)
      /\ activeTaskIds \in [Lanes -> SUBSET Tasks]
      /\ queue \in [Lanes -> Seq(Tasks)]
      /\ maxConcurrent \in [Lanes -> Nat \ {0}]
  BY DEF TypeOK
<1>1. ASSUME NEW t \in Tasks, Enqueue(t)
      PROVE  NoWedgedLane' /\ WorkIsPumped'
  <2>1. CASE gatewayDraining
    BY <1>1, <2>1 DEF Enqueue, NoWedgedLane, WorkIsPumped, CanStart, Pumping
  <2>2. CASE ~gatewayDraining
    <3>1. LaneOf[t] \in Lanes
      BY LaneOfAssumption
    <3>2. DrainLane(LaneOf[t])
      BY <1>1, <2>2 DEF Enqueue
    <3>3. /\ NoWedgedLane' /\ Pumping(LaneOf[t])'
          /\ \A m \in Lanes : Pumping(m) => Pumping(m)'
      BY <1>t, <3>1, <3>2, DrainLanePumps
    <3>4. \A m \in Lanes : m # LaneOf[t] => queue'[m] = queue[m]
      BY <1>1, <1>t, <2>2, <3>1 DEF Enqueue
    <3>5. UNCHANGED <<activeTaskIds, maxConcurrent, lanesToDrain>>
      BY <1>1 DEF Enqueue
    <3>6. ASSUME NEW m \in Lanes, CanStart(m)'
          PROVE  Pumping(m)' \/ m \in lanesToDrain'
      <4>1. CASE m = LaneOf[t]
        BY <3>3, <4>1
      <4>2. CASE m # LaneOf[t]
        <5>1. CanStart(m)
          BY <3>4, <3>5, <3>6, <4>2 DEF CanStart
        <5> QED
          BY <3>3, <3>5, <5>1 DEF WorkIsPumped
      <4> QED
        BY <4>1, <4>2
    <3> QED
      BY <3>3, <3>6 DEF WorkIsPumped
  <2> QED
    BY <2>1, <2>2
\* A stack that loses a frame which is no pump loses no pump.
<1>p. ASSUME NEW kind \in {"task", "resolved", "rejected"}, NEW t \in Tasks,
             Executing(kind, t)
      PROVE  /\ Front(stack) \in Seq(Frames)
             /\ \A l \in Lanes : Pumping(l) => PumpIn(Front(stack), l)
  <2>1. stack # <<>> /\ Last(stack) = <<kind, t>>
    BY <1>p DEF Executing
  <2>2. \A l \in Lanes : <<kind, t>> # <<"pump", l>>
    OBVIOUS
  <2> QED
    BY <1>t, <2>1, <2>2, PumpPopped DEF Pumping, PumpIn
<1>2. ASSUME NEW t \in Tasks, TaskAwaits(t)
      PROVE  NoWedgedLane' /\ WorkIsPumped'
  <2>1. Executing("task", t) /\ stack' = Front(stack)
    BY <1>2 DEF TaskAwaits
  <2>2. \A l \in Lanes : Pumping(l) => Pumping(l)'
    BY <1>p, <2>1 DEF Pumping, PumpIn
  <2> QED
    BY <1>2, <2>2 DEF TaskAwaits, laneVars, NoWedgedLane, WorkIsPumped, CanStart
<1>c. ASSUME NEW t \in Tasks, NEW outcome \in {"resolved", "rejected"},
             NEW below \in Seq(Frames), CompleteTask(t, outcome, below),
             \A l \in Lanes : Pumping(l) => PumpIn(below, l),
             UNCHANGED <<queue, maxConcurrent, draining, lanesToDrain>>
      PROVE  NoWedgedLane' /\ WorkIsPumped'
  <2>1. /\ \A m \in Lanes : Pumping(m) => Pumping(m)'
        /\ \A m \in Lanes : activeTaskIds'[m] # activeTaskIds[m] => Pumping(m)'
    BY <1>t, <1>c, CompleteTaskPumps
  <2>2. NoWedgedLane'
    BY <1>c, <2>1 DEF NoWedgedLane
  <2>3. ASSUME NEW m \in Lanes, CanStart(m)'
        PROVE  Pumping(m)' \/ m \in lanesToDrain'
    <3>1. CASE activeTaskIds'[m] # activeTaskIds[m]
      BY <2>1, <3>1
    <3>2. CASE activeTaskIds'[m] = activeTaskIds[m]
      <4>1. CanStart(m)
        BY <1>c, <2>3, <3>2 DEF CanStart
      <4> QED
        BY <1>c, <2>1, <4>1 DEF WorkIsPumped
    <3> QED
      BY <3>1, <3>2
  <2> QED
    BY <2>2, <2>3 DEF WorkIsPumped
<1>3. ASSUME NEW t \in Tasks, TaskThrows(t)
      PROVE  NoWedgedLane' /\ WorkIsPumped'
  <2>1. Executing("task", t) /\ CompleteTask(t, "rejected", Front(stack))
    BY <1>3 DEF TaskThrows
  <2>2. /\ Front(stack) \in Seq(Frames)
        /\ \A l \in Lanes : Pumping(l) => PumpIn(Front(stack), l)
    BY <1>p, <2>1
  <2>3. UNCHANGED <<queue, maxConcurrent, draining, lanesToDrain>>
    BY <1>3 DEF TaskThrows
  <2> QED
    BY <1>c, <2>1, <2>2, <2>3
<1>4. ASSUME NEW t \in Tasks, TaskFinishes(t)
      PROVE  NoWedgedLane' /\ WorkIsPumped'
  <2>1. PICK outcome \in {"resolved", "rejected"} : CompleteTask(t, outcome, stack)
    BY <1>4 DEF TaskFinishes
  <2>2. \A l \in Lanes : Pumping(l) => PumpIn(stack, l)
    BY DEF Pumping, PumpIn
  <2>3. UNCHANGED <<queue, maxConcurrent, draining, lanesToDrain>>
    BY <1>4 DEF TaskFinishes
  <2> QED
    BY <1>c, <1>t, <2>1, <2>2, <2>3
<1>5. ASSUME NEW t \in Tasks, Settle(t)
      PROVE  NoWedgedLane' /\ WorkIsPumped'
  <2>1. PICK outcome \in {"resolved", "rejected"} : Executing(outcome, t)
    BY <1>5 DEF Settle
  <2>2. stack' = Front(stack)
    BY <1>5 DEF Settle
  <2>3. \A l \in Lanes : Pumping(l) => Pumping(l)'
    BY <1>p, <2>1, <2>2 DEF Pumping, PumpIn
  <2> QED
    BY <1>5, <2>3 DEF Settle, laneVars, NoWedgedLane, WorkIsPumped, CanStart
<1>6. ASSUME NEW l \in Lanes, PumpStart(l)
      PROVE  NoWedgedLane' /\ WorkIsPumped'
  <2> DEFINE t == Head(queue[l])
  <2>1. <<"task", t>> \in Frames
    BY <1>6, <1>t, Shift DEF PumpStart, CanStart, Frames
  <2>2. \A m \in Lanes : Pumping(m) => Pumping(m)'
    BY <1>6, <1>t, <2>1, PumpPushed DEF PumpStart, Pumping, PumpIn
  <2>3. Pumping(l)
    <3>1. stack # <<>> /\ Last(stack) = <<"pump", l>>
      BY <1>6 DEF PumpStart, Executing
    <3>2. /\ DOMAIN stack = 1 .. Len(stack) /\ Len(stack) \in Nat \ {0}
          /\ Last(stack) = stack[Len(stack)]
      BY <1>t, <3>1, Pop
    <3>3. Len(stack) \in DOMAIN stack
      BY <3>2
    <3> QED
      BY <3>1, <3>2, <3>3 DEF Pumping
  <2>4. \A m \in Lanes : m # l => /\ queue'[m] = queue[m]
                                  /\ activeTaskIds'[m] = activeTaskIds[m]
    BY <1>6, <1>t DEF PumpStart
  <2>5. UNCHANGED <<maxConcurrent, draining, lanesToDrain>>
    BY <1>6 DEF PumpStart
  <2>6. \A m \in Lanes : CanStart(m)' => m = l \/ CanStart(m)
    BY <2>4, <2>5 DEF CanStart
  <2> QED
    BY <2>2, <2>3, <2>5, <2>6 DEF NoWedgedLane, WorkIsPumped
<1>7. ASSUME NEW l \in Lanes, PumpReturn(l)
      PROVE  NoWedgedLane' /\ WorkIsPumped'
  <2>1. stack # <<>> /\ Last(stack) = <<"pump", l>> /\ stack' = Front(stack)
    BY <1>7 DEF PumpReturn, Executing
  <2>2. \A m \in Lanes : m # l /\ Pumping(m) => Pumping(m)'
    <3>1. \A m \in Lanes : m # l => Last(stack) # <<"pump", m>>
      BY <2>1
    <3>2. \A m \in Lanes : m # l /\ PumpIn(stack, m) => PumpIn(Front(stack), m)
      BY <1>t, <2>1, <3>1, PumpPopped
    <3> QED
      BY <2>1, <3>2 DEF Pumping, PumpIn
  <2>3. ~draining'[l] /\ \A m \in Lanes : m # l => draining'[m] = draining[m]
    BY <1>7, <1>t DEF PumpReturn
  <2>4. \A m \in Lanes : CanStart(m)' => CanStart(m) /\ m # l
    BY <1>7 DEF PumpReturn, laneVars, CanStart
  <2>5. lanesToDrain' = lanesToDrain
    BY <1>7 DEF PumpReturn
  <2> QED
    BY <2>2, <2>3, <2>4, <2>5 DEF NoWedgedLane, WorkIsPumped
<1>8. ASSUME NEW l \in Lanes, SetConcurrency(l)
      PROVE  NoWedgedLane' /\ WorkIsPumped'
  <2>1. /\ NoWedgedLane' /\ Pumping(l)'
        /\ \A m \in Lanes : Pumping(m) => Pumping(m)'
    BY <1>8, <1>t, DrainLanePumps DEF SetConcurrency
  <2>2. \A m \in Lanes : m # l => maxConcurrent'[m] = maxConcurrent[m]
    BY <1>8, <1>t DEF SetConcurrency
  <2>3. UNCHANGED <<queue, activeTaskIds, lanesToDrain>>
    BY <1>8 DEF SetConcurrency
  <2>4. \A m \in Lanes : CanStart(m)' => m = l \/ CanStart(m)
    BY <2>2, <2>3 DEF CanStart
  <2> QED
    BY <2>1, <2>3, <2>4 DEF WorkIsPumped
<1>9. ASSUME NEW l \in Lanes, ClearLane(l)
      PROVE  NoWedgedLane' /\ WorkIsPumped'
  <2>1. \A m \in Lanes : queue'[m] = queue[m] \/ queue'[m] = <<>>
    BY <1>9, <1>t DEF ClearLane
  <2>2. UNCHANGED <<activeTaskIds, maxConcurrent, draining, stack, lanesToDrain>>
    BY <1>9 DEF ClearLane
  <2>3. \A m \in Lanes : CanStart(m)' => CanStart(m)
    BY <2>1, <2>2 DEF CanStart
  <2> QED
    BY <2>2, <2>3 DEF NoWedgedLane, WorkIsPumped, Pumping
<1>10. ASSUME NEW l \in Lanes, DrainAfterReset(l)
       PROVE  NoWedgedLane' /\ WorkIsPumped'
  <2>1. /\ NoWedgedLane' /\ Pumping(l)'
        /\ \A m \in Lanes : Pumping(m) => Pumping(m)'
    BY <1>10, <1>t, DrainLanePumps DEF DrainAfterReset
  <2>2. lanesToDrain' = lanesToDrain \ {l}
    BY <1>10 DEF DrainAfterReset
  <2>3. \A m \in Lanes : CanStart(m)' => CanStart(m)
    BY <1>10 DEF DrainAfterReset, laneVars, CanStart
  <2> QED
    BY <2>1, <2>2, <2>3 DEF WorkIsPumped
<1>11. CASE ResetAllLanes
  <2>1. \A m \in Lanes : ~draining'[m]
    BY <1>11 DEF ResetAllLanes
  <2>2. \A m \in Lanes : queue'[m] # <<>> => m \in lanesToDrain'
    BY <1>11 DEF ResetAllLanes
  <2> QED
    BY <2>1, <2>2 DEF NoWedgedLane, WorkIsPumped, CanStart
<1>12. CASE UNCHANGED <<laneVars, draining, stack, lanesToDrain>>
  BY <1>12 DEF laneVars, NoWedgedLane, WorkIsPumped, CanStart, Pumping
<1>13. MarkDraining \/ WaitForActiveTasks \/ WaitCheck \/ UNCHANGED vars
         => UNCHANGED <<laneVars, draining, stack, lanesToDrain>>
  BY DEF MarkDraining, WaitForActiveTasks, WaitCheck, vars
<1> QED
  BY <1>1, <1>2, <1>3, <1>4, <1>5, <1>6, <1>7, <1>8, <1>9, <1>10, <1>11,
     <1>12, <1>13 DEF Next

LEMMA PumpInvariant == Spec => []PumpInv
<1>1. Init => PumpInv
  BY DEF Init, PumpInv, NoWedgedLane, WorkIsPumped, CanStart
<1> QED
  BY <1>1, PumpInvStep, TypeCorrect, PTL DEF Spec

\* The flag that turns drainLane away is raised only while a pump of that
\* lane is on the stack: a lane is never blocked by a flag nobody lowers.
THEOREM NeverWedged == Spec => []NoWedgedLane
<1>1. PumpInv => NoWedgedLane
  BY DEF PumpInv
<1> QED
  BY <1>1, PumpInvariant, PTL

\* Whenever the event loop is in control, no lane of the queue has both a
\* free slot and an entry that waits for one.
THEOREM AlwaysWorkConserving == Spec => []WorkConserving
<1>1. PumpInv => WorkConserving
  <2> SUFFICES ASSUME WorkIsPumped, stack = <<>>, lanesToDrain = {},
                      NEW l \in Lanes, CanStart(l)
               PROVE  FALSE
    BY DEF PumpInv, WorkConserving, Idle
  <2>1. Pumping(l)
    BY DEF WorkIsPumped
  <2> QED
    BY <2>1 DEF Pumping
<1> QED
  BY <1>1, PumpInvariant, PTL

-----------------------------------------------------------------------------
(* Slots and the tasks that hold them. *)

\* The frames that execute or settle t.
TaskFrames(t) == {<<"task", t>>, <<"resolved", t>>, <<"rejected", t>>}
HasFrame(s, t) == \E i \in DOMAIN s : s[i] \in TaskFrames(t)
SettlingIn(s, t) == \E i \in DOMAIN s : s[i] \in {<<"resolved", t>>, <<"rejected", t>>}

\* No task is on the stack twice.
OneFrame(s) ==
  \A t \in Tasks : \A i, j \in DOMAIN s :
    s[i] \in TaskFrames(t) /\ s[j] \in TaskFrames(t) => i = j

\* The entries of a queue belong to its lane, wait, and are there once.
QueueHolds ==
  \A l \in Lanes : \A i \in DOMAIN queue[l] :
    LaneOf[queue[l][i]] = l /\ status[queue[l][i]] = "queued"
NoRepeats == \A l \in Lanes : IsInjective(queue[l])

\* Only running tasks are on the stack, each once.
FramesRun == OneFrame(stack) /\ \A t \in Tasks : HasFrame(stack, t) => status[t] = "running"

\* No task belongs to a generation that is still to come.
NotAhead == \A t \in Tasks : taskGeneration[t] <= generation[LaneOf[t]]

SlotInv == QueueHolds /\ NoRepeats /\ FramesRun /\ NotAhead /\ SlotsAccounted

\* t holds a slot of its lane.
HoldsSlot(t) ==
  status[t] = "running" /\ taskGeneration[t] = generation[LaneOf[t]] /\ ~SettlingIn(stack, t)
SlotsHeld ==
  \A l \in Lanes : \A t \in Tasks :
    t \in activeTaskIds[l] <=> LaneOf[t] = l /\ HoldsSlot(t)

\* SlotsAccounted, task by task, in this state and in the next one.
LEMMA SlotsPointwise ==
  ASSUME activeTaskIds \in [Lanes -> SUBSET Tasks],
         activeTaskIds' \in [Lanes -> SUBSET Tasks]
  PROVE  (SlotsAccounted <=> SlotsHeld) /\ (SlotsAccounted' <=> SlotsHeld')
<1>1. \A l \in Lanes : activeTaskIds[l] \subseteq Tasks /\ activeTaskIds'[l] \subseteq Tasks
  OBVIOUS
<1>2. SlotsAccounted <=> SlotsHeld
  BY <1>1 DEF SlotsAccounted, SlotsHeld, HoldsSlot, Settling, SettlingIn
<1>3. SlotsAccounted' <=> SlotsHeld'
  BY <1>1 DEF SlotsAccounted, SlotsHeld, HoldsSlot, Settling, SettlingIn
<1> QED
  BY <1>2, <1>3

LEMMA FramePushed ==
  ASSUME NEW s \in Seq(Frames), NEW x \in Frames
  PROVE  /\ \A t \in Tasks : HasFrame(Append(s, x), t) <=> HasFrame(s, t) \/ x \in TaskFrames(t)
         /\ \A t \in Tasks : SettlingIn(Append(s, x), t)
                               <=> SettlingIn(s, t) \/ x \in {<<"resolved", t>>, <<"rejected", t>>}
         /\ OneFrame(s) /\ (\A t \in Tasks : x \in TaskFrames(t) => ~HasFrame(s, t))
              => OneFrame(Append(s, x))
<1> DEFINE a == Append(s, x)
<1>1. /\ DOMAIN a = 1 .. (Len(s) + 1) /\ DOMAIN s = 1 .. Len(s) /\ Len(s) \in Nat
      /\ \A i \in DOMAIN s : a[i] = s[i]
      /\ a[Len(s) + 1] = x
  BY Push
<1> HIDE DEF a
<1>2. /\ \A i \in DOMAIN a : i \in DOMAIN s \/ i = Len(s) + 1
      /\ Len(s) + 1 \in DOMAIN a /\ DOMAIN s \subseteq DOMAIN a
  BY <1>1
<1>3. \A t \in Tasks : HasFrame(a, t) <=> HasFrame(s, t) \/ x \in TaskFrames(t)
  BY <1>1, <1>2 DEF HasFrame
<1>4. \A t \in Tasks : SettlingIn(a, t)
                         <=> SettlingIn(s, t) \/ x \in {<<"resolved", t>>, <<"rejected", t>>}
  BY <1>1, <1>2 DEF SettlingIn
<1>5. ASSUME OneFrame(s), \A t \in Tasks : x \in TaskFrames(t) => ~HasFrame(s, t)
      PROVE  OneFrame(a)
  BY <1>1, <1>2, <1>5 DEF OneFrame, HasFrame
<1> QED
  BY <1>3, <1>4, <1>5 DEF a

LEMMA FramePopped ==
  ASSUME NEW s \in Seq(Frames), s # <<>>
  PROVE  /\ \A t \in Tasks : HasFrame(Front(s), t) => HasFrame(s, t)
         /\ \A t \in Tasks : Last(s) \in TaskFrames(t) => HasFrame(s, t)
         /\ \A t \in Tasks : SettlingIn(s, t)
              <=> SettlingIn(Front(s), t) \/ Last(s) \in {<<"resolved", t>>, <<"rejected", t>>}
         /\ OneFrame(s) => /\ OneFrame(Front(s))
                           /\ \A t \in Tasks : Last(s) \in TaskFrames(t) => ~HasFrame(Front(s), t)
<1> DEFINE f == Front(s)
<1>1. /\ DOMAIN f = 1 .. (Len(s) - 1) /\ DOMAIN s = 1 .. Len(s) /\ Len(s) \in Nat \ {0}
      /\ \A i \in DOMAIN f : f[i] = s[i]
      /\ Last(s) = s[Len(s)]
  BY Pop
<1> HIDE DEF f
<1>2. /\ \A i \in DOMAIN s : i \in DOMAIN f \/ i = Len(s)
      /\ Len(s) \in DOMAIN s /\ Len(s) \notin DOMAIN f /\ DOMAIN f \subseteq DOMAIN s
  BY <1>1
<1>3. /\ \A t \in Tasks : HasFrame(f, t) => HasFrame(s, t)
      /\ \A t \in Tasks : Last(s) \in TaskFrames(t) => HasFrame(s, t)
  BY <1>1, <1>2 DEF HasFrame
<1>4. \A t \in Tasks : SettlingIn(s, t)
        <=> SettlingIn(f, t) \/ Last(s) \in {<<"resolved", t>>, <<"rejected", t>>}
  BY <1>1, <1>2 DEF SettlingIn
<1>5. ASSUME OneFrame(s)
      PROVE  /\ OneFrame(f)
             /\ \A t \in Tasks : Last(s) \in TaskFrames(t) => ~HasFrame(f, t)
  BY <1>1, <1>2, <1>5 DEF OneFrame, HasFrame
<1> QED
  BY <1>3, <1>4, <1>5 DEF f

\* A stack that grows by pumps, or keeps its frames, holds the same tasks.
SameTasks(s) ==
  /\ \A t \in Tasks : HasFrame(s, t) <=> HasFrame(stack, t)
  /\ \A t \in Tasks : SettlingIn(s, t) <=> SettlingIn(stack, t)
  /\ OneFrame(stack) => OneFrame(s)

LEMMA DrainLaneSameTasks ==
  ASSUME NEW l \in Lanes, DrainLane(l), stack \in Seq(Frames)
  PROVE  SameTasks(stack')
<1>1. <<"pump", l>> \in Frames
  BY DEF Frames
<1>2. \A t \in Tasks : /\ <<"pump", l>> \notin TaskFrames(t)
                       /\ <<"pump", l>> \notin {<<"resolved", t>>, <<"rejected", t>>}
  BY DEF TaskFrames
<1>3. CASE stack' = stack
  BY <1>3 DEF SameTasks
<1>4. CASE stack' = Append(stack, <<"pump", l>>)
  BY <1>1, <1>2, <1>4, FramePushed DEF SameTasks
<1> QED
  BY <1>3, <1>4 DEF DrainLane

\* A step that changes no task that waits or runs.
LEMMA SlotInvKept ==
  ASSUME TypeOK, TypeOK', SlotInv, SameTasks(stack'),
         UNCHANGED <<queue, activeTaskIds, generation, taskGeneration, status>>
  PROVE  SlotInv'
<1>1. QueueHolds' /\ NoRepeats' /\ NotAhead'
  BY DEF SlotInv, QueueHolds, NoRepeats, NotAhead
<1>2. FramesRun'
  BY DEF SlotInv, FramesRun, SameTasks
<1>3. SlotsHeld => SlotsHeld'
  BY LaneOfAssumption DEF SlotsHeld, HoldsSlot, SameTasks
<1>4. SlotsAccounted'
  BY <1>3, SlotsPointwise DEF SlotInv, TypeOK
<1> QED
  BY <1>1, <1>2, <1>4 DEF SlotInv

\* t ends: its frame, if any, is gone from below, and one that settles it is
\* pushed.
LEMMA SlotInvCompletes ==
  ASSUME TypeOK, TypeOK', SlotInv,
         NEW t \in Tasks, NEW outcome \in {"resolved", "rejected"}, NEW below \in Seq(Frames),
         status[t] = "running",
         OneFrame(below), ~HasFrame(below, t), ~SettlingIn(stack, t),
         \A u \in Tasks : HasFrame(below, u) => HasFrame(stack, u),
         \A u \in Tasks : u # t => (SettlingIn(below, u) <=> SettlingIn(stack, u)),
         CompleteTask(t, outcome, below),
         UNCHANGED <<queue, generation, taskGeneration, status>>
  PROVE  SlotInv'
<1> DEFINE x == <<outcome, t>>
           s == Append(below, x)
           l == LaneOf[t]
           p == <<"pump", l>>
<1>1. l \in Lanes /\ x \in Frames /\ p \in Frames
  BY LaneOfAssumption DEF Frames
<1>2. /\ \A u \in Tasks : x \in TaskFrames(u) <=> u = t
      /\ \A u \in Tasks : x \in {<<"resolved", u>>, <<"rejected", u>>} <=> u = t
      /\ \A u \in Tasks : /\ p \notin TaskFrames(u)
                          /\ p \notin {<<"resolved", u>>, <<"rejected", u>>}
  BY DEF TaskFrames
<1>3. /\ s \in Seq(Frames)
      /\ \A u \in Tasks : HasFrame(s, u) <=> HasFrame(below, u) \/ u = t
      /\ \A u \in Tasks : SettlingIn(s, u) <=> SettlingIn(below, u) \/ u = t
      /\ OneFrame(s)
  BY <1>1, <1>2, FramePushed, Push
<1>4. stack' = s \/ stack' = Append(s, p)
  BY DEF CompleteTask
<1>5. /\ \A u \in Tasks : HasFrame(stack', u) <=> HasFrame(below, u) \/ u = t
      /\ \A u \in Tasks : SettlingIn(stack', u) <=> SettlingIn(below, u) \/ u = t
      /\ OneFrame(stack')
  <2> HIDE DEF s, p
  <2>1. /\ \A u \in Tasks : HasFrame(Append(s, p), u) <=> HasFrame(s, u)
        /\ \A u \in Tasks : SettlingIn(Append(s, p), u) <=> SettlingIn(s, u)
        /\ OneFrame(Append(s, p))
    BY <1>1, <1>2, <1>3, FramePushed
  <2> QED
    BY <1>3, <1>4, <2>1
<1>6. QueueHolds' /\ NoRepeats' /\ NotAhead'
  BY DEF SlotInv, QueueHolds, NoRepeats, NotAhead
<1>7. FramesRun'
  BY <1>5 DEF SlotInv, FramesRun
<1>8. \A u \in Tasks : HoldsSlot(u)' <=> HoldsSlot(u) /\ u # t
  BY <1>5 DEF HoldsSlot
<1>9. \A m \in Lanes : \A u \in Tasks :
        u \in activeTaskIds'[m] <=> u \in activeTaskIds[m] /\ ~(u = t /\ HoldsSlot(t))
  <2>1. SlotsHeld
    BY SlotsPointwise DEF SlotInv, TypeOK
  <2>2. HoldsSlot(t) <=> taskGeneration[t] = generation[l]
    BY DEF HoldsSlot
  <2>3. CASE taskGeneration[t] = generation[l]
    <3>1. activeTaskIds' = [activeTaskIds EXCEPT ![l] = @ \ {t}]
      BY <2>3 DEF CompleteTask
    <3>2. \A m \in Lanes : m # l => t \notin activeTaskIds[m]
      BY <2>1 DEF SlotsHeld
    <3> QED
      BY <1>1, <2>2, <2>3, <3>1, <3>2 DEF TypeOK
  <2>4. CASE taskGeneration[t] # generation[l]
    BY <2>2, <2>4 DEF CompleteTask
  <2> QED
    BY <2>3, <2>4
<1>10. SlotsAccounted'
  <2>1. SlotsHeld
    BY SlotsPointwise DEF SlotInv, TypeOK
  <2>2. SlotsHeld'
    BY <1>8, <1>9, <2>1 DEF SlotsHeld
  <2> QED
    BY <2>2, SlotsPointwise DEF TypeOK
<1> QED
  BY <1>6, <1>7, <1>10 DEF SlotInv

\* A step that takes the last frame, of a pump or of a task whose prefix
\* ends, off the stack.
LEMMA SlotInvPopped ==
  ASSUME TypeOK, TypeOK', SlotInv, stack # <<>>, stack' = Front(stack),
         \A t \in Tasks : Last(stack) \notin {<<"resolved", t>>, <<"rejected", t>>},
         UNCHANGED <<queue, activeTaskIds, generation, taskGeneration, status>>
  PROVE  SlotInv'
<1>1. stack \in Seq(Frames)
  BY DEF TypeOK
<1>2. QueueHolds' /\ NoRepeats' /\ NotAhead'
  BY DEF SlotInv, QueueHolds, NoRepeats, NotAhead
<1>3. FramesRun'
  BY <1>1, FramePopped DEF SlotInv, FramesRun
<1>4. \A t \in Tasks : SettlingIn(stack', t) <=> SettlingIn(stack, t)
  BY <1>1, FramePopped
<1>5. SlotsHeld => SlotsHeld'
  BY <1>4, LaneOfAssumption DEF SlotsHeld, HoldsSlot
<1>6. SlotsAccounted'
  BY <1>5, SlotsPointwise DEF SlotInv, TypeOK
<1> QED
  BY <1>2, <1>3, <1>6 DEF SlotInv

\* The prefix of t throws: its frame gives way to one that rejects it.
LEMMA SlotInvThrows ==
  ASSUME TypeOK, TypeOK', SlotInv, NEW t \in Tasks, TaskThrows(t)
  PROVE  SlotInv'
<1> DEFINE below == Front(stack)
<1>1. /\ stack \in Seq(Frames) /\ stack # <<>> /\ Last(stack) = <<"task", t>>
      /\ below \in Seq(Frames)
  BY Pop DEF TaskThrows, Executing, TypeOK
<1>2. Last(stack) \in TaskFrames(t)
  BY <1>1 DEF TaskFrames
<1>3. status[t] = "running" /\ OneFrame(stack)
  BY <1>1, <1>2, FramePopped DEF SlotInv, FramesRun
<1>4. OneFrame(below) /\ ~HasFrame(below, t)
  BY <1>1, <1>2, <1>3, FramePopped
<1>5. \A u \in Tasks : HasFrame(below, u) => HasFrame(stack, u)
  BY <1>1, FramePopped
<1>6. \A u \in Tasks : SettlingIn(below, u) <=> SettlingIn(stack, u)
  <2>1. \A u \in Tasks : Last(stack) \notin {<<"resolved", u>>, <<"rejected", u>>}
    BY <1>1
  <2> QED
    BY <1>1, <2>1, FramePopped
<1>7. ~SettlingIn(stack, t)
  BY <1>4, <1>6 DEF SettlingIn, HasFrame, TaskFrames
<1>8. /\ CompleteTask(t, "rejected", below)
      /\ UNCHANGED <<queue, generation, taskGeneration, status>>
  BY DEF TaskThrows
<1> QED
  BY <1>1, <1>3, <1>4, <1>5, <1>6, <1>7, <1>8, SlotInvCompletes

\* The promise of t settles: nothing is on the stack under its settlement.
LEMMA SlotInvFinishes ==
  ASSUME TypeOK, TypeOK', SlotInv, NEW t \in Tasks, TaskFinishes(t)
  PROVE  SlotInv'
<1>1. PICK outcome \in {"resolved", "rejected"} : CompleteTask(t, outcome, stack)
  BY DEF TaskFinishes
<1>2. /\ stack = <<>> /\ stack \in Seq(Frames) /\ status[t] = "running"
      /\ UNCHANGED <<queue, generation, taskGeneration, status>>
  BY DEF TaskFinishes, Idle, TypeOK
<1>3. OneFrame(stack) /\ ~HasFrame(stack, t) /\ ~SettlingIn(stack, t)
  BY <1>2 DEF OneFrame, HasFrame, SettlingIn
<1> QED
  BY <1>1, <1>2, <1>3, SlotInvCompletes

\* The caller of t is answered: t held no slot any more.
LEMMA SlotInvSettles ==
  ASSUME TypeOK, TypeOK', SlotInv, NEW t \in Tasks, Settle(t)
  PROVE  SlotInv'
<1>1. PICK outcome \in {"resolved", "rejected"} :
        /\ Executing(outcome, t)
        /\ status' = [status EXCEPT ![t] = outcome]
  BY DEF Settle
<1>2. /\ stack \in Seq(Frames) /\ stack # <<>> /\ stack' = Front(stack)
      /\ Last(stack) = <<outcome, t>>
      /\ UNCHANGED <<queue, activeTaskIds, generation, taskGeneration>>
  BY <1>1 DEF Settle, Executing, TypeOK, laneVars
<1>3. /\ \A u \in Tasks : Last(stack) \in {<<"resolved", u>>, <<"rejected", u>>} <=> u = t
      /\ Last(stack) \in TaskFrames(t)
  BY <1>2 DEF TaskFrames
<1>4. OneFrame(stack) /\ \A u \in Tasks : HasFrame(stack, u) => status[u] = "running"
  BY DEF SlotInv, FramesRun
<1>5. OneFrame(stack') /\ ~HasFrame(stack', t)
  BY <1>2, <1>3, <1>4, FramePopped
<1>6. /\ status[t] = "running" /\ status'[t] # "running"
      /\ \A u \in Tasks : u # t => status'[u] = status[u]
  <2>1. HasFrame(stack, t)
    BY <1>2, <1>3, FramePopped
  <2>2. outcome # "running"
    OBVIOUS
  <2> QED
    BY <1>1, <1>4, <2>1, <2>2 DEF TypeOK
<1>7. FramesRun'
  BY <1>2, <1>4, <1>5, <1>6, FramePopped DEF FramesRun
<1>8. QueueHolds'
  <2>1. \A l \in Lanes : \A i \in DOMAIN queue[l] : queue[l][i] \in Tasks
    BY DEF TypeOK
  <2> QED
    BY <1>2, <1>6, <2>1 DEF SlotInv, QueueHolds
<1>9. NoRepeats' /\ NotAhead'
  BY <1>2 DEF SlotInv, NoRepeats, NotAhead
<1>10. SettlingIn(stack, t) /\ \A u \in Tasks : u # t => (SettlingIn(stack', u) <=> SettlingIn(stack, u))
  BY <1>2, <1>3, FramePopped
<1>11. \A u \in Tasks : HoldsSlot(u)' <=> HoldsSlot(u)
  BY <1>2, <1>6, <1>10 DEF HoldsSlot
<1>12. SlotsHeld => SlotsHeld'
  BY <1>2, <1>11 DEF SlotsHeld
<1>13. SlotsAccounted'
  BY <1>12, SlotsPointwise DEF SlotInv, TypeOK
<1> QED
  BY <1>7, <1>8, <1>9, <1>13 DEF SlotInv

\* The entries of a queue that grows at its end, or loses its head.
LEMMA EntriesAppended ==
  ASSUME NEW S, NEW s \in Seq(S), NEW x \in S
  PROVE  /\ \A i \in DOMAIN Append(s, x) :
              Append(s, x)[i] = x \/ \E j \in DOMAIN s : Append(s, x)[i] = s[j]
         /\ IsInjective(s) /\ (\A j \in DOMAIN s : s[j] # x) => IsInjective(Append(s, x))
<1> DEFINE a == Append(s, x)
<1>1. /\ DOMAIN a = 1 .. (Len(s) + 1) /\ DOMAIN s = 1 .. Len(s) /\ Len(s) \in Nat
      /\ \A i \in DOMAIN s : a[i] = s[i]
      /\ a[Len(s) + 1] = x
  BY Push
<1> HIDE DEF a
<1>2. \A i \in DOMAIN a : i \in DOMAIN s \/ i = Len(s) + 1
  BY <1>1
<1>3. \A i \in DOMAIN a : a[i] = x \/ \E j \in DOMAIN s : a[i] = s[j]
  BY <1>1, <1>2
<1>4. IsInjective(s) /\ (\A j \in DOMAIN s : s[j] # x) => IsInjective(a)
  BY <1>1, <1>2 DEF IsInjective
<1> QED
  BY <1>3, <1>4 DEF a

LEMMA EntriesShifted ==
  ASSUME NEW S, NEW s \in Seq(S), s # <<>>
  PROVE  /\ \E j \in DOMAIN s : Head(s) = s[j]
         /\ \A i \in DOMAIN Tail(s) : \E j \in DOMAIN s : Tail(s)[i] = s[j]
         /\ IsInjective(s) => /\ IsInjective(Tail(s))
                              /\ \A i \in DOMAIN Tail(s) : Tail(s)[i] # Head(s)
<1> DEFINE a == Tail(s)
<1>1. /\ DOMAIN a = 1 .. (Len(s) - 1) /\ DOMAIN s = 1 .. Len(s)
      /\ Len(s) \in Nat \ {0} /\ Head(s) = s[1]
      /\ \A i \in DOMAIN a : a[i] = s[i + 1]
  BY Shift
<1> HIDE DEF a
<1>2. 1 \in DOMAIN s /\ \A i \in DOMAIN a : i \in Nat /\ i + 1 \in DOMAIN s /\ i + 1 # 1
  BY <1>1
<1>3. ASSUME IsInjective(s)
      PROVE  IsInjective(a) /\ \A i \in DOMAIN a : a[i] # Head(s)
  <2>1. \A i \in DOMAIN a : a[i] # Head(s)
    BY <1>1, <1>2, <1>3 DEF IsInjective
  <2>2. ASSUME NEW i \in DOMAIN a, NEW j \in DOMAIN a, a[i] = a[j]
        PROVE  i = j
    <3>1. i + 1 = j + 1
      BY <1>1, <1>2, <1>3, <2>2 DEF IsInjective
    <3> QED
      BY <1>2, <3>1
  <2> QED
    BY <2>1, <2>2 DEF IsInjective
<1> QED
  BY <1>1, <1>2, <1>3 DEF a

\* t is accepted and waits, or is refused: it was not known before.
LEMMA SlotInvEnqueues ==
  ASSUME TypeOK, TypeOK', SlotInv, NEW t \in Tasks, Enqueue(t)
  PROVE  SlotInv'
<1> DEFINE l == LaneOf[t]
<1>1. /\ l \in Lanes /\ stack \in Seq(Frames) /\ status[t] = "new"
      /\ queue \in [Lanes -> Seq(Tasks)]
      /\ UNCHANGED <<activeTaskIds, generation, taskGeneration>>
  BY LaneOfAssumption DEF Enqueue, TypeOK
<1>2. /\ status'[t] \in {"queued", "refused"}
      /\ \A u \in Tasks : u # t => status'[u] = status[u]
  BY DEF Enqueue, TypeOK
<1>3. SameTasks(stack')
  <2>1. CASE stack' = stack
    BY <2>1 DEF SameTasks
  <2>2. CASE DrainLane(l)
    BY <1>1, <2>2, DrainLaneSameTasks
  <2> QED
    BY <2>1, <2>2 DEF Enqueue
<1>4. \A m \in Lanes : \A i \in DOMAIN queue[m] :
        queue[m][i] \in Tasks /\ queue[m][i] # t /\ LaneOf[queue[m][i]] = m
          /\ status'[queue[m][i]] = "queued"
  BY <1>1, <1>2 DEF SlotInv, QueueHolds
<1>5. QueueHolds' /\ NoRepeats'
  <2>1. CASE queue' = queue
    BY <1>4, <2>1 DEF SlotInv, QueueHolds, NoRepeats
  <2>2. CASE /\ queue' = [queue EXCEPT ![l] = Append(@, t)]
             /\ status' = [status EXCEPT ![t] = "queued"]
    <3>1. queue'[l] = Append(queue[l], t) /\ \A m \in Lanes : m # l => queue'[m] = queue[m]
      BY <1>1, <2>2
    <3>2. status'[t] = "queued"
      BY <2>2 DEF TypeOK
    <3>3. /\ \A i \in DOMAIN queue'[l] :
               queue'[l][i] = t \/ \E j \in DOMAIN queue[l] : queue'[l][i] = queue[l][j]
          /\ IsInjective(queue[l]) => IsInjective(queue'[l])
      BY <1>1, <1>4, <3>1, EntriesAppended
    <3>4. ASSUME NEW m \in Lanes, NEW i \in DOMAIN queue'[m]
          PROVE  LaneOf[queue'[m][i]] = m /\ status'[queue'[m][i]] = "queued"
      <4>1. CASE m # l
        BY <1>4, <3>1, <4>1
      <4>2. CASE m = l
        BY <1>1, <1>4, <3>2, <3>3, <4>2
      <4> QED
        BY <4>1, <4>2
    <3>5. \A m \in Lanes : IsInjective(queue'[m])
      <4>1. \A m \in Lanes : IsInjective(queue[m])
        BY DEF SlotInv, NoRepeats
      <4> QED
        BY <3>1, <3>3, <4>1
    <3> QED
      BY <3>4, <3>5 DEF QueueHolds, NoRepeats
  <2> QED
    BY <2>1, <2>2 DEF Enqueue
<1>6. FramesRun'
  BY <1>1, <1>2, <1>3 DEF SlotInv, FramesRun, SameTasks
<1>7. NotAhead'
  BY <1>1 DEF SlotInv, NotAhead
<1>8. \A u \in Tasks : HoldsSlot(u)' <=> HoldsSlot(u)
  BY <1>1, <1>2, <1>3 DEF HoldsSlot, SameTasks
<1>9. SlotsHeld => SlotsHeld'
  BY <1>1, <1>8 DEF SlotsHeld
<1>10. SlotsAccounted'
  BY <1>9, SlotsPointwise DEF SlotInv, TypeOK
<1> QED
  BY <1>5, <1>6, <1>7, <1>10 DEF SlotInv

\* The head of the queue of l starts: it takes a slot and goes on the stack.
LEMMA SlotInvStarts ==
  ASSUME TypeOK, TypeOK', SlotInv, NEW l \in Lanes, PumpStart(l)
  PROVE  SlotInv'
<1> DEFINE t == Head(queue[l])
           x == <<"task", t>>
<1>1. /\ queue[l] # <<>> /\ stack \in Seq(Frames) /\ queue \in [Lanes -> Seq(Tasks)]
      /\ generation \in [Lanes -> Nat] /\ taskGeneration \in [Tasks -> Nat]
      /\ queue' = [queue EXCEPT ![l] = Tail(@)]
      /\ activeTaskIds' = [activeTaskIds EXCEPT ![l] = @ \cup {t}]
      /\ taskGeneration' = [taskGeneration EXCEPT ![t] = generation[l]]
      /\ status' = [status EXCEPT ![t] = "running"]
      /\ stack' = Append(stack, x)
      /\ generation' = generation
  BY DEF PumpStart, CanStart, TypeOK
<1>2. /\ t \in Tasks
      /\ \E j \in DOMAIN queue[l] : t = queue[l][j]
      /\ \A i \in DOMAIN Tail(queue[l]) : \E j \in DOMAIN queue[l] : Tail(queue[l])[i] = queue[l][j]
      /\ IsInjective(queue[l]) => /\ IsInjective(Tail(queue[l]))
                                  /\ \A i \in DOMAIN Tail(queue[l]) : Tail(queue[l])[i] # t
  BY <1>1, Shift, EntriesShifted
<1> HIDE DEF t
<1>3. LaneOf[t] = l /\ status[t] = "queued"
  BY <1>2 DEF SlotInv, QueueHolds
<1>4. /\ status'[t] = "running" /\ taskGeneration'[t] = generation[l]
      /\ \A u \in Tasks : u # t => /\ status'[u] = status[u]
                                   /\ taskGeneration'[u] = taskGeneration[u]
  BY <1>1, <1>2 DEF TypeOK
<1>5. ~HasFrame(stack, t) /\ ~SettlingIn(stack, t)
  <2>1. ~HasFrame(stack, t)
    BY <1>2, <1>3 DEF SlotInv, FramesRun
  <2> QED
    BY <2>1 DEF HasFrame, SettlingIn, TaskFrames
<1>6. /\ \A u \in Tasks : x \in TaskFrames(u) <=> u = t
      /\ \A u \in Tasks : x \notin {<<"resolved", u>>, <<"rejected", u>>}
      /\ x \in Frames
  BY <1>2 DEF TaskFrames, Frames
<1>7. /\ \A u \in Tasks : HasFrame(stack', u) <=> HasFrame(stack, u) \/ u = t
      /\ \A u \in Tasks : SettlingIn(stack', u) <=> SettlingIn(stack, u)
      /\ OneFrame(stack')
  <2>1. OneFrame(stack)
    BY DEF SlotInv, FramesRun
  <2> HIDE DEF x
  <2> QED
    BY <1>1, <1>5, <1>6, <2>1, FramePushed
<1>8. FramesRun'
  BY <1>4, <1>7 DEF SlotInv, FramesRun
<1>9. QueueHolds' /\ NoRepeats'
  <2>1. /\ queue'[l] = Tail(queue[l])
        /\ \A m \in Lanes : m # l => queue'[m] = queue[m]
    BY <1>1
  <2>2. \A m \in Lanes : IsInjective(queue[m])
    BY DEF SlotInv, NoRepeats
  <2>3. \A m \in Lanes : \A i \in DOMAIN queue[m] :
          queue[m][i] \in Tasks /\ LaneOf[queue[m][i]] = m /\ status[queue[m][i]] = "queued"
    BY <1>1 DEF SlotInv, QueueHolds
  <2>4. ASSUME NEW m \in Lanes, NEW i \in DOMAIN queue'[m]
        PROVE  /\ queue'[m][i] \in Tasks /\ queue'[m][i] # t
               /\ LaneOf[queue'[m][i]] = m /\ status[queue'[m][i]] = "queued"
    <3>1. CASE m # l
      BY <1>3, <2>1, <2>3, <3>1
    <3>2. CASE m = l
      <4>1. i \in DOMAIN Tail(queue[l]) /\ queue'[m][i] = Tail(queue[l])[i]
        BY <2>1, <2>4, <3>2
      <4>2. PICK j \in DOMAIN queue[l] : Tail(queue[l])[i] = queue[l][j]
        BY <1>2, <4>1
      <4>3. Tail(queue[l])[i] # t
        BY <1>2, <2>2, <4>1
      <4> QED
        BY <2>3, <3>2, <4>1, <4>2, <4>3
    <3> QED
      BY <3>1, <3>2
  <2>5. QueueHolds'
    BY <1>4, <2>4 DEF QueueHolds
  <2>6. \A m \in Lanes : IsInjective(queue'[m])
    BY <1>2, <2>1, <2>2
  <2> QED
    BY <2>5, <2>6 DEF NoRepeats
<1>10. NotAhead'
  <2>1. \A u \in Tasks : generation'[LaneOf[u]] = generation[LaneOf[u]]
    BY <1>1
  <2>2. generation[l] <= generation[l]
    BY <1>1
  <2>3. \A u \in Tasks : taskGeneration'[u] <= generation[LaneOf[u]]
    BY <1>3, <1>4, <2>2 DEF SlotInv, NotAhead
  <2> QED
    BY <2>1, <2>3 DEF NotAhead
<1>11. \A u \in Tasks : HoldsSlot(u)' <=> HoldsSlot(u) \/ u = t
  BY <1>1, <1>3, <1>4, <1>5, <1>7 DEF HoldsSlot
<1>12. \A m \in Lanes : \A u \in Tasks :
         u \in activeTaskIds'[m] <=> u \in activeTaskIds[m] \/ (m = l /\ u = t)
  BY <1>1 DEF TypeOK
<1>13. SlotsHeld => SlotsHeld'
  BY <1>3, <1>11, <1>12 DEF SlotsHeld
<1>14. SlotsAccounted'
  BY <1>13, SlotsPointwise DEF SlotInv, TypeOK
<1> QED
  BY <1>8, <1>9, <1>10, <1>14 DEF SlotInv

\* The entries of l that wait are rejected: none of them held a slot.
LEMMA SlotInvClears ==
  ASSUME TypeOK, TypeOK', SlotInv, NEW l \in Lanes, ClearLane(l)
  PROVE  SlotInv'
<1>1. /\ queue \in [Lanes -> Seq(Tasks)]
      /\ queue' = [queue EXCEPT ![l] = <<>>]
      /\ UNCHANGED <<activeTaskIds, generation, taskGeneration, stack>>
  BY DEF ClearLane, TypeOK
<1>2. \A t \in Tasks : \/ status'[t] = status[t]
                       \/ /\ status'[t] = "cleared"
                          /\ \E i \in DOMAIN queue[l] : t = queue[l][i]
  <2>1. \A t \in Tasks : t \in ToSet(queue[l]) => \E i \in DOMAIN queue[l] : t = queue[l][i]
    BY DEF ToSet
  <2>2. status' = [t \in Tasks |-> IF t \in ToSet(queue[l]) THEN "cleared" ELSE status[t]]
    BY DEF ClearLane
  <2>3. \A t \in Tasks : status'[t] = status[t] \/ (status'[t] = "cleared" /\ t \in ToSet(queue[l]))
    BY <2>2
  <2> QED
    BY <2>1, <2>3
<1>3. \A t \in Tasks : status'[t] = status[t]
                         \/ (LaneOf[t] = l /\ status[t] = "queued" /\ status'[t] = "cleared")
  BY <1>2 DEF SlotInv, QueueHolds
<1>4. QueueHolds' /\ NoRepeats'
  <2>1. queue'[l] = <<>> /\ \A m \in Lanes : m # l => queue'[m] = queue[m]
    BY <1>1
  <2>2. IsInjective(queue'[l]) /\ DOMAIN queue'[l] = {}
    BY <2>1 DEF IsInjective
  <2>3. NoRepeats'
    BY <2>1, <2>2 DEF SlotInv, NoRepeats
  <2>4. \A m \in Lanes : \A i \in DOMAIN queue[m] : queue[m][i] \in Tasks
    BY <1>1
  <2>5. QueueHolds'
    BY <1>3, <2>1, <2>2, <2>4 DEF SlotInv, QueueHolds
  <2> QED
    BY <2>3, <2>5
<1>5. \A t \in Tasks : status'[t] = "running" <=> status[t] = "running"
  BY <1>3
<1>6. FramesRun' /\ NotAhead'
  BY <1>1, <1>5 DEF SlotInv, FramesRun, NotAhead
<1>7. SlotsHeld => SlotsHeld'
  BY <1>1, <1>5 DEF SlotsHeld, HoldsSlot
<1>8. SlotsAccounted'
  BY <1>7, SlotsPointwise DEF SlotInv, TypeOK
<1> QED
  BY <1>4, <1>6, <1>8 DEF SlotInv

\* A reset empties every slot and makes an orphan of every task that runs:
\* none of them is of the generation that begins.
LEMMA SlotInvResets ==
  ASSUME TypeOK, TypeOK', SlotInv, ResetAllLanes
  PROVE  SlotInv'
<1>1. /\ generation \in [Lanes -> Nat] /\ taskGeneration \in [Tasks -> Nat]
      /\ generation' = [l \in Lanes |-> generation[l] + 1]
      /\ activeTaskIds' = [l \in Lanes |-> {}]
      /\ UNCHANGED <<queue, taskGeneration, status, stack>>
  BY DEF ResetAllLanes, TypeOK
<1>2. QueueHolds' /\ NoRepeats' /\ FramesRun'
  BY <1>1 DEF SlotInv, QueueHolds, NoRepeats, FramesRun
<1>3. \A t \in Tasks : taskGeneration[t] < generation'[LaneOf[t]]
  <2>1. ASSUME NEW t \in Tasks
        PROVE  taskGeneration[t] < generation'[LaneOf[t]]
    <3>1. LaneOf[t] \in Lanes
      BY LaneOfAssumption
    <3>2. taskGeneration[t] <= generation[LaneOf[t]]
      BY DEF SlotInv, NotAhead
    <3> QED
      BY <1>1, <3>1, <3>2
  <2> QED
    BY <2>1
<1>4. NotAhead' /\ \A t \in Tasks : taskGeneration'[t] # generation'[LaneOf[t]]
  <2>1. \A t \in Tasks : taskGeneration[t] \in Nat /\ generation'[LaneOf[t]] \in Nat
    BY <1>1, LaneOfAssumption
  <2> QED
    BY <1>1, <1>3, <2>1 DEF NotAhead
<1>5. SlotsHeld'
  BY <1>1, <1>4 DEF SlotsHeld, HoldsSlot
<1>6. SlotsAccounted'
  BY <1>5, SlotsPointwise DEF TypeOK
<1> QED
  BY <1>2, <1>4, <1>6 DEF SlotInv

LEMMA SlotInvStep == TypeOK /\ TypeOK' /\ SlotInv /\ [Next]_vars => SlotInv'
<1> SUFFICES ASSUME TypeOK, TypeOK', SlotInv, [Next]_vars
             PROVE  SlotInv'
  OBVIOUS
<1>s. stack \in Seq(Frames)
  BY DEF TypeOK
<1>1. ASSUME NEW t \in Tasks, Enqueue(t) \/ TaskThrows(t) \/ TaskFinishes(t) \/ Settle(t)
      PROVE  SlotInv'
  BY <1>1, SlotInvEnqueues, SlotInvThrows, SlotInvFinishes, SlotInvSettles
<1>2. ASSUME NEW t \in Tasks, TaskAwaits(t)
      PROVE  SlotInv'
  <2>1. /\ stack # <<>> /\ stack' = Front(stack) /\ Last(stack) = <<"task", t>>
        /\ UNCHANGED <<queue, activeTaskIds, generation, taskGeneration, status>>
    BY <1>2 DEF TaskAwaits, Executing, laneVars
  <2>2. \A u \in Tasks : Last(stack) \notin {<<"resolved", u>>, <<"rejected", u>>}
    BY <2>1
  <2> QED
    BY <2>1, <2>2, SlotInvPopped
<1>3. ASSUME NEW l \in Lanes, PumpReturn(l)
      PROVE  SlotInv'
  <2>1. /\ stack # <<>> /\ stack' = Front(stack) /\ Last(stack) = <<"pump", l>>
        /\ UNCHANGED <<queue, activeTaskIds, generation, taskGeneration, status>>
    BY <1>3 DEF PumpReturn, Executing, laneVars
  <2>2. \A u \in Tasks : Last(stack) \notin {<<"resolved", u>>, <<"rejected", u>>}
    BY <2>1
  <2> QED
    BY <2>1, <2>2, SlotInvPopped
<1>4. ASSUME NEW l \in Lanes, PumpStart(l) \/ ClearLane(l)
      PROVE  SlotInv'
  BY <1>4, SlotInvStarts, SlotInvClears
<1>5. ASSUME NEW l \in Lanes, SetConcurrency(l) \/ DrainAfterReset(l)
      PROVE  SlotInv'
  <2>1. /\ DrainLane(l)
        /\ UNCHANGED <<queue, activeTaskIds, generation, taskGeneration, status>>
    BY <1>5 DEF SetConcurrency, DrainAfterReset, laneVars
  <2>2. SameTasks(stack')
    BY <1>s, <2>1, DrainLaneSameTasks
  <2> QED
    BY <2>1, <2>2, SlotInvKept
<1>6. CASE ResetAllLanes
  BY <1>6, SlotInvResets
<1>7. CASE UNCHANGED <<laneVars, status, stack>>
  <2>1. SameTasks(stack')
    BY <1>7 DEF SameTasks
  <2>2. UNCHANGED <<queue, activeTaskIds, generation, taskGeneration, status>>
    BY <1>7 DEF laneVars
  <2> QED
    BY <2>1, <2>2, SlotInvKept
<1>8. MarkDraining \/ WaitForActiveTasks \/ WaitCheck \/ UNCHANGED vars
        => UNCHANGED <<laneVars, status, stack>>
  BY DEF MarkDraining, WaitForActiveTasks, WaitCheck, vars
<1> QED
  BY <1>1, <1>2, <1>3, <1>4, <1>5, <1>6, <1>7, <1>8 DEF Next

LEMMA SlotInvariant == Spec => []SlotInv
<1>1. Init => SlotInv
  <2> SUFFICES ASSUME Init PROVE SlotInv
    OBVIOUS
  <2>1. \A l \in Lanes : queue[l] = <<>> /\ DOMAIN queue[l] = {} /\ IsInjective(queue[l])
    BY DEF Init, IsInjective
  <2>2. stack = <<>> /\ \A t \in Tasks : status[t] # "running"
    BY DEF Init
  <2>3. QueueHolds /\ NoRepeats
    BY <2>1 DEF QueueHolds, NoRepeats
  <2>4. FramesRun
    BY <2>2 DEF FramesRun, OneFrame, HasFrame
  <2>5. NotAhead
    BY LaneOfAssumption DEF Init, NotAhead
  <2>6. SlotsAccounted
    BY <2>2 DEF Init, SlotsAccounted
  <2> QED
    BY <2>3, <2>4, <2>5, <2>6 DEF SlotInv
<1> QED
  BY <1>1, SlotInvStep, TypeCorrect, PTL DEF Spec

\* In every lane the occupied slots are exactly the tasks of its current
\* generation that run and whose promises are not about to settle: however
\* the pumps nest, whatever the prefixes throw and whenever the lanes are
\* reset, completeTask neither leaks a slot nor frees one it does not own.
THEOREM EverySlotAccounted == Spec => []SlotsAccounted
<1>1. SlotInv => SlotsAccounted
  BY DEF SlotInv
<1> QED
  BY <1>1, SlotInvariant, PTL

-----------------------------------------------------------------------------
(* Waiting for the tasks that execute. *)

\* A task that was executing when the wait began never waits or starts again;
\* while the wait lasts there is no reset, so that it keeps its slot until its
\* promise settles.
WaitInv ==
  /\ \A t \in activeAtStart : status[t] \in {"running", "resolved", "rejected"}
  /\ waitResult = "waiting" =>
       \A t \in activeAtStart :
         status[t] = "running" => taskGeneration[t] = generation[LaneOf[t]]
  /\ DrainedMeansFinished

\* A step between two checks of the wait: the tasks it waits for may only
\* finish, and none of them changes its generation.
LEMMA WaitGoesOn ==
  ASSUME WaitInv, UNCHANGED <<waitVars, generation>>,
         \A t \in activeAtStart :
           /\ status'[t] = status[t] \/ status'[t] \in {"resolved", "rejected"}
           /\ taskGeneration'[t] = taskGeneration[t]
  PROVE  WaitInv'
BY DEF WaitInv, DrainedMeansFinished, waitVars

\* The tasks of a queue are not those that were executing.
LEMMA WaitedNotQueued ==
  ASSUME QueueHolds, WaitInv, NEW l \in Lanes, NEW i \in DOMAIN queue[l]
  PROVE  queue[l][i] \notin activeAtStart
BY DEF QueueHolds, WaitInv

LEMMA WaitInvStep == TypeOK /\ SlotInv /\ WaitInv /\ [Next]_vars => WaitInv'
<1> SUFFICES ASSUME TypeOK, SlotInv, WaitInv, [Next]_vars
             PROVE  WaitInv'
  OBVIOUS
<1>t. /\ activeAtStart \subseteq Tasks /\ status \in [Tasks -> Statuses]
      /\ taskGeneration \in [Tasks -> Nat] /\ queue \in [Lanes -> Seq(Tasks)]
  BY DEF TypeOK
<1>q. QueueHolds /\ SlotsAccounted
  BY DEF SlotInv
<1>1. ASSUME NEW t \in Tasks, Enqueue(t)
      PROVE  WaitInv'
  <2>1. /\ status[t] = "new"
        /\ \E s : status' = [status EXCEPT ![t] = s]
        /\ UNCHANGED <<generation, taskGeneration, waitVars>>
    BY <1>1 DEF Enqueue
  <2>2. t \notin activeAtStart
    BY <2>1 DEF WaitInv
  <2> QED
    BY <1>t, <2>1, <2>2, WaitGoesOn
<1>2. ASSUME NEW t \in Tasks, Settle(t)
      PROVE  WaitInv'
  <2>1. /\ \E outcome \in {"resolved", "rejected"} : status' = [status EXCEPT ![t] = outcome]
        /\ UNCHANGED <<generation, taskGeneration, waitVars>>
    BY <1>2 DEF Settle, laneVars
  <2> QED
    BY <1>t, <2>1, WaitGoesOn
<1>3. ASSUME NEW l \in Lanes, PumpStart(l)
      PROVE  WaitInv'
  <2> DEFINE t == Head(queue[l])
  <2>1. /\ queue[l] # <<>>
        /\ status' = [status EXCEPT ![t] = "running"]
        /\ taskGeneration' = [taskGeneration EXCEPT ![t] = generation[l]]
        /\ UNCHANGED <<generation, waitVars>>
    BY <1>3 DEF PumpStart, CanStart
  <2>2. 1 \in DOMAIN queue[l] /\ t = queue[l][1]
    BY <1>t, <2>1
  <2>3. t \notin activeAtStart
    BY <1>q, <2>2, WaitedNotQueued
  <2> QED
    BY <1>t, <2>1, <2>3, WaitGoesOn
<1>4. ASSUME NEW l \in Lanes, ClearLane(l)
      PROVE  WaitInv'
  <2>1. /\ status' = [t \in Tasks |-> IF t \in ToSet(queue[l]) THEN "cleared" ELSE status[t]]
        /\ UNCHANGED <<generation, taskGeneration, waitVars>>
    BY <1>4 DEF ClearLane
  <2>2. \A t \in activeAtStart : t \notin ToSet(queue[l])
    BY <1>q, WaitedNotQueued DEF ToSet
  <2> QED
    BY <1>t, <2>1, <2>2, WaitGoesOn
<1>5. CASE ResetAllLanes
  BY <1>5 DEF ResetAllLanes, WaitInv, DrainedMeansFinished, waitVars
<1>6. CASE WaitForActiveTasks
  <2>1. /\ activeAtStart' = UNION {activeTaskIds[l] : l \in Lanes}
        /\ waitResult' = "drained" => activeAtStart' = {}
        /\ UNCHANGED <<status, taskGeneration, generation>>
    BY <1>6 DEF WaitForActiveTasks, laneVars
  <2>2. \A t \in activeAtStart' :
          status[t] = "running" /\ taskGeneration[t] = generation[LaneOf[t]]
    BY <1>q, <2>1 DEF SlotsAccounted
  <2> QED
    BY <2>1, <2>2 DEF WaitInv, DrainedMeansFinished
<1>7. CASE WaitCheck
  <2>1. /\ stack = <<>> /\ waitResult = "waiting"
        /\ (waitResult' = "timeout") \/ (waitResult' = "drained" /\ ~HasPending)
        /\ UNCHANGED <<status, taskGeneration, generation, activeAtStart>>
    BY <1>7 DEF WaitCheck, Idle, laneVars
  <2>2. ASSUME NEW t \in activeAtStart, status[t] = "running", waitResult' = "drained"
        PROVE  FALSE
    <3>1. t \in Tasks /\ LaneOf[t] \in Lanes /\ ~Settling(t)
      BY <1>t, <2>1, LaneOfAssumption DEF Settling
    <3>2. taskGeneration[t] = generation[LaneOf[t]]
      BY <2>1, <2>2 DEF WaitInv
    <3>3. t \in activeTaskIds[LaneOf[t]]
      BY <1>q, <2>2, <3>1, <3>2 DEF SlotsAccounted
    <3> QED
      BY <2>1, <2>2, <3>1, <3>3 DEF HasPending
  <2> QED
    BY <2>1, <2>2 DEF WaitInv, DrainedMeansFinished
<1>8. CASE UNCHANGED <<generation, taskGeneration, status, waitVars>>
  BY <1>8, WaitGoesOn
<1>9. ASSUME NEW t \in Tasks, TaskAwaits(t) \/ TaskThrows(t) \/ TaskFinishes(t)
      PROVE  WaitInv'
  <2>1. UNCHANGED <<generation, taskGeneration, status, waitVars>>
    BY <1>9 DEF TaskAwaits, TaskThrows, TaskFinishes, laneVars
  <2> QED
    BY <1>8, <2>1
<1>10. ASSUME NEW l \in Lanes, PumpReturn(l) \/ SetConcurrency(l) \/ DrainAfterReset(l)
       PROVE  WaitInv'
  <2>1. UNCHANGED <<generation, taskGeneration, status, waitVars>>
    BY <1>10 DEF PumpReturn, SetConcurrency, DrainAfterReset, laneVars
  <2> QED
    BY <1>8, <2>1
<1>11. CASE MarkDraining \/ UNCHANGED vars
  BY <1>8, <1>11 DEF MarkDraining, laneVars, vars
<1> QED
  BY <1>1, <1>2, <1>3, <1>4, <1>5, <1>6, <1>7, <1>9, <1>10, <1>11 DEF Next

\* waitForActiveTasks never answers "drained" while one of the tasks that
\* executed when it was called still runs: its poll looks only between events,
\* where no promise is half settled, and no reset orphans what it waits for.
THEOREM DrainedIsFinished == Spec => []DrainedMeansFinished
<1>1. Init => WaitInv
  BY DEF Init, WaitInv, DrainedMeansFinished
<1>2. WaitInv => DrainedMeansFinished
  BY DEF WaitInv
<1> QED
  BY <1>1, <1>2, WaitInvStep, TypeCorrect, SlotInvariant, PTL DEF Spec

-----------------------------------------------------------------------------
(* The queue keeps the contract of its lanes. *)

\* A completion releases the slot of t, if it holds one, and nothing else.
LEMMA CompleteTaskReleases ==
  ASSUME TypeOK, NEW t \in Tasks, NEW outcome, NEW below, CompleteTask(t, outcome, below),
         UNCHANGED <<queue, maxConcurrent, gatewayDraining, status>>
  PROVE  Contract!Release(t) \/ UNCHANGED Contract!vars
<1>1. LaneOf[t] \in Lanes /\ activeTaskIds \in [Lanes -> SUBSET Tasks]
  BY LaneOfAssumption DEF TypeOK
<1>2. CASE UNCHANGED activeTaskIds
  BY <1>2 DEF Contract!vars
<1>3. CASE /\ t \in activeTaskIds[LaneOf[t]]
           /\ activeTaskIds' = [activeTaskIds EXCEPT ![LaneOf[t]] = @ \ {t}]
  BY <1>3 DEF Contract!Release
<1>4. CASE /\ t \notin activeTaskIds[LaneOf[t]]
           /\ activeTaskIds' = [activeTaskIds EXCEPT ![LaneOf[t]] = @ \ {t}]
  <2>1. activeTaskIds[LaneOf[t]] \ {t} = activeTaskIds[LaneOf[t]]
    BY <1>4
  <2>2. activeTaskIds' = activeTaskIds
    BY <1>1, <1>4, <2>1
  <2> QED
    BY <2>2 DEF Contract!vars
<1> QED
  BY <1>2, <1>3, <1>4 DEF CompleteTask

\* A promise about to settle belongs to a running task that has no slot.
LEMMA SettleIsAllowed ==
  ASSUME TypeOK, SlotInv, NEW t \in Tasks, Settle(t)
  PROVE  Contract!Settle(t)
<1>1. PICK outcome \in {"resolved", "rejected"} :
        /\ Executing(outcome, t)
        /\ status' = [status EXCEPT ![t] = outcome]
  BY DEF Settle
<1>2. stack \in Seq(Frames) /\ stack # <<>> /\ Last(stack) = <<outcome, t>>
  BY <1>1 DEF Executing, TypeOK
<1>3. Last(stack) \in {<<"resolved", t>>, <<"rejected", t>>} /\ Last(stack) \in TaskFrames(t)
  BY <1>2 DEF TaskFrames
<1>4. SettlingIn(stack, t) /\ HasFrame(stack, t)
  BY <1>2, <1>3, FramePopped
<1>5. status[t] = "running" /\ t \notin activeTaskIds[LaneOf[t]]
  BY <1>4, LaneOfAssumption
     DEF SlotInv, FramesRun, SlotsAccounted, Settling, SettlingIn
<1>6. UNCHANGED <<queue, activeTaskIds, maxConcurrent, gatewayDraining>>
  BY DEF Settle, laneVars
<1> QED
  BY <1>1, <1>5, <1>6 DEF Contract!Settle

LEMMA ImplementsStep ==
  ASSUME TypeOK, SlotInv, [Next]_vars
  PROVE  [Contract!Next]_(Contract!vars)
<1>1. ASSUME NEW t \in Tasks, Enqueue(t)
      PROVE  Contract!Submit(t) \/ Contract!Refuse(t)
  BY <1>1 DEF Enqueue, Contract!Submit, Contract!Refuse
<1>2. ASSUME NEW t \in Tasks, TaskThrows(t) \/ TaskFinishes(t)
      PROVE  Contract!Release(t) \/ UNCHANGED Contract!vars
  BY <1>2, CompleteTaskReleases DEF TaskThrows, TaskFinishes
<1>3. ASSUME NEW t \in Tasks, Settle(t)
      PROVE  Contract!Settle(t)
  BY <1>3, SettleIsAllowed
<1>4. ASSUME NEW t \in Tasks, TaskAwaits(t)
      PROVE  UNCHANGED Contract!vars
  BY <1>4 DEF TaskAwaits, laneVars, Contract!vars
<1>5. ASSUME NEW l \in Lanes, PumpStart(l)
      PROVE  Contract!Start(l)
  <2>1. queue[l] # <<>> /\ Cardinality(activeTaskIds[l]) < maxConcurrent[l]
    BY <1>5 DEF PumpStart, CanStart
  <2>2. /\ queue' = [queue EXCEPT ![l] = Tail(@)]
        /\ activeTaskIds' = [activeTaskIds EXCEPT ![l] = @ \cup {Head(queue[l])}]
        /\ status' = [status EXCEPT ![Head(queue[l])] = "running"]
        /\ maxConcurrent' = maxConcurrent /\ gatewayDraining' = gatewayDraining
    BY <1>5 DEF PumpStart
  <2>3. (~gatewayDraining)' = ~gatewayDraining
    BY <2>2
  <2>4. Contract!Cardinality(activeTaskIds[l]) = Cardinality(activeTaskIds[l])
    BY DEF Contract!Cardinality, Cardinality
  <2> QED
    BY <2>1, <2>2, <2>3, <2>4 DEF Contract!Start
<1>6. ASSUME NEW l \in Lanes, SetConcurrency(l)
      PROVE  Contract!Resize(l)
  BY <1>6 DEF SetConcurrency, Contract!Resize
<1>7. ASSUME NEW l \in Lanes, ClearLane(l)
      PROVE  Contract!Clear(l)
  BY <1>7 DEF ClearLane, Contract!Clear, ToSet, Contract!ToSet
<1>8. ASSUME NEW l \in Lanes, PumpReturn(l) \/ DrainAfterReset(l)
      PROVE  UNCHANGED Contract!vars
  BY <1>8 DEF PumpReturn, DrainAfterReset, laneVars, Contract!vars
<1>9. MarkDraining => Contract!Close
  BY DEF MarkDraining, laneVars, Contract!Close
<1>10. ResetAllLanes => Contract!Restart
  BY DEF ResetAllLanes, Contract!Restart
<1>11. WaitForActiveTasks \/ WaitCheck \/ UNCHANGED vars => UNCHANGED Contract!vars
  BY DEF WaitForActiveTasks, WaitCheck, vars, laneVars, Contract!vars
<1> QED
  BY <1>1, <1>2, <1>3, <1>4, <1>5, <1>6, <1>7, <1>8, <1>9, <1>10, <1>11
     DEF Next, Contract!Next

\* Seen from its callers the re-entrant pump is a FIFO queue with slots: each
\* step of the queue is a step of the contract or changes nothing the callers
\* see (enqueueCommandInLane, drainLane, completeTask, resetAllLanes).
THEOREM QueueKeepsContract == Spec => ImplementsContract
<1>1. Init => Contract!Init
  BY DEF Init, Contract!Init
<1>2. TypeOK /\ SlotInv /\ [Next]_vars => [Contract!Next]_(Contract!vars)
  BY ImplementsStep
<1> QED
  BY <1>1, <1>2, TypeCorrect, SlotInvariant, PTL
     DEF Spec, ImplementsContract, Contract!Spec
=============================================================================
