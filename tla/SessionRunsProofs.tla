---------------------------- MODULE SessionRunsProofs ---------------------------
(***************************************************************************)
(* Proofs about SessionRuns, for any runs, sessions, lanes and restarts.    *)
(***************************************************************************)
EXTENDS SessionRuns, FiniteSetTheorems, TLAPS

SessionTask(r) == <<r, "session">>
GlobalTask(r) == <<r, "global">>

\* The task of r in the global lane waits or executes.
InGlobal(r) == status[GlobalTask(r)] \in {"queued", "running"}

Statuses == {"new", "queued", "running", "resolved", "rejected", "cleared", "refused"}
LaneTypes == /\ waiting \in [Lanes -> Seq(Tasks)]
             /\ slots \in [Lanes -> SUBSET Tasks]
             /\ cap \in [Lanes -> Nat \ {0}]
             /\ open \in BOOLEAN
             /\ status \in [Tasks -> Statuses]
RunTypes == /\ calling \in SUBSET Runs
            /\ body \in [Runs -> {"none", "preparing", "registered", "over"}]
            /\ gaveUp \in SUBSET FromCron
RegistryTypes == /\ active \in [Sessions -> SUBSET Runs]
                 /\ latest \in [Sessions -> SUBSET Runs]
                 /\ reset \in [Sessions -> {"idle", "waiting"}]
DrainTypes == /\ drain \in {"off", "draining", "over"}
              /\ snapshot \in SUBSET Tasks
              /\ waitTasks \in BOOLEAN /\ waitRuns \in BOOLEAN /\ timedOut \in BOOLEAN
              /\ restarts \in 0 .. MaxRestarts

\* What waits in a lane belongs there, is queued, and waits once; so does what
\* has a slot, which runs.
QueueHolds == \A l \in Lanes : \A i \in DOMAIN waiting[l] :
                LaneOf[waiting[l][i]] = l /\ status[waiting[l][i]] = "queued"
NoRepeats == \A l \in Lanes : \A i, j \in DOMAIN waiting[l] :
                waiting[l][i] = waiting[l][j] => i = j
SlotsRun == \A l \in Lanes : \A t \in slots[l] : LaneOf[t] = l /\ status[t] = "running"
LaneInv == LaneTypes /\ QueueHolds /\ NoRepeats /\ SlotsRun

\* The lane of a session has one slot.
OneSlot == \A s \in Sessions : cap[s] = 1 /\ \A t, u \in slots[s] : t = u

\* A run that executes has a running task in the global lane, and a run has a
\* task there only while its session task runs ...
BodyRuns == \A r \in Runs : Touching(r) => status[GlobalTask(r)] = "running"
Nested == \A r \in Runs : InGlobal(r) \/ r \in calling => status[SessionTask(r)] = "running"

\* ... and holds the slot of its session.
HoldsSession ==
  timedOut \/ \A r \in Runs : InGlobal(r) \/ r \in calling =>
                SessionTask(r) \in slots[SessionOf[r]]
ChainInv == OneSlot /\ BodyRuns /\ Nested /\ HoldsSession

\* A drain accepts nothing and waits for every run that has not ended.
DrainInv ==
  drain # "off" =>
    /\ ~open
    /\ restarts < MaxRestarts
    /\ drain = "over" => ~waitTasks
    /\ \A t \in snapshot : status[t] \notin {"new", "queued"}
    /\ timedOut \/ \A r \in Runs : InGlobal(r) => SessionTask(r) \in snapshot
    /\ timedOut \/ waitTasks \/ \A l \in Lanes : slots[l] \cap snapshot = {}

\* One run registered last for a session, one of the session's.
RegistryOfSession == \A s \in Sessions : /\ \A q, r \in latest[s] : q = r
                                         /\ \A r \in latest[s] : SessionOf[r] = s
RegistryInv == RegistryOfSession /\ RegistryNamesLatest /\ NoLostWaiter

IInv == /\ LaneInv /\ RunTypes /\ RegistryTypes /\ DrainTypes
        /\ ChainInv /\ DrainInv /\ RegistryInv

-----------------------------------------------------------------------------
(* Tasks and the steps of their lanes                                       *)

LEMMA TaskNames ==
  /\ \A r \in Runs : /\ SessionTask(r) \in Tasks /\ GlobalTask(r) \in Tasks
                     /\ LaneOf[SessionTask(r)] = SessionOf[r] /\ SessionOf[r] \in Sessions
                     /\ BodyOver(SessionTask(r)) = Ended(GlobalTask(r))
                     /\ BodyOver(GlobalTask(r)) = (body[r] = "over")
  /\ \A q, r \in Runs : /\ SessionTask(q) = SessionTask(r) => q = r
                        /\ GlobalTask(q) = GlobalTask(r) => q = r
                        /\ SessionTask(q) # GlobalTask(r)
<1>1. ASSUME NEW r \in Runs
      PROVE  SessionTask(r) \in Tasks /\ GlobalTask(r) \in Tasks
  BY DEF SessionTask, GlobalTask, Tasks
<1>2. ASSUME NEW r \in Runs
      PROVE  LaneOf[SessionTask(r)] = SessionOf[r]
  BY <1>1 DEF LaneOf, SessionTask
<1>3. ASSUME NEW r \in Runs
      PROVE  /\ BodyOver(SessionTask(r)) = Ended(GlobalTask(r))
             /\ BodyOver(GlobalTask(r)) = (body[r] = "over")
  BY DEF BodyOver, SessionTask, GlobalTask
<1>4. ASSUME NEW q \in Runs, NEW r \in Runs
      PROVE  /\ SessionTask(q) = SessionTask(r) => q = r
             /\ GlobalTask(q) = GlobalTask(r) => q = r
             /\ SessionTask(q) # GlobalTask(r)
  BY DEF SessionTask, GlobalTask
<1>5. \A r \in Runs : SessionOf[r] \in Sessions
  BY RunsAssumption
<1> QED
  BY <1>1, <1>2, <1>3, <1>4, <1>5

LEMMA TaskKinds ==
  ASSUME NEW t \in Tasks
  PROVE  /\ LaneOf[t] \in Lanes
         /\ \/ t[2] = "session" /\ t[1] \in Runs /\ t = SessionTask(t[1])
            \/ t[2] = "global" /\ t[1] \in Runs /\ t = GlobalTask(t[1])
                              /\ LaneOf[t] \in GlobalLanes
            \/ t[2] = "cron" /\ LaneOf[t] \in GlobalLanes
                            /\ \A r \in Runs : t # SessionTask(r) /\ t # GlobalTask(r)
<1>1. CASE \E r \in Runs : t = SessionTask(r)
  BY <1>1, TaskNames DEF SessionTask, Lanes
<1>2. CASE \E r \in Runs : t = GlobalTask(r)
  <2>1. PICK r \in Runs : t = GlobalTask(r)
    BY <1>2
  <2>2. t[1] = r /\ t[2] = "global"
    BY <2>1 DEF GlobalTask
  <2>3. LaneOf[t] = ResolveGlobalLane(LaneParam[r])
    BY <2>2 DEF LaneOf
  <2>4. LaneParam[r] \in GlobalLanes
    BY RunsAssumption DEF GlobalLanes
  <2>5. LaneOf[t] \in GlobalLanes
    BY <2>3, <2>4 DEF ResolveGlobalLane, GlobalLanes
  <2> QED
    BY <2>1, <2>2, <2>5 DEF Lanes
<1>3. CASE \E r \in FromCron : t = <<r, "cron">>
  <2>1. PICK r \in FromCron : t = <<r, "cron">>
    BY <1>3
  <2>2. t[2] = "cron" /\ LaneOf[t] = "cron"
    BY <2>1 DEF LaneOf
  <2>3. \A q \in Runs : t # SessionTask(q) /\ t # GlobalTask(q)
    BY <2>1 DEF SessionTask, GlobalTask
  <2> QED
    BY <2>2, <2>3 DEF Lanes, GlobalLanes
<1> QED
  BY <1>1, <1>2, <1>3 DEF Tasks, SessionTask, GlobalTask

LEMMA Disjoint == \A l \in GlobalLanes : l \notin Sessions
BY RunsAssumption DEF GlobalLanes

\* A task is submitted, or refused while a drain is under way.
LEMMA SubmitStep ==
  ASSUME LaneInv, NEW t \in Tasks, SubmitOrRefuse(t)
  PROVE  /\ LaneInv' /\ UNCHANGED <<slots, cap, open>>
         /\ status[t] = "new"
         /\ status'[t] \in {"queued", "refused"} /\ (~open => status'[t] = "refused")
         /\ \A u \in Tasks : u # t => status'[u] = status[u]
<1> USE DEF LaneInv
<1>1. /\ status[t] = "new" /\ UNCHANGED <<slots, cap, open>>
  BY DEF SubmitOrRefuse, Queue!Submit, Queue!Refuse
<1>2. LaneOf[t] \in Lanes
  BY TaskKinds
<1>3. CASE /\ open /\ waiting' = [waiting EXCEPT ![LaneOf[t]] = Append(@, t)]
           /\ status' = [status EXCEPT ![t] = "queued"]
  <2> DEFINE l == LaneOf[t]
             w == Append(waiting[l], t)
  <2>1. waiting[l] \in Seq(Tasks)
    BY <1>2 DEF LaneTypes
  <2>2. /\ w \in Seq(Tasks) /\ DOMAIN w = 1 .. (Len(waiting[l]) + 1)
        /\ DOMAIN waiting[l] = 1 .. Len(waiting[l]) /\ Len(waiting[l]) \in Nat
        /\ w[Len(waiting[l]) + 1] = t
        /\ \A i \in DOMAIN waiting[l] : w[i] = waiting[l][i]
    BY <2>1
  <2>3. \A i \in DOMAIN w : i \in DOMAIN waiting[l] \/ i = Len(waiting[l]) + 1
    BY <2>2
  <2>4. waiting'[l] = w /\ \A m \in Lanes : m # l => waiting'[m] = waiting[m]
    BY <1>2, <1>3 DEF LaneTypes
  <2>5. \A i \in DOMAIN waiting[l] : waiting[l][i] # t
    BY <1>1, <1>2 DEF QueueHolds
  <2> HIDE DEF w
  <2>6. status'[t] = "queued" /\ \A u \in Tasks : u # t => status'[u] = status[u]
    BY <1>3 DEF LaneTypes
  <2>7. LaneTypes'
    BY <1>1, <1>2, <1>3, <2>2 DEF LaneTypes, Statuses, w
  <2>8. QueueHolds'
    <3> SUFFICES ASSUME NEW m \in Lanes, NEW i \in DOMAIN waiting'[m]
                 PROVE  LaneOf[waiting'[m][i]] = m /\ status'[waiting'[m][i]] = "queued"
      BY DEF QueueHolds
    <3>1. CASE m # l
      <4>1. waiting'[m] = waiting[m] /\ waiting[m][i] \in Tasks
        BY <2>4, <3>1 DEF LaneTypes
      <4> QED
        BY <2>6, <4>1 DEF QueueHolds
    <3>2. CASE m = l /\ i \in DOMAIN waiting[l]
      <4>1. waiting'[m][i] = waiting[l][i] /\ waiting[l][i] \in Tasks
        BY <2>1, <2>2, <2>4, <3>2
      <4> QED
        BY <1>2, <2>6, <3>2, <4>1 DEF QueueHolds
    <3>3. CASE m = l /\ i = Len(waiting[l]) + 1
      BY <2>2, <2>4, <2>6, <3>3
    <3> QED
      BY <2>3, <2>4, <3>1, <3>2, <3>3
  <2>9. NoRepeats'
    <3> SUFFICES ASSUME NEW m \in Lanes, NEW i \in DOMAIN waiting'[m],
                        NEW j \in DOMAIN waiting'[m], waiting'[m][i] = waiting'[m][j]
                 PROVE  i = j
      BY DEF NoRepeats
    <3>1. CASE m # l
      BY <2>4, <3>1 DEF NoRepeats
    <3>2. CASE m = l
      <4>1. i \in DOMAIN w /\ j \in DOMAIN w /\ w[i] = w[j]
        BY <2>4, <3>2
      <4>2. \A k \in DOMAIN waiting[l] : w[k] # t /\ w[k] = waiting[l][k]
        BY <2>2, <2>5
      <4>3. CASE i \in DOMAIN waiting[l] /\ j \in DOMAIN waiting[l]
        BY <1>2, <4>1, <4>2, <4>3 DEF NoRepeats
      <4>4. CASE i = Len(waiting[l]) + 1 \/ j = Len(waiting[l]) + 1
        BY <2>2, <2>3, <4>1, <4>2, <4>4
      <4> QED
        BY <2>3, <4>1, <4>3, <4>4
    <3> QED
      BY <3>1, <3>2
  <2>10. SlotsRun'
    BY <1>1, <2>6 DEF SlotsRun, LaneTypes
  <2> QED
    BY <1>1, <1>3, <2>6, <2>7, <2>8, <2>9, <2>10
<1>4. CASE ~open /\ waiting' = waiting /\ status' = [status EXCEPT ![t] = "refused"]
  <2>1. status'[t] = "refused" /\ \A u \in Tasks : u # t => status'[u] = status[u]
    BY <1>4 DEF LaneTypes
  <2>2. LaneTypes'
    BY <1>1, <1>4 DEF LaneTypes, Statuses
  <2>3. NoRepeats' /\ SlotsRun'
    BY <1>1, <1>4, <2>1 DEF NoRepeats, SlotsRun, LaneTypes
  <2>4. QueueHolds'
    <3>1. \A l \in Lanes : \A i \in DOMAIN waiting[l] : waiting[l][i] \in Tasks
      BY DEF LaneTypes
    <3> QED
      BY <1>1, <1>4, <2>1, <3>1 DEF QueueHolds
  <2> QED
    BY <1>1, <1>4, <2>1, <2>2, <2>3, <2>4
<1> QED
  BY <1>3, <1>4 DEF SubmitOrRefuse, Queue!Submit, Queue!Refuse

\* The first task that waits in l takes a slot.
LEMMA StartStep ==
  ASSUME LaneInv, NEW l \in Lanes, Queue!Start(l)
  PROVE  LET t == Head(waiting[l]) IN
         /\ LaneInv' /\ UNCHANGED <<cap, open>>
         /\ t \in Tasks /\ LaneOf[t] = l /\ status[t] = "queued"
         /\ slots' = [slots EXCEPT ![l] = @ \cup {t}]
         /\ status'[t] = "running"
         /\ \A u \in Tasks : u # t => status'[u] = status[u]
         /\ Cardinality(slots[l]) < cap[l]
<1> USE DEF LaneInv
<1> DEFINE w == waiting[l]
           t == Head(w)
<1>1. /\ w # <<>> /\ UNCHANGED <<cap, open>>
      /\ waiting' = [waiting EXCEPT ![l] = Tail(w)]
      /\ slots' = [slots EXCEPT ![l] = @ \cup {t}]
      /\ status' = [status EXCEPT ![t] = "running"]
  BY DEF Queue!Start
<1>2. Cardinality(slots[l]) < cap[l]
  <2>1. Queue!Cardinality(slots[l]) = Cardinality(slots[l])
    BY DEF Queue!Cardinality, Cardinality
  <2> QED
    BY <2>1 DEF Queue!Start
<1>3. w \in Seq(Tasks)
  BY DEF LaneTypes
<1>4. /\ Tail(w) \in Seq(Tasks) /\ t \in Tasks /\ t = w[1] /\ 1 \in DOMAIN w
      /\ DOMAIN Tail(w) = 1 .. (Len(w) - 1) /\ DOMAIN w = 1 .. Len(w) /\ Len(w) \in Nat
      /\ \A i \in DOMAIN Tail(w) : Tail(w)[i] = w[i + 1]
  BY <1>1, <1>3
<1>5. \A i \in DOMAIN Tail(w) : i + 1 \in DOMAIN w /\ i + 1 # 1 /\ i \in Int
  BY <1>4
<1>6. LaneOf[t] = l /\ status[t] = "queued"
  BY <1>4 DEF QueueHolds
<1> DEFINE rest == Tail(w)
<1>7. \A i \in DOMAIN rest : rest[i] = w[i + 1] /\ rest[i] # t /\ rest[i] \in Tasks
  BY <1>3, <1>4, <1>5 DEF NoRepeats
<1>8. /\ status'[t] = "running" /\ \A u \in Tasks : u # t => status'[u] = status[u]
      /\ waiting'[l] = rest /\ \A m \in Lanes : m # l => waiting'[m] = waiting[m]
      /\ slots'[l] = slots[l] \cup {t} /\ \A m \in Lanes : m # l => slots'[m] = slots[m]
  BY <1>1, <1>4 DEF LaneTypes
<1>9. LaneTypes'
  BY <1>1, <1>4 DEF LaneTypes, Statuses
<1> HIDE DEF rest, t
<1>10. QueueHolds'
  <2> SUFFICES ASSUME NEW m \in Lanes, NEW i \in DOMAIN waiting'[m]
               PROVE  LaneOf[waiting'[m][i]] = m /\ status'[waiting'[m][i]] = "queued"
    BY DEF QueueHolds
  <2>1. CASE m # l
    <3>1. waiting'[m] = waiting[m] /\ waiting[m][i] \in Tasks
      BY <1>8, <2>1 DEF LaneTypes
    <3>2. waiting[m][i] # t
      BY <1>6, <1>8, <2>1, <3>1 DEF QueueHolds
    <3> QED
      BY <1>8, <3>1, <3>2 DEF QueueHolds
  <2>2. CASE m = l
    <3>1. i \in DOMAIN rest /\ waiting'[m][i] = rest[i]
      BY <1>8, <2>2
    <3>2. LaneOf[rest[i]] = l /\ status[rest[i]] = "queued"
      <4>1. i + 1 \in DOMAIN w
        BY <1>5, <3>1 DEF rest
      <4>2. LaneOf[w[i + 1]] = l /\ status[w[i + 1]] = "queued"
        BY <4>1 DEF QueueHolds
      <4> QED
        BY <1>7, <3>1, <4>2
    <3> QED
      BY <1>7, <1>8, <2>2, <3>1, <3>2
  <2> QED
    BY <2>1, <2>2
<1>11. NoRepeats'
  <2> SUFFICES ASSUME NEW m \in Lanes, NEW i \in DOMAIN waiting'[m],
                      NEW j \in DOMAIN waiting'[m], waiting'[m][i] = waiting'[m][j]
               PROVE  i = j
    BY DEF NoRepeats
  <2>1. CASE m # l
    BY <1>8, <2>1 DEF NoRepeats
  <2>2. CASE m = l
    <3>1. w[i + 1] = w[j + 1] /\ i + 1 \in DOMAIN w /\ j + 1 \in DOMAIN w /\ i \in Int /\ j \in Int
      BY <1>5, <1>7, <1>8, <2>2 DEF rest
    <3>2. i + 1 = j + 1
      BY <3>1 DEF NoRepeats
    <3> QED
      BY <3>1, <3>2
  <2> QED
    BY <2>1, <2>2
<1>12. SlotsRun'
  <2> SUFFICES ASSUME NEW m \in Lanes, NEW u \in slots'[m]
               PROVE  LaneOf[u] = m /\ status'[u] = "running"
    BY DEF SlotsRun
  <2>1. CASE u = t
    BY <1>6, <1>8, <2>1 DEF SlotsRun
  <2>2. CASE u # t
    <3>1. u \in slots[m] /\ u \in Tasks
      BY <1>8, <2>2 DEF LaneTypes
    <3> QED
      BY <1>8, <2>2, <3>1 DEF SlotsRun
  <2> QED
    BY <2>1, <2>2
<1> QED
  BY <1>1, <1>2, <1>4, <1>6, <1>8, <1>9, <1>10, <1>11, <1>12 DEF t

LEMMA ReleaseStep ==
  ASSUME LaneInv, NEW t \in Tasks, Queue!Release(t)
  PROVE  /\ LaneInv' /\ UNCHANGED <<waiting, cap, open, status>>
         /\ slots' = [slots EXCEPT ![LaneOf[t]] = @ \ {t}]
<1>1. /\ UNCHANGED <<waiting, cap, open, status>>
      /\ slots' = [slots EXCEPT ![LaneOf[t]] = @ \ {t}]
  BY DEF Queue!Release
<1>2. LaneTypes' /\ QueueHolds' /\ NoRepeats' /\ SlotsRun'
  BY <1>1, TaskKinds DEF LaneInv, LaneTypes, QueueHolds, NoRepeats, SlotsRun
<1> QED
  BY <1>1, <1>2 DEF LaneInv

LEMMA SettleStep ==
  ASSUME LaneInv, NEW t \in Tasks, Queue!Settle(t)
  PROVE  /\ LaneInv' /\ UNCHANGED <<waiting, slots, cap, open>>
         /\ status[t] = "running" /\ status'[t] \in {"resolved", "rejected"}
         /\ \A u \in Tasks : u # t => status'[u] = status[u]
<1> USE DEF LaneInv
<1>1. /\ UNCHANGED <<waiting, slots, cap, open>>
      /\ status[t] = "running" /\ t \notin slots[LaneOf[t]]
  BY DEF Queue!Settle
<1>2. PICK outcome \in {"resolved", "rejected"} : status' = [status EXCEPT ![t] = outcome]
  BY DEF Queue!Settle
<1>3. status'[t] = outcome /\ \A u \in Tasks : u # t => status'[u] = status[u]
  BY <1>2 DEF LaneTypes
<1>4. LaneTypes'
  BY <1>1, <1>2 DEF LaneTypes, Statuses
<1>5. QueueHolds'
  <2>1. \A l \in Lanes : \A i \in DOMAIN waiting[l] :
          waiting[l][i] \in Tasks /\ waiting[l][i] # t
    BY <1>1 DEF QueueHolds, LaneTypes
  <2> QED
    BY <1>1, <1>3, <2>1 DEF QueueHolds
<1>6. NoRepeats'
  BY <1>1 DEF NoRepeats
<1>7. SlotsRun'
  <2>1. \A l \in Lanes : \A u \in slots[l] : u \in Tasks /\ u # t
    BY <1>1 DEF SlotsRun, LaneTypes
  <2> QED
    BY <1>1, <1>3, <2>1 DEF SlotsRun
<1> QED
  BY <1>1, <1>3, <1>4, <1>5, <1>6, <1>7

LEMMA ClearStep ==
  ASSUME LaneInv, NEW s \in Sessions, Queue!Clear(s)
  PROVE  /\ LaneInv' /\ UNCHANGED <<slots, cap, open>>
         /\ \A t \in Tasks : \/ status'[t] = status[t]
                            \/ /\ status[t] = "queued" /\ status'[t] = "cleared"
                               /\ \A r \in Runs : t # GlobalTask(r)
<1> USE DEF LaneInv
<1>1. /\ s \in Lanes /\ UNCHANGED <<slots, cap, open>>
      /\ waiting' = [waiting EXCEPT ![s] = <<>>]
      /\ status' = [t \in Tasks |-> IF t \in Queue!ToSet(waiting[s]) THEN "cleared" ELSE status[t]]
  BY DEF Queue!Clear, Lanes
<1>2. \A t \in Queue!ToSet(waiting[s]) :
        \E i \in DOMAIN waiting[s] : waiting[s][i] = t
  BY DEF Queue!ToSet
<1>3. \A t \in Queue!ToSet(waiting[s]) : LaneOf[t] = s /\ status[t] = "queued"
  BY <1>1, <1>2 DEF QueueHolds
<1>4. \A t \in Tasks : IF t \in Queue!ToSet(waiting[s])
                       THEN status'[t] = "cleared" ELSE status'[t] = status[t]
  BY <1>1
<1>5. \A r \in Runs : LaneOf[GlobalTask(r)] # s
  <2> SUFFICES ASSUME NEW r \in Runs PROVE LaneOf[GlobalTask(r)] # s
    OBVIOUS
  <2>1. GlobalTask(r)[2] = "global" /\ GlobalTask(r) \in Tasks
    BY TaskNames DEF GlobalTask
  <2>2. LaneOf[GlobalTask(r)] \in GlobalLanes
    BY <2>1, TaskKinds
  <2> QED
    BY <2>2, Disjoint
<1>6. waiting'[s] = <<>> /\ \A l \in Lanes : l # s => waiting'[l] = waiting[l]
  BY <1>1 DEF LaneTypes
<1>7. LaneTypes'
  <2>1. <<>> \in Seq(Tasks)
    OBVIOUS
  <2>2. waiting' \in [Lanes -> Seq(Tasks)]
    BY <1>1, <2>1 DEF LaneTypes
  <2>3. status' \in [Tasks -> Statuses]
    BY <1>1 DEF LaneTypes, Statuses
  <2> QED
    BY <1>1, <2>2, <2>3 DEF LaneTypes
<1>8. NoRepeats'
  BY <1>6 DEF NoRepeats
<1>9. QueueHolds'
  <2> SUFFICES ASSUME NEW l \in Lanes, NEW i \in DOMAIN waiting'[l]
               PROVE  LaneOf[waiting'[l][i]] = l /\ status'[waiting'[l][i]] = "queued"
    BY DEF QueueHolds
  <2>1. l # s /\ waiting'[l] = waiting[l]
    BY <1>6
  <2>2. /\ waiting[l][i] \in Tasks /\ LaneOf[waiting[l][i]] = l
        /\ status[waiting[l][i]] = "queued"
    BY <2>1 DEF QueueHolds, LaneTypes
  <2> QED
    BY <1>3, <1>4, <2>1, <2>2
<1>10. SlotsRun'
  <2>1. \A l \in Lanes : \A u \in slots[l] : u \in Tasks /\ status[u] = "running"
    BY DEF SlotsRun, LaneTypes
  <2> QED
    BY <1>1, <1>3, <1>4, <2>1 DEF SlotsRun
<1> QED
  BY <1>1, <1>3, <1>4, <1>5, <1>7, <1>8, <1>9, <1>10

\* A lane gets another cap, submissions are closed, or a restart opens them
\* and takes every slot back.
LEMMA ConfigureStep ==
  ASSUME LaneInv, UNCHANGED <<waiting, status>>, open' \in BOOLEAN,
         cap' \in [Lanes -> Nat \ {0}],
         slots' \in {slots, [l \in Lanes |-> {}]}
  PROVE  LaneInv'
BY DEF LaneInv, LaneTypes, QueueHolds, NoRepeats, SlotsRun

-----------------------------------------------------------------------------
(* What most steps leave alone                                              *)

\* A step after which fewer runs are in a global lane, or called, and those
\* that are still hold what they held.
LEMMA ChainKept ==
  ASSUME ChainInv,
         \A s \in Sessions : cap'[s] = cap[s] /\ slots'[s] \subseteq slots[s],
         \A r \in Runs : Touching(r)' => Touching(r) /\ status'[GlobalTask(r)] = "running",
         \A r \in Runs : InGlobal(r)' \/ r \in calling' =>
           /\ InGlobal(r) \/ r \in calling
           /\ status'[SessionTask(r)] = status[SessionTask(r)]
           /\ timedOut' \/ (SessionTask(r) \in slots[SessionOf[r]]
                             => SessionTask(r) \in slots'[SessionOf[r]]),
         timedOut => timedOut'
  PROVE  ChainInv'
<1>1. OneSlot'
  BY DEF ChainInv, OneSlot
<1>2. BodyRuns'
  BY DEF BodyRuns
<1>3. Nested'
  BY DEF ChainInv, Nested
<1>4. HoldsSession'
  BY DEF ChainInv, HoldsSession
<1> QED
  BY <1>1, <1>2, <1>3, <1>4 DEF ChainInv

\* A step inside the drain, if there is one, that starts only what waited.
LEMMA DrainKept ==
  ASSUME DrainInv, snapshot \subseteq Tasks, slots' \in [Lanes -> SUBSET Tasks],
         UNCHANGED <<drain, open, restarts, snapshot, waitTasks>>, timedOut => timedOut',
         \A t \in Tasks : status'[t] \in {"new", "queued"} => status[t] \in {"new", "queued"},
         drain # "off" => \A r \in Runs : InGlobal(r)' => InGlobal(r),
         \A l \in Lanes : \A t \in slots'[l] : t \in slots[l] \/ status[t] = "queued"
  PROVE  DrainInv'
<1> SUFFICES ASSUME drain # "off" PROVE DrainInv'
  BY DEF DrainInv
<1>1. /\ ~open' /\ restarts' < MaxRestarts /\ (drain' = "over" => ~waitTasks')
      /\ timedOut' \/ \A r \in Runs : InGlobal(r)' => SessionTask(r) \in snapshot'
  BY DEF DrainInv
<1>2. \A t \in snapshot' : status'[t] \notin {"new", "queued"}
  BY DEF DrainInv
<1>3. timedOut' \/ waitTasks' \/ \A l \in Lanes : slots'[l] \cap snapshot' = {}
  <2> SUFFICES ASSUME ~timedOut', ~waitTasks', NEW l \in Lanes, NEW t \in slots'[l],
                      t \in snapshot'
               PROVE  FALSE
    OBVIOUS
  <2>1. ~timedOut /\ ~waitTasks /\ t \in snapshot
    OBVIOUS
  <2> QED
    BY <2>1 DEF DrainInv
<1> QED
  BY <1>1, <1>2, <1>3 DEF DrainInv

\* A step of the lanes that no handle is about.
LEMMA RegistryKept ==
  ASSUME RegistryInv, active' = active, latest' = latest,
         \A s \in Sessions : \A r \in latest[s] :
            body'[r] = "registered" <=> body[r] = "registered",
         \A s \in Sessions : reset'[s] = "waiting" => reset[s] = "waiting" \/ active[s] # {}
  PROVE  RegistryInv'
BY DEF RegistryInv, RegistryOfSession, RegistryNamesLatest, NoLostWaiter

-----------------------------------------------------------------------------
(* Every step keeps the invariant                                           *)

\* A cron or a session task is submitted.
LEMMA OuterSubmitted ==
  ASSUME IInv, NEW t \in Tasks, \A r \in Runs : t # GlobalTask(r), SubmitOrRefuse(t),
         UNCHANGED <<runVars, drainVars>>
  PROVE  IInv'
<1>1. /\ LaneInv' /\ UNCHANGED <<slots, cap, open>>
      /\ status[t] = "new" /\ status'[t] \in {"queued", "refused"}
      /\ \A u \in Tasks : u # t => status'[u] = status[u]
  BY SubmitStep DEF IInv
<1>2. RunTypes' /\ RegistryTypes' /\ DrainTypes'
  BY DEF IInv, RunTypes, RegistryTypes, DrainTypes, runVars, drainVars
<1>3. /\ \A r \in Runs : status'[GlobalTask(r)] = status[GlobalTask(r)]
      /\ \A r \in Runs : InGlobal(r)' <=> InGlobal(r)
      /\ \A r \in Runs : Touching(r)' <=> Touching(r)
  BY <1>1, TaskNames DEF InGlobal, Touching, runVars
<1>4. \A r \in Runs : InGlobal(r) \/ r \in calling => SessionTask(r) # t
  BY <1>1 DEF IInv, ChainInv, Nested
<1>5. ChainInv'
  <2>1. \A r \in Runs : Touching(r)' => status'[GlobalTask(r)] = "running"
    BY <1>3 DEF IInv, ChainInv, BodyRuns
  <2>2. \A r \in Runs : InGlobal(r)' \/ r \in calling' =>
           /\ InGlobal(r) \/ r \in calling
           /\ status'[SessionTask(r)] = status[SessionTask(r)]
    BY <1>1, <1>3, <1>4, TaskNames DEF runVars
  <2> QED
    BY <1>1, <1>3, <2>1, <2>2, ChainKept DEF IInv, drainVars
<1>6. DrainInv'
  BY <1>1, <1>3, DrainKept DEF IInv, DrainTypes, LaneInv, LaneTypes, drainVars
<1>7. RegistryInv'
  BY RegistryKept DEF IInv, runVars
<1> QED
  BY <1>1, <1>2, <1>5, <1>6, <1>7 DEF IInv

LEMMA RequestStep ==
  ASSUME IInv, NEW r \in Runs, Request(r) \/ EnqueueSession(r)
  PROVE  IInv'
<1>1. /\ Outermost(r) \in Tasks /\ SessionTask(r) \in Tasks
      /\ \A q \in Runs : Outermost(r) # GlobalTask(q) /\ SessionTask(r) # GlobalTask(q)
  BY DEF Outermost, Tasks, GlobalTask, SessionTask
<1> QED
  BY <1>1, OuterSubmitted DEF Request, EnqueueSession, SessionTask

\* The called session task submits its global task, or is refused.
LEMMA EnqueueGlobalStep ==
  ASSUME IInv, NEW r \in Runs, EnqueueGlobal(r)
  PROVE  IInv'
<1> DEFINE t == GlobalTask(r)
<1>1. /\ r \in calling /\ calling' = {}
      /\ UNCHANGED <<body, gaveUp, active, latest, reset, drainVars>>
      /\ SubmitOrRefuse(t)
  BY DEF EnqueueGlobal, GlobalTask
<1>2. /\ LaneInv' /\ UNCHANGED <<slots, cap, open>>
      /\ status[t] = "new"
      /\ status'[t] \in {"queued", "refused"} /\ (~open => status'[t] = "refused")
      /\ \A u \in Tasks : u # t => status'[u] = status[u]
  BY <1>1, SubmitStep, TaskNames DEF IInv
<1>3. RunTypes' /\ RegistryTypes' /\ DrainTypes'
  BY <1>1 DEF IInv, RunTypes, RegistryTypes, DrainTypes, drainVars
<1> HIDE DEF t
<1>4. /\ \A q \in Runs : q # r => /\ status'[GlobalTask(q)] = status[GlobalTask(q)]
                                  /\ InGlobal(q)' <=> InGlobal(q)
      /\ \A q \in Runs : status'[SessionTask(q)] = status[SessionTask(q)]
  BY <1>2, TaskNames DEF InGlobal, t
<1>5. \A q \in Runs : Touching(q)' => /\ Touching(q) /\ q # r
                                      /\ status[GlobalTask(q)] = "running"
  BY <1>1, <1>2 DEF IInv, ChainInv, BodyRuns, Touching, t
<1>6. ChainInv'
  <2>1. \A q \in Runs : Touching(q)' => Touching(q) /\ status'[GlobalTask(q)] = "running"
    BY <1>4, <1>5
  <2>2. \A q \in Runs : InGlobal(q)' \/ q \in calling' => InGlobal(q) \/ q \in calling
    BY <1>1, <1>4
  <2> QED
    BY <1>1, <1>2, <1>4, <2>1, <2>2, ChainKept DEF IInv, drainVars
<1>7. DrainInv'
  <2>1. drain # "off" => \A q \in Runs : InGlobal(q)' => InGlobal(q)
    <3>1. drain # "off" => status'[t] = "refused"
      BY <1>2 DEF IInv, DrainInv
    <3> QED
      BY <1>4, <3>1 DEF InGlobal, t
  <2> QED
    BY <1>1, <1>2, <2>1, DrainKept DEF IInv, DrainTypes, LaneInv, LaneTypes, drainVars
<1>8. RegistryInv'
  BY <1>1, RegistryKept DEF IInv
<1> QED
  BY <1>2, <1>3, <1>6, <1>7, <1>8 DEF IInv

LEMMA StartKeeps ==
  ASSUME IInv, NEW l \in Lanes, Start(l)
  PROVE  IInv'
<1> DEFINE t == Head(waiting[l])
<1>1. /\ calling = {} /\ UNCHANGED <<gaveUp, active, latest, reset, drainVars>>
      /\ calling' = (IF t[2] = "session" THEN {t[1]} ELSE {})
      /\ body' = IF t[2] = "global" THEN [body EXCEPT ![t[1]] = "preparing"] ELSE body
  BY DEF Start, Event
<1>2. /\ LaneInv' /\ UNCHANGED <<cap, open>>
      /\ t \in Tasks /\ LaneOf[t] = l /\ status[t] = "queued"
      /\ slots' = [slots EXCEPT ![l] = @ \cup {t}]
      /\ status'[t] = "running"
      /\ \A u \in Tasks : u # t => status'[u] = status[u]
      /\ Cardinality(slots[l]) < cap[l]
  BY StartStep DEF Start, IInv
<1> HIDE DEF t
<1>3. /\ \A m \in Lanes : m # l => slots'[m] = slots[m]
      /\ slots'[l] = slots[l] \cup {t}
  BY <1>2 DEF IInv, LaneInv, LaneTypes
<1>4. \A q \in Runs : InGlobal(q)' <=> InGlobal(q)
  BY <1>2, TaskNames DEF InGlobal
<1>5. \A q \in Runs : q \in calling' => SessionTask(q) = t /\ SessionOf[q] = l
  BY <1>1, <1>2, TaskKinds, TaskNames
<1>6. \A q \in Runs : \/ body'[q] = body[q] /\ GlobalTask(q) # t
                      \/ body'[q] = "preparing" /\ GlobalTask(q) = t
  <2> SUFFICES ASSUME NEW q \in Runs
               PROVE  \/ body'[q] = body[q] /\ GlobalTask(q) # t
                      \/ body'[q] = "preparing" /\ GlobalTask(q) = t
    OBVIOUS
  <2>1. CASE t[2] = "global" /\ t[1] \in Runs /\ t = GlobalTask(t[1])
    BY <1>1, <2>1, TaskNames DEF IInv, RunTypes
  <2>2. CASE t[2] = "session" \/ t[2] = "cron"
    <3>1. body' = body
      BY <1>1, <2>2
    <3>2. GlobalTask(q) # t
      BY <2>2 DEF GlobalTask
    <3> QED
      BY <3>1, <3>2
  <2> QED
    BY <1>2, <2>1, <2>2, TaskKinds
<1>7. RunTypes' /\ RegistryTypes' /\ DrainTypes'
  <2>1. calling' \in SUBSET Runs
    BY <1>1, <1>2, TaskKinds
  <2>2. body' \in [Runs -> {"none", "preparing", "registered", "over"}]
    BY <1>1, <1>2, TaskKinds DEF IInv, RunTypes
  <2> QED
    BY <1>1, <2>1, <2>2 DEF IInv, RunTypes, RegistryTypes, DrainTypes, drainVars
<1>8. OneSlot'
  <2> SUFFICES ASSUME NEW s \in Sessions
               PROVE  cap'[s] = 1 /\ \A u, v \in slots'[s] : u = v
    BY DEF OneSlot
  <2>1. cap[s] = 1 /\ (\A u, v \in slots[s] : u = v) /\ s \in Lanes
    BY DEF IInv, ChainInv, OneSlot, Lanes
  <2>2. CASE s # l
    BY <1>2, <1>3, <2>1, <2>2
  <2>3. CASE s = l
    <3>1. IsFiniteSet(slots[s])
      <4>1. CASE slots[s] = {}
        BY <4>1, FS_EmptySet
      <4>2. CASE slots[s] # {}
        <5>1. PICK u \in slots[s] : TRUE
          BY <4>2
        <5>2. slots[s] = {u}
          BY <2>1, <5>1
        <5>3. IsFiniteSet({u})
          BY FS_Singleton
        <5> QED
          BY <5>2, <5>3
      <4> QED
        BY <4>1, <4>2
    <3>2. Cardinality(slots[s]) = 0
      BY <1>2, <2>1, <2>3, <3>1, FS_CardinalityType
    <3>3. slots[s] = {}
      BY <3>1, <3>2, FS_EmptySet
    <3> QED
      BY <1>2, <1>3, <2>1, <2>3, <3>3
  <2> QED
    BY <2>2, <2>3
<1>9. BodyRuns'
  <2> SUFFICES ASSUME NEW q \in Runs, Touching(q)'
               PROVE  status'[GlobalTask(q)] = "running"
    BY DEF BodyRuns
  <2>1. CASE GlobalTask(q) = t
    BY <1>2, <2>1
  <2>2. CASE body'[q] = body[q] /\ GlobalTask(q) # t
    <3>1. Touching(q)
      BY <2>2 DEF Touching
    <3> QED
      BY <1>2, <2>2, <3>1, TaskNames DEF IInv, ChainInv, BodyRuns
  <2> QED
    BY <1>6, <2>1, <2>2
<1>10. Nested' /\ HoldsSession'
  <2>1. ASSUME NEW q \in Runs, InGlobal(q)' \/ q \in calling'
        PROVE  /\ status'[SessionTask(q)] = "running"
               /\ timedOut' \/ SessionTask(q) \in slots'[SessionOf[q]]
    <3>1. CASE q \in calling'
      BY <1>2, <1>3, <1>5, <3>1
    <3>2. CASE InGlobal(q)
      <4>1. status[SessionTask(q)] = "running"
        BY <3>2 DEF IInv, ChainInv, Nested
      <4>2. SessionTask(q) # t /\ status'[SessionTask(q)] = "running"
        BY <1>2, <4>1, TaskNames
      <4>3. timedOut \/ SessionTask(q) \in slots[SessionOf[q]]
        BY <3>2 DEF IInv, ChainInv, HoldsSession
      <4>4. SessionOf[q] \in Lanes
        BY TaskNames DEF Lanes
      <4> QED
        BY <1>1, <1>3, <4>2, <4>3, <4>4 DEF drainVars
    <3> QED
      BY <1>4, <2>1, <3>1, <3>2
  <2> QED
    BY <2>1 DEF Nested, HoldsSession
<1>11. DrainInv'
  <2>1. \A u \in Tasks : status'[u] \in {"new", "queued"} => status[u] \in {"new", "queued"}
    BY <1>2
  <2>2. \A m \in Lanes : \A u \in slots'[m] : u \in slots[m] \/ status[u] = "queued"
    BY <1>2, <1>3
  <2> QED
    BY <1>1, <1>2, <1>4, <2>1, <2>2, DrainKept
       DEF IInv, DrainTypes, LaneInv, LaneTypes, drainVars
<1>12. RegistryInv'
  <2>1. \A s \in Sessions : latest[s] \subseteq Runs
    BY DEF IInv, RegistryTypes
  <2>2. \A r \in Runs : GlobalTask(r) = t => body[r] # "registered"
    BY <1>2 DEF IInv, ChainInv, BodyRuns, Touching
  <2>3. \A s \in Sessions : \A r \in latest[s] :
          body'[r] = "registered" <=> body[r] = "registered"
    BY <1>6, <2>1, <2>2
  <2> QED
    BY <1>1, <2>3, RegistryKept DEF IInv
<1> QED
  BY <1>2, <1>7, <1>8, <1>9, <1>10, <1>11, <1>12 DEF IInv, ChainInv

\* A slot is given back only by a task that awaits nobody.
LEMMA ReleaseKeeps ==
  ASSUME IInv, NEW t \in Tasks, Release(t)
  PROVE  IInv'
<1>1. /\ calling = {} /\ BodyOver(t) /\ UNCHANGED <<runVars, drainVars>>
      /\ LaneInv' /\ UNCHANGED <<waiting, cap, open, status>>
      /\ slots' = [slots EXCEPT ![LaneOf[t]] = @ \ {t}]
  BY ReleaseStep DEF Release, Event, IInv
<1>2. /\ \A m \in Lanes : slots'[m] \subseteq slots[m]
      /\ \A m \in Lanes : \A u \in slots[m] : u # t => u \in slots'[m]
  BY <1>1, TaskKinds DEF IInv, LaneInv, LaneTypes
<1>3. RunTypes' /\ RegistryTypes' /\ DrainTypes'
  BY <1>1 DEF IInv, RunTypes, RegistryTypes, DrainTypes, runVars, drainVars
<1>4. \A q \in Runs : (InGlobal(q)' <=> InGlobal(q)) /\ (Touching(q)' <=> Touching(q))
  BY <1>1 DEF InGlobal, Touching, runVars
<1>5. \A q \in Runs : InGlobal(q) => SessionTask(q) # t
  BY <1>1, TaskNames DEF InGlobal, Ended
<1>6. ChainInv'
  <2>1. \A q \in Runs : Touching(q)' => status'[GlobalTask(q)] = "running"
    BY <1>1, <1>4 DEF IInv, ChainInv, BodyRuns
  <2>2. \A q \in Runs : InGlobal(q)' \/ q \in calling' =>
          /\ InGlobal(q) \/ q \in calling
          /\ SessionTask(q) \in slots[SessionOf[q]] => SessionTask(q) \in slots'[SessionOf[q]]
    BY <1>1, <1>2, <1>4, <1>5, TaskNames DEF runVars, Lanes
  <2>3. \A s \in Sessions : cap'[s] = cap[s] /\ slots'[s] \subseteq slots[s]
    BY <1>1, <1>2 DEF Lanes
  <2> QED
    BY <1>1, <1>4, <2>1, <2>2, <2>3, ChainKept DEF IInv, drainVars
<1>7. DrainInv'
  BY <1>1, <1>2, <1>4, DrainKept DEF IInv, DrainTypes, LaneInv, LaneTypes, drainVars
<1>8. RegistryInv'
  BY <1>1, RegistryKept DEF IInv, runVars
<1> QED
  BY <1>1, <1>3, <1>6, <1>7, <1>8 DEF IInv

\* ... and so is a promise settled.
LEMMA SettleKeeps ==
  ASSUME IInv, NEW t \in Tasks, Settle(t)
  PROVE  IInv'
<1>1. /\ calling = {} /\ BodyOver(t) /\ UNCHANGED <<runVars, drainVars>>
      /\ LaneInv' /\ UNCHANGED <<waiting, slots, cap, open>>
      /\ status[t] = "running" /\ status'[t] \in {"resolved", "rejected"}
      /\ \A u \in Tasks : u # t => status'[u] = status[u]
  BY SettleStep DEF Settle, Event, IInv
<1>2. RunTypes' /\ RegistryTypes' /\ DrainTypes'
  BY <1>1 DEF IInv, RunTypes, RegistryTypes, DrainTypes, runVars, drainVars
<1>3. \A q \in Runs : (InGlobal(q)' => InGlobal(q)) /\ (Touching(q)' <=> Touching(q))
  BY <1>1, TaskNames DEF InGlobal, Touching, runVars
<1>4. \A q \in Runs : /\ InGlobal(q) => SessionTask(q) # t
                      /\ Touching(q) => GlobalTask(q) # t
  BY <1>1, TaskNames DEF InGlobal, Ended, Touching
<1>5. ChainInv'
  <2>1. \A q \in Runs : Touching(q)' => status'[GlobalTask(q)] = "running"
    BY <1>1, <1>3, <1>4, TaskNames DEF IInv, ChainInv, BodyRuns
  <2>2. \A q \in Runs : InGlobal(q)' \/ q \in calling' =>
          /\ InGlobal(q)
          /\ status'[SessionTask(q)] = status[SessionTask(q)]
    BY <1>1, <1>3, <1>4, TaskNames DEF runVars
  <2> QED
    BY <1>1, <1>3, <2>1, <2>2, ChainKept DEF IInv, drainVars
<1>6. DrainInv'
  BY <1>1, <1>3, DrainKept DEF IInv, DrainTypes, LaneInv, LaneTypes, drainVars
<1>7. RegistryInv'
  BY <1>1, RegistryKept DEF IInv, runVars
<1> QED
  BY <1>1, <1>2, <1>5, <1>6, <1>7 DEF IInv

\* A reset clears what waits in the lane of its session.
LEMMA BeginResetStep ==
  ASSUME IInv, NEW s \in Sessions, BeginReset(s)
  PROVE  IInv'
<1>1. /\ UNCHANGED <<calling, body, gaveUp, active, latest, drainVars>>
      /\ reset' = [reset EXCEPT ![s] = IF active[s] = {} THEN "idle" ELSE "waiting"]
      /\ LaneInv' /\ UNCHANGED <<slots, cap, open>>
      /\ \A t \in Tasks : \/ status'[t] = status[t]
                         \/ /\ status[t] = "queued" /\ status'[t] = "cleared"
                            /\ \A r \in Runs : t # GlobalTask(r)
  BY ClearStep DEF BeginReset, IInv
<1>2. RunTypes' /\ RegistryTypes' /\ DrainTypes'
  BY <1>1 DEF IInv, RunTypes, RegistryTypes, DrainTypes, drainVars
<1>3. \A q \in Runs : /\ status'[GlobalTask(q)] = status[GlobalTask(q)]
                      /\ InGlobal(q)' <=> InGlobal(q)
                      /\ Touching(q)' <=> Touching(q)
  BY <1>1, TaskNames DEF InGlobal, Touching
<1>4. ChainInv'
  <2>1. \A q \in Runs : Touching(q)' => Touching(q) /\ status'[GlobalTask(q)] = "running"
    BY <1>3 DEF IInv, ChainInv, BodyRuns
  <2>2. \A q \in Runs : InGlobal(q)' \/ q \in calling' =>
          /\ InGlobal(q) \/ q \in calling
          /\ status'[SessionTask(q)] = status[SessionTask(q)]
    BY <1>1, <1>3, TaskNames DEF IInv, ChainInv, Nested
  <2> QED
    BY <1>1, <2>1, <2>2, ChainKept DEF IInv, drainVars
<1>5. DrainInv'
  BY <1>1, <1>3, DrainKept DEF IInv, DrainTypes, LaneInv, LaneTypes, drainVars
<1>6. RegistryInv'
  BY <1>1, RegistryKept DEF IInv, RegistryTypes
<1> QED
  BY <1>1, <1>2, <1>4, <1>5, <1>6 DEF IInv

\* A step of a run, or of the drain, that leaves the lanes alone.
LEMMA OutsideLanes ==
  ASSUME IInv, UNCHANGED <<laneVars, calling, drain, snapshot, restarts>>,
         RunTypes', RegistryTypes', DrainTypes', RegistryInv',
         \A r \in Runs : Touching(r)' => Touching(r),
         timedOut' \/ (timedOut' = timedOut /\ (waitTasks' = waitTasks
                         \/ \A l \in Lanes : slots[l] \cap snapshot = {})),
         waitTasks' => waitTasks,
         timedOut => timedOut'
  PROVE  IInv'
<1>1. LaneInv'
  BY DEF IInv, LaneInv, LaneTypes, QueueHolds, NoRepeats, SlotsRun, laneVars
<1>2. \A r \in Runs : InGlobal(r)' <=> InGlobal(r)
  BY DEF InGlobal, laneVars
<1>3. ChainInv'
  <2>1. \A r \in Runs : Touching(r)' => Touching(r) /\ status'[GlobalTask(r)] = "running"
    BY DEF IInv, ChainInv, BodyRuns, laneVars
  <2> QED
    BY <1>2, <2>1, ChainKept DEF IInv, laneVars
<1>4. DrainInv'
  <2> SUFFICES ASSUME drain # "off" PROVE DrainInv'
    BY DEF DrainInv
  <2>1. /\ ~open' /\ restarts' < MaxRestarts /\ (drain' = "over" => ~waitTasks')
        /\ \A t \in snapshot' : status'[t] \notin {"new", "queued"}
    BY DEF IInv, DrainInv, laneVars
  <2>2. timedOut' \/ \A r \in Runs : InGlobal(r)' => SessionTask(r) \in snapshot'
    BY <1>2 DEF IInv, DrainInv
  <2>3. timedOut' \/ waitTasks' \/ \A l \in Lanes : slots'[l] \cap snapshot' = {}
    BY DEF IInv, DrainInv, laneVars
  <2> QED
    BY <2>1, <2>2, <2>3 DEF DrainInv
<1> QED
  BY <1>1, <1>3, <1>4 DEF IInv

LEMMA RegisterStep ==
  ASSUME IInv, NEW r \in Runs, Register(r)
  PROVE  IInv'
<1>1. /\ body[r] = "preparing" /\ body' = [body EXCEPT ![r] = "registered"]
      /\ active' = [active EXCEPT ![SessionOf[r]] = {r}]
      /\ latest' = [latest EXCEPT ![SessionOf[r]] = {r}]
      /\ UNCHANGED <<laneVars, calling, gaveUp, reset, drainVars>>
  BY DEF Register
<1>2. SessionOf[r] \in Sessions
  BY TaskNames
<1>3. /\ body'[r] = "registered" /\ \A q \in Runs : q # r => body'[q] = body[q]
      /\ active'[SessionOf[r]] = {r} /\ latest'[SessionOf[r]] = {r}
      /\ \A s \in Sessions : s # SessionOf[r] =>
           active'[s] = active[s] /\ latest'[s] = latest[s]
  BY <1>1, <1>2 DEF IInv, RunTypes, RegistryTypes
<1>4. RunTypes' /\ RegistryTypes' /\ DrainTypes'
  BY <1>1, <1>2 DEF IInv, RunTypes, RegistryTypes, DrainTypes, drainVars
<1>5. \A q \in Runs : Touching(q)' => Touching(q)
  BY <1>1, <1>3 DEF Touching
<1>6. \A s \in Sessions : /\ latest[s] \subseteq Runs
                          /\ s # SessionOf[r] => r \notin latest[s]
  BY DEF IInv, RegistryTypes, RegistryInv, RegistryOfSession
<1>7. RegistryOfSession'
  BY <1>3 DEF IInv, RegistryInv, RegistryOfSession
<1>8. RegistryNamesLatest'
  BY <1>3, <1>6 DEF IInv, RegistryInv, RegistryNamesLatest
<1>9. NoLostWaiter'
  BY <1>1, <1>3 DEF IInv, RegistryInv, NoLostWaiter
<1> QED
  BY <1>1, <1>4, <1>5, <1>7, <1>8, <1>9, OutsideLanes DEF RegistryInv, drainVars

\* The end of a run removes its own handle only: if another run of the session
\* registered since, that one keeps its handle and its waiters.
LEMMA EndBodyStep ==
  ASSUME IInv, NEW r \in Runs, EndBody(r)
  PROVE  IInv'
<1> DEFINE s == SessionOf[r]
           live(x) == {q \in latest[x] : body[q] = "registered"}
<1>1. /\ body' = [body EXCEPT ![r] = "over"]
      /\ UNCHANGED <<laneVars, calling, gaveUp, latest, drainVars>>
  BY DEF EndBody
<1>2. s \in Sessions /\ \A x \in Sessions : active[x] = live(x)
  BY TaskNames DEF IInv, RegistryInv, RegistryNamesLatest
<1>3. \/ /\ active' = [active EXCEPT ![s] = {}]
         /\ reset' = [reset EXCEPT ![s] = "idle"]
         /\ r \in active[s]
      \/ r \notin active[s] /\ UNCHANGED <<active, reset>>
  <2>1. body[r] = "preparing" => r \notin active[s]
    BY <1>2
  <2>2. body[r] = "registered" => Unregister(r)
    BY DEF EndBody
  <2>3. body[r] = "preparing" \/ body[r] = "registered"
    BY DEF EndBody
  <2>4. body[r] = "preparing" => UNCHANGED <<active, reset>>
    BY DEF EndBody
  <2> QED
    BY <2>1, <2>2, <2>3, <2>4 DEF Unregister
<1>4. /\ body'[r] = "over" /\ \A q \in Runs : q # r => body'[q] = body[q]
  BY <1>1 DEF IInv, RunTypes
<1>5. RunTypes' /\ RegistryTypes' /\ DrainTypes'
  BY <1>1, <1>2, <1>3 DEF IInv, RunTypes, RegistryTypes, DrainTypes, drainVars
<1>6. \A q \in Runs : Touching(q)' => Touching(q)
  BY <1>4 DEF Touching
<1>7. \A x \in Sessions : /\ latest[x] \subseteq Runs /\ \A p, q \in latest[x] : p = q
                          /\ x # s => r \notin latest[x]
  BY DEF IInv, RegistryTypes, RegistryInv, RegistryOfSession
<1>8. \/ active'[s] = {} /\ reset'[s] = "idle" /\ r \in active[s]
      \/ active'[s] = active[s] /\ reset'[s] = reset[s] /\ r \notin active[s]
  BY <1>2, <1>3 DEF IInv, RegistryTypes
<1>9. \A x \in Sessions \ {s} : active'[x] = active[x] /\ reset'[x] = reset[x]
  BY <1>2, <1>3 DEF IInv, RegistryTypes
<1> HIDE DEF s
<1>10. RegistryNamesLatest'
  <2> SUFFICES ASSUME NEW x \in Sessions
               PROVE  active'[x] = {q \in latest[x] : body'[q] = "registered"}
    BY <1>1 DEF RegistryNamesLatest
  <2>1. {q \in latest[x] : body'[q] = "registered"} = live(x) \ {r}
    BY <1>4, <1>7
  <2>2. CASE x # s
    BY <1>2, <1>7, <1>9, <2>1, <2>2
  <2>3. CASE x = s /\ r \in active[s]
    BY <1>2, <1>7, <1>8, <2>1, <2>3
  <2>4. CASE x = s /\ r \notin active[s]
    BY <1>2, <1>8, <2>1, <2>4
  <2> QED
    BY <2>2, <2>3, <2>4
<1>11. RegistryOfSession'
  BY <1>1 DEF IInv, RegistryInv, RegistryOfSession
<1>12. NoLostWaiter'
  BY <1>8, <1>9 DEF IInv, RegistryInv, NoLostWaiter
<1> QED
  BY <1>1, <1>5, <1>6, <1>10, <1>11, <1>12, OutsideLanes DEF RegistryInv, drainVars

LEMMA TimeoutSteps ==
  ASSUME IInv,
         \/ \E r \in Runs : CronJobTimeout(r)
         \/ \E s \in Sessions : ResetTimeout(s)
         \/ TasksDrained \/ RunsDrained \/ DrainTimeout
  PROVE  IInv'
<1>1. /\ UNCHANGED <<laneVars, calling, body, active, latest, drain, snapshot, restarts>>
      /\ waitTasks' => waitTasks
      /\ timedOut => timedOut'
      /\ \/ timedOut'
         \/ timedOut' = timedOut /\ waitTasks' = waitTasks
         \/ timedOut' = timedOut /\ ActiveTasks \cap snapshot = {}
  <2>1. CASE \E r \in Runs : CronJobTimeout(r)
    BY <2>1 DEF CronJobTimeout, drainVars
  <2>2. CASE \E s \in Sessions : ResetTimeout(s)
    BY <2>2 DEF ResetTimeout, drainVars
  <2>3. CASE TasksDrained
    BY <2>3 DEF TasksDrained, runVars
  <2>4. CASE RunsDrained
    BY <2>4 DEF RunsDrained, runVars
  <2>5. CASE DrainTimeout
    <3>1. timedOut' /\ ~waitTasks'
      BY <2>5 DEF DrainTimeout
    <3> QED
      BY <2>5, <3>1 DEF DrainTimeout, runVars
  <2> QED
    BY <2>1, <2>2, <2>3, <2>4, <2>5
<1>2. ActiveTasks \cap snapshot = {} => \A l \in Lanes : slots[l] \cap snapshot = {}
  BY DEF ActiveTasks
<1>3. RunTypes'
  BY DEF IInv, RunTypes, CronJobTimeout, ResetTimeout, TasksDrained, RunsDrained,
         DrainTimeout, runVars
<1>4. RegistryTypes' /\ RegistryInv'
  <2>1. \/ UNCHANGED reset
        \/ \E s \in Sessions : reset' = [reset EXCEPT ![s] = "idle"]
    BY DEF CronJobTimeout, ResetTimeout, TasksDrained, RunsDrained, DrainTimeout, runVars
  <2>2. /\ reset' \in [Sessions -> {"idle", "waiting"}]
        /\ \A x \in Sessions : reset'[x] = "waiting" => reset[x] = "waiting"
    BY <2>1 DEF IInv, RegistryTypes
  <2>3. RegistryTypes'
    BY <1>1, <2>2 DEF IInv, RegistryTypes
  <2> QED
    BY <1>1, <2>2, <2>3, RegistryKept DEF IInv
<1>5. DrainTypes'
  BY DEF IInv, DrainTypes, CronJobTimeout, ResetTimeout, TasksDrained, RunsDrained,
         DrainTimeout, drainVars
<1>6. \A r \in Runs : Touching(r)' => Touching(r)
  BY <1>1 DEF Touching
<1> QED
  BY <1>1, <1>2, <1>3, <1>4, <1>5, <1>6, OutsideLanes

\* A configuration changes the cap of the main lane, which is no session's.
LEMMA ApplyLaneConcurrencyStep ==
  ASSUME IInv, ApplyLaneConcurrency
  PROVE  IInv'
<1>1. UNCHANGED <<waiting, slots, open, status, runVars, drainVars>>
  BY DEF ApplyLaneConcurrency, Queue!Resize
<1>2. PICK n \in Requested : cap' = [cap EXCEPT !["main"] = IF n < 1 THEN 1 ELSE n]
  BY DEF ApplyLaneConcurrency, Queue!Resize
<1>3. (IF n < 1 THEN 1 ELSE n) \in Nat \ {0}
  BY RunsAssumption
<1>4. cap' \in [Lanes -> Nat \ {0}] /\ \A s \in Sessions : cap'[s] = cap[s]
  <2>1. cap \in [Lanes -> Nat \ {0}] /\ "main" \notin Sessions
    BY Disjoint DEF IInv, LaneInv, LaneTypes, GlobalLanes
  <2> QED
    BY <1>2, <1>3, <2>1 DEF Lanes
<1>5. LaneInv'
  BY <1>1, <1>4, ConfigureStep DEF IInv, LaneInv, LaneTypes
<1>6. RunTypes' /\ RegistryTypes' /\ DrainTypes'
  BY <1>1 DEF IInv, RunTypes, RegistryTypes, DrainTypes, runVars, drainVars
<1>7. \A q \in Runs : (InGlobal(q)' <=> InGlobal(q)) /\ (Touching(q)' <=> Touching(q))
  BY <1>1 DEF InGlobal, Touching, runVars
<1>8. ChainInv'
  <2>1. \A q \in Runs : Touching(q)' => Touching(q) /\ status'[GlobalTask(q)] = "running"
    BY <1>1, <1>7 DEF IInv, ChainInv, BodyRuns
  <2> QED
    BY <1>1, <1>4, <1>7, <2>1, ChainKept DEF IInv, runVars, drainVars
<1>9. DrainInv'
  BY <1>1, <1>7, DrainKept DEF IInv, DrainTypes, LaneInv, LaneTypes, drainVars
<1>10. RegistryInv'
  BY <1>1, RegistryKept DEF IInv, runVars
<1> QED
  BY <1>5, <1>6, <1>8, <1>9, <1>10 DEF IInv

\* Every run that is in a global lane when a drain begins is waited for.
LEMMA BeginDrainStep ==
  ASSUME IInv, BeginDrain
  PROVE  IInv'
<1>1. /\ drain = "off" /\ restarts < MaxRestarts /\ calling = {}
      /\ UNCHANGED <<waiting, slots, cap, status, runVars, timedOut, restarts>>
      /\ open' = FALSE /\ drain' = "draining" /\ snapshot' = ActiveTasks
      /\ waitTasks' = (ActiveTasks # {}) /\ waitRuns' = (RegisteredRuns # {})
  BY DEF BeginDrain, Queue!Close, Event
<1>2. LaneInv'
  BY <1>1, ConfigureStep DEF IInv, LaneInv, LaneTypes
<1>3. \A l \in Lanes : \A t \in slots[l] : t \in ActiveTasks
  BY DEF ActiveTasks
<1>4. \A t \in ActiveTasks : t \in Tasks /\ status[t] = "running"
  BY DEF ActiveTasks, IInv, LaneInv, LaneTypes, SlotsRun
<1>5. RunTypes' /\ RegistryTypes'
  BY <1>1 DEF IInv, RunTypes, RegistryTypes, runVars
<1>6. DrainTypes'
  <2>1. waitTasks' \in BOOLEAN /\ waitRuns' \in BOOLEAN
    BY <1>1
  <2>2. timedOut' \in BOOLEAN /\ restarts' \in 0 .. MaxRestarts
    BY <1>1 DEF IInv, DrainTypes
  <2> QED
    BY <1>1, <1>4, <2>1, <2>2 DEF DrainTypes
<1>7. \A q \in Runs : (InGlobal(q)' <=> InGlobal(q)) /\ (Touching(q)' <=> Touching(q))
  BY <1>1 DEF InGlobal, Touching, runVars
<1>8. ChainInv'
  <2>1. \A q \in Runs : Touching(q)' => Touching(q) /\ status'[GlobalTask(q)] = "running"
    BY <1>1, <1>7 DEF IInv, ChainInv, BodyRuns
  <2> QED
    BY <1>1, <1>7, <2>1, ChainKept DEF IInv, runVars
<1>9. DrainInv'
  <2>1. timedOut \/ \A r \in Runs : InGlobal(r)' => SessionTask(r) \in ActiveTasks
    BY <1>3, <1>7, TaskNames DEF IInv, ChainInv, HoldsSession, Lanes
  <2>2. waitTasks' \/ \A l \in Lanes : slots[l] \cap ActiveTasks = {}
    BY <1>1
  <2>3. ~open' /\ drain' # "over"
    BY <1>1
  <2>4. \A t \in snapshot' : status'[t] \notin {"new", "queued"}
    BY <1>1, <1>4
  <2> QED
    BY <1>1, <2>1, <2>2, <2>3, <2>4 DEF DrainInv
<1>10. RegistryInv'
  BY <1>1, RegistryKept DEF IInv, runVars
<1> QED
  BY <1>2, <1>5, <1>6, <1>8, <1>9, <1>10 DEF IInv

LEMMA EndDrainStep ==
  ASSUME IInv, EndDrain
  PROVE  IInv'
<1>1. /\ drain = "draining" /\ ~waitTasks /\ drain' = "over"
      /\ UNCHANGED <<laneVars, runVars, snapshot, waitTasks, waitRuns, timedOut, restarts>>
  BY DEF EndDrain
<1>2. LaneInv' /\ RunTypes' /\ RegistryTypes' /\ DrainTypes'
  BY <1>1 DEF IInv, LaneInv, LaneTypes, QueueHolds, NoRepeats, SlotsRun, laneVars,
              RunTypes, RegistryTypes, DrainTypes, runVars
<1>3. \A q \in Runs : (InGlobal(q)' <=> InGlobal(q)) /\ (Touching(q)' <=> Touching(q))
  BY <1>1 DEF InGlobal, Touching, runVars, laneVars
<1>4. ChainInv'
  <2>1. \A q \in Runs : Touching(q)' => Touching(q) /\ status'[GlobalTask(q)] = "running"
    BY <1>1, <1>3 DEF IInv, ChainInv, BodyRuns, laneVars
  <2> QED
    BY <1>1, <1>3, <2>1, ChainKept DEF IInv, runVars, laneVars
<1>5. DrainInv'
  BY <1>1, <1>3 DEF IInv, DrainInv, laneVars
<1>6. RegistryInv'
  BY <1>1, RegistryKept DEF IInv, runVars
<1> QED
  BY <1>2, <1>4, <1>5, <1>6 DEF IInv

\* A drain that nobody gave up leaves no run in a global lane.
LEMMA OverIsQuiet ==
  ASSUME IInv, drain = "over", ~timedOut
  PROVE  \A r \in Runs : ~InGlobal(r)
<1> SUFFICES ASSUME NEW r \in Runs, InGlobal(r) PROVE FALSE
  OBVIOUS
<1>1. SessionTask(r) \in slots[SessionOf[r]] /\ SessionOf[r] \in Lanes
  BY TaskNames DEF IInv, ChainInv, HoldsSession, Lanes
<1>2. SessionTask(r) \in snapshot /\ \A l \in Lanes : slots[l] \cap snapshot = {}
  BY DEF IInv, DrainInv
<1> QED
  BY <1>1, <1>2

\* ... so that the slots a restart takes back belong to nobody.
LEMMA RestartStep ==
  ASSUME IInv, Restart
  PROVE  IInv'
<1>1. /\ calling = {} /\ drain = "over" /\ drain' = "off"
      /\ open' = TRUE /\ slots' = [l \in Lanes |-> {}]
      /\ UNCHANGED <<waiting, cap, status, runVars, waitTasks, waitRuns, timedOut>>
      /\ snapshot' = {} /\ restarts' = restarts + 1
  BY DEF Restart, Queue!Restart, Event
<1>2. LaneInv'
  BY <1>1, ConfigureStep DEF IInv, LaneInv, LaneTypes
<1>3. RunTypes' /\ RegistryTypes'
  BY <1>1 DEF IInv, RunTypes, RegistryTypes, runVars
<1>4. DrainTypes'
  <2>1. restarts' \in 0 .. MaxRestarts
    BY <1>1, RunsAssumption DEF IInv, DrainTypes, DrainInv
  <2> QED
    BY <1>1, <2>1 DEF IInv, DrainTypes
<1>5. \A q \in Runs : (InGlobal(q)' <=> InGlobal(q)) /\ (Touching(q)' <=> Touching(q))
  BY <1>1 DEF InGlobal, Touching, runVars
<1>6. timedOut \/ \A r \in Runs : ~InGlobal(r)
  BY <1>1, OverIsQuiet
<1>7. ChainInv'
  <2>1. \A q \in Runs : Touching(q)' => Touching(q) /\ status'[GlobalTask(q)] = "running"
    BY <1>1, <1>5 DEF IInv, ChainInv, BodyRuns
  <2>2. \A s \in Sessions : cap'[s] = cap[s] /\ slots'[s] \subseteq slots[s]
    BY <1>1 DEF Lanes
  <2> QED
    BY <1>1, <1>5, <1>6, <2>1, <2>2, ChainKept DEF IInv, runVars
<1>8. DrainInv'
  BY <1>1 DEF DrainInv
<1>9. RegistryInv'
  BY <1>1, RegistryKept DEF IInv, runVars
<1> QED
  BY <1>2, <1>3, <1>4, <1>7, <1>8, <1>9 DEF IInv

-----------------------------------------------------------------------------
LEMMA InitIInv ==
  ASSUME Init PROVE IInv
<1>1. /\ waiting = [l \in Lanes |-> <<>>] /\ slots = [l \in Lanes |-> {}]
      /\ cap = [l \in Lanes |-> 1] /\ open = TRUE /\ status = [t \in Tasks |-> "new"]
  BY DEF Init, Queue!Init
<1>2. LaneInv
  <2>1. <<>> \in Seq(Tasks)
    OBVIOUS
  <2>2. LaneTypes
    BY <1>1, <2>1 DEF LaneTypes, Statuses
  <2>3. QueueHolds /\ NoRepeats /\ SlotsRun
    BY <1>1 DEF QueueHolds, NoRepeats, SlotsRun
  <2> QED
    BY <2>2, <2>3 DEF LaneInv
<1>3. RunTypes /\ RegistryTypes
  BY DEF Init, RunTypes, RegistryTypes
<1>4. DrainTypes
  <2>1. waitTasks \in BOOLEAN /\ waitRuns \in BOOLEAN /\ timedOut \in BOOLEAN
    BY DEF Init
  <2> QED
    BY <2>1, RunsAssumption DEF Init, DrainTypes
<1>5. \A r \in Runs : ~Touching(r) /\ ~InGlobal(r) /\ r \notin calling
  BY <1>1, TaskNames DEF Init, Touching, InGlobal
<1>6. ChainInv
  BY <1>1, <1>5 DEF ChainInv, OneSlot, BodyRuns, Nested, HoldsSession, Lanes
<1>7. DrainInv /\ RegistryInv
  BY DEF Init, DrainInv, RegistryInv, RegistryOfSession, RegistryNamesLatest, NoLostWaiter
<1> QED
  BY <1>2, <1>3, <1>4, <1>6, <1>7 DEF IInv

LEMMA NextIInv ==
  ASSUME IInv, [Next]_vars PROVE IInv'
<1>1. CASE \E r \in Runs : \/ Request(r) \/ EnqueueGlobal(r) \/ EnqueueSession(r)
                          \/ Register(r) \/ EndBody(r)
  BY <1>1, RequestStep, EnqueueGlobalStep, RegisterStep, EndBodyStep
<1>2. CASE \E l \in Lanes : Start(l)
  BY <1>2, StartKeeps
<1>3. CASE \E t \in Tasks : Release(t) \/ Settle(t)
  BY <1>3, ReleaseKeeps, SettleKeeps
<1>4. CASE \E s \in Sessions : BeginReset(s)
  BY <1>4, BeginResetStep
<1>5. CASE \/ \E r \in Runs : CronJobTimeout(r)
           \/ \E s \in Sessions : ResetTimeout(s)
           \/ TasksDrained \/ RunsDrained \/ DrainTimeout
  BY <1>5, TimeoutSteps
<1>6. CASE ApplyLaneConcurrency
  BY <1>6, ApplyLaneConcurrencyStep
<1>7. CASE BeginDrain \/ EndDrain \/ Restart
  BY <1>7, BeginDrainStep, EndDrainStep, RestartStep
<1>8. CASE UNCHANGED vars
  <2>1. UNCHANGED <<laneVars, runVars, drainVars>>
    BY <1>8 DEF vars
  <2>2. RunTypes' /\ RegistryTypes' /\ DrainTypes'
    BY <2>1 DEF IInv, RunTypes, RegistryTypes, DrainTypes, runVars, drainVars
  <2>3. RegistryInv'
    BY <2>1, RegistryKept DEF IInv, runVars
  <2>4. \A r \in Runs : Touching(r)' => Touching(r)
    BY <2>1 DEF Touching, runVars
  <2> QED
    BY <2>1, <2>2, <2>3, <2>4, OutsideLanes DEF runVars, drainVars
<1> QED
  BY <1>1, <1>2, <1>3, <1>4, <1>5, <1>6, <1>7, <1>8 DEF Next

LEMMA Invariant == Spec => []IInv
<1>1. Init => IInv
  BY InitIInv
<1>2. IInv /\ [Next]_vars => IInv'
  BY NextIInv
<1> QED
  BY <1>1, <1>2, PTL DEF Spec

\* The registry of runs agrees with the runs that execute: whoever waits for
\* the end of a run has one to be woken by, and an orphan of an earlier
\* lifecycle removes no handle but its own (runs.ts:216-273).
THEOREM RegistryAgrees == Spec => []Inv
<1>1. IInv => Inv
  <2> SUFFICES ASSUME IInv PROVE Inv
    OBVIOUS
  <2>1. ASSUME NEW s \in Sessions
        PROVE  Cardinality(active[s]) <= 1 /\ Cardinality(latest[s]) <= 1
    <3>1. active[s] \subseteq latest[s] /\ \A q, r \in latest[s] : q = r
      BY DEF IInv, RegistryInv, RegistryOfSession, RegistryNamesLatest
    <3>2. ASSUME NEW S, \A q, r \in S : q = r
          PROVE  Cardinality(S) <= 1
      <4>1. CASE S = {}
        BY <4>1, FS_EmptySet
      <4>2. CASE S # {}
        <5>1. PICK r \in S : TRUE
          BY <4>2
        <5>2. S = {r}
          BY <3>2, <5>1
        <5>3. Cardinality({r}) = 1
          BY FS_Singleton
        <5> QED
          BY <5>2, <5>3
      <4> QED
        BY <4>1, <4>2
    <3>3. \A q, r \in active[s] : q = r
      BY <3>1
    <3> QED
      BY <3>1, <3>2, <3>3
  <2>2. {waitTasks, waitRuns, timedOut} \subseteq BOOLEAN
    BY DEF IInv, DrainTypes
  <2>3. TypeOK
    BY <2>1, <2>2 DEF TypeOK, IInv, LaneInv, LaneTypes, RunTypes, RegistryTypes, DrainTypes,
                      Statuses
  <2> QED
    BY <2>3 DEF Inv, IInv, RegistryInv
<1> QED
  BY <1>1, Invariant, PTL

\* Only one agent run touches a session at a time, whatever lanes the runs
\* ask for, whatever is reset, resized or restarted, until a drain gives up
\* on somebody (docs/concepts/queue.md; runEmbeddedPiAgent).
THEOREM OneRunTouchesASession == Spec => []OneRunUnlessTimedOut
<1>1. IInv => OneRunUnlessTimedOut
  <2> SUFFICES ASSUME IInv, ~timedOut, NEW q \in Runs, NEW r \in Runs,
                      Touching(q), Touching(r), SessionOf[q] = SessionOf[r]
               PROVE  q = r
    BY DEF OneRunUnlessTimedOut, OneRunPerSession
  <2>1. InGlobal(q) /\ InGlobal(r)
    BY DEF IInv, ChainInv, BodyRuns, InGlobal
  <2>2. SessionTask(q) \in slots[SessionOf[q]] /\ SessionTask(r) \in slots[SessionOf[q]]
    BY <2>1 DEF IInv, ChainInv, HoldsSession
  <2>3. SessionTask(q) = SessionTask(r)
    BY <2>2, TaskNames DEF IInv, ChainInv, OneSlot
  <2> QED
    BY <2>3, TaskNames
<1> QED
  BY <1>1, Invariant, PTL

\* When a drain that nobody gave up is over no run executes any more
\* (the run loop on SIGUSR1: waitForActiveTasks, waitForActiveEmbeddedRuns).
THEOREM RestartsAreClean == Spec => []CleanRestartIsQuiet
<1>1. IInv => CleanRestartIsQuiet
  BY OverIsQuiet DEF CleanRestartIsQuiet, IInv, ChainInv, BodyRuns, InGlobal
<1> QED
  BY <1>1, Invariant, PTL
=============================================================================
