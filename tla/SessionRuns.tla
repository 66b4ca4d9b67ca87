------------------------------ MODULE SessionRuns ------------------------------
(***************************************************************************)
(* Agent runs on top of the lanes: runEmbeddedPiAgent (run.ts) nests a     *)
(* task of a global lane in a task of the lane of its session, a cron run  *)
(* nests both in a task of the cron lane, the registry of active runs      *)
(* (runs.ts) tells a session reset which run to wait for, and a restart    *)
(* drains the lanes and the registry before it takes every slot back.      *)
(*                                                                         *)
(* The lanes are those of LaneContract, which CommandQueue implements; its *)
(* actions are steps of this module.  Each run is one chain of tasks:      *)
(*     cron  ->  session  ->  global          (a run of a cron job)        *)
(*               session  ->  global          (any other run)              *)
(*                                                                         *)
(* Abstracted: what a run computes; runs that never register (compaction   *)
(* from outside a lane, a run that fails early) are runs whose body ends   *)
(* before Register; the gateway server, which is down between the end of   *)
(* a drain and the restart.                                                *)
(***************************************************************************)
EXTENDS Integers, Sequences, FiniteSets

CONSTANTS
  Runs,         \* agent runs, each requested at most once
  Sessions,     \* session keys
  SessionOf,    \* SessionOf[r]: the session r belongs to
  LaneParam,    \* LaneParam[r]: params.lane, "main" when absent
  FromCron,     \* the runs that a task of the cron lane requests
  Requested,    \* caps a configuration may give the main lane
  MaxRestarts   \* bound: number of in-process restarts explored

ASSUME RunsAssumption ==
  /\ SessionOf \in [Runs -> Sessions]
  /\ LaneParam \in [Runs -> {"main", "cron", "subagent", "nested"}]
  /\ FromCron \subseteq Runs
  /\ {"main", "cron", "subagent", "nested"} \cap Sessions = {}
  /\ Requested \subseteq Int
  /\ MaxRestarts \in Nat

VARIABLES
  waiting, slots, cap, open, status,  \* the lanes, see LaneContract
  calling,      \* the run whose session task has just been called, if any
  body,         \* body[r]: progress of the innermost task of r
  gaveUp,       \* runs whose cron task has stopped waiting for them
  active,       \* active[s]: the run registered for s, as a set of at most one
  latest,       \* history: the run that registered last for s, if any did
  reset,        \* reset[s]: "idle", or "waiting" for the registered run to end
  drain,        \* "off", "draining", "over": what the run loop is doing
  snapshot,     \* tasks the drain waits for
  waitTasks,    \* waitForActiveTasks has not answered yet
  waitRuns,     \* waitForActiveEmbeddedRuns has not answered yet
  timedOut,     \* some drain gave up on a task or a run
  restarts      \* number of restarts so far

GlobalLanes == {"main", "cron", "subagent", "nested"}
Lanes == GlobalLanes \cup Sessions
Tasks == (FromCron \X {"cron"}) \cup (Runs \X {"session", "global"})

laneVars == <<waiting, slots, cap, open, status>>
runVars == <<calling, body, gaveUp, active, latest, reset>>
drainVars == <<drain, snapshot, waitTasks, waitRuns, timedOut, restarts>>
vars == <<laneVars, runVars, drainVars>>

-----------------------------------------------------------------------------
\* (mistake) ResolveGlobalLane without the detour.
GlobalLaneAsRequested(lane) == lane

\* A cron job holds a slot of the cron lane: what it runs goes elsewhere.
ResolveGlobalLane(lane) == IF lane = "cron" THEN "nested" ELSE lane

LaneOf == [t \in Tasks |->
             CASE t[2] = "cron"    -> "cron"
               [] t[2] = "session" -> SessionOf[t[1]]
               [] t[2] = "global"  -> ResolveGlobalLane(LaneParam[t[1]])]

Queue == INSTANCE LaneContract

Outermost(r) == IF r \in FromCron THEN <<r, "cron">> ELSE <<r, "session">>
Ended(t) == status[t] \in {"resolved", "rejected", "cleared", "refused"}

\* The promise the body of t awaits has settled, or t awaits nothing any more.
BodyOver(t) ==
  CASE t[2] = "cron"    -> Ended(<<t[1], "session">>) \/ t[1] \in gaveUp
    [] t[2] = "session" -> Ended(<<t[1], "global">>)
    [] t[2] = "global"  -> body[t[1]] = "over"

ActiveTasks == UNION {slots[l] : l \in Lanes}
RegisteredRuns == UNION {active[s] : s \in Sessions}

TypeOK ==
  /\ waiting \in [Lanes -> Seq(Tasks)]
  /\ slots \in [Lanes -> SUBSET Tasks]
  /\ cap \in [Lanes -> Nat \ {0}]
  /\ open \in BOOLEAN
  /\ status \in [Tasks -> {"new", "queued", "running", "resolved", "rejected",
                           "cleared", "refused"}]
  /\ calling \in SUBSET Runs
  /\ body \in [Runs -> {"none", "preparing", "registered", "over"}]
  /\ gaveUp \in SUBSET FromCron
  /\ active \in [Sessions -> SUBSET Runs]
  /\ latest \in [Sessions -> SUBSET Runs]
  /\ \A s \in Sessions : Cardinality(active[s]) <= 1 /\ Cardinality(latest[s]) <= 1
  /\ reset \in [Sessions -> {"idle", "waiting"}]
  /\ drain \in {"off", "draining", "over"}
  /\ snapshot \in SUBSET Tasks
  /\ {waitTasks, waitRuns, timedOut} \subseteq BOOLEAN
  /\ restarts \in 0 .. MaxRestarts

Init ==
  /\ Queue!Init
  /\ calling = {} /\ gaveUp = {}
  /\ body = [r \in Runs |-> "none"]
  /\ active = [s \in Sessions |-> {}] /\ latest = [s \in Sessions |-> {}]
  /\ reset = [s \in Sessions |-> "idle"]
  /\ drain = "off" /\ snapshot = {}
  /\ waitTasks = FALSE /\ waitRuns = FALSE /\ timedOut = FALSE
  /\ restarts = 0

-----------------------------------------------------------------------------
\* A step of the event loop that is not inside the call of a session task.
Event == calling = {}

SubmitOrRefuse(t) == Queue!Submit(t) \/ Queue!Refuse(t)

\* applyGatewayLaneConcurrency, for the lane whose cap the runs compete for.
ApplyLaneConcurrency ==
  /\ Event
  /\ Queue!Resize("main")
  /\ UNCHANGED <<runVars, drainVars>>

\* Somebody requests r: a message, a job of the cron service, a tool.
Request(r) ==
  /\ Event
  /\ drain # "over"
  /\ SubmitOrRefuse(Outermost(r))
  /\ UNCHANGED <<runVars, drainVars>>

\* A lane starts its next task.  The body of a session task is called at
\* once and enqueues the global task before any other event.
Start(l) ==
  /\ Event
  /\ Queue!Start(l)
  /\ LET t == Head(waiting[l]) IN
       /\ calling' = IF t[2] = "session" THEN {t[1]} ELSE {}
       /\ body' = IF t[2] = "global"
                  THEN [body EXCEPT ![t[1]] = "preparing"] ELSE body
  /\ UNCHANGED <<gaveUp, active, latest, reset, drainVars>>

\* enqueueSession(() => enqueueGlobal(...)): the synchronous part.
EnqueueGlobal(r) ==
  /\ r \in calling
  /\ SubmitOrRefuse(<<r, "global">>)
  /\ calling' = {}
  /\ UNCHANGED <<body, gaveUp, active, latest, reset, drainVars>>

\* The task of a cron run calls runEmbeddedPiAgent after some awaits.
EnqueueSession(r) ==
  /\ Event
  /\ r \in FromCron \ gaveUp
  /\ status[<<r, "cron">>] = "running"
  /\ SubmitOrRefuse(<<r, "session">>)
  /\ UNCHANGED <<runVars, drainVars>>

\* executeJobCoreWithTimeout: the job is over although its run may go on.
CronJobTimeout(r) ==
  /\ Event
  /\ r \in FromCron \ gaveUp
  /\ status[<<r, "cron">>] = "running"
  /\ gaveUp' = gaveUp \cup {r}
  /\ UNCHANGED <<laneVars, calling, body, active, latest, reset, drainVars>>

\* setActiveEmbeddedRun, which replaces a handle that is still there.
Register(r) ==
  /\ Event
  /\ body[r] = "preparing"
  /\ body' = [body EXCEPT ![r] = "registered"]
  /\ active' = [active EXCEPT ![SessionOf[r]] = {r}]
  /\ latest' = [latest EXCEPT ![SessionOf[r]] = {r}]
  /\ UNCHANGED <<laneVars, calling, gaveUp, reset, drainVars>>

\* (mistake) Unregister that tells the waiters and keeps the handle.
UnregisterKeepsHandle(r) ==
  /\ reset' = [reset EXCEPT ![SessionOf[r]] = "idle"]
  /\ UNCHANGED active

\* (mistake) Unregister that does not compare the handle.
UnregisterAnyHandle(r) ==
  /\ active' = [active EXCEPT ![SessionOf[r]] = {}]
  /\ reset' = [reset EXCEPT ![SessionOf[r]] = "idle"]

\* clearActiveEmbeddedRun: only the handle that is registered is removed,
\* and the waiters of its session are told.
Unregister(r) ==
  IF r \in active[SessionOf[r]]
  THEN /\ active' = [active EXCEPT ![SessionOf[r]] = {}]
       /\ reset' = [reset EXCEPT ![SessionOf[r]] = "idle"]
  ELSE UNCHANGED <<active, reset>>

\* The body of r returns or throws; a registered run unregisters first.
EndBody(r) ==
  /\ Event
  /\ \/ body[r] = "registered" /\ Unregister(r)
     \/ body[r] = "preparing" /\ UNCHANGED <<active, reset>>
  /\ body' = [body EXCEPT ![r] = "over"]
  /\ UNCHANGED <<laneVars, calling, gaveUp, latest, drainVars>>

\* A task whose body is over gives its slot back, then settles.  How it
\* settles is not told apart: whoever awaits it goes on in either case.
Release(t) ==
  /\ Event
  /\ status[t] = "running"
  /\ BodyOver(t)
  /\ Queue!Release(t)
  /\ UNCHANGED <<runVars, drainVars>>

Settle(t) ==
  /\ Event
  /\ BodyOver(t)
  /\ Queue!Settle(t)
  /\ status'[t] = "resolved"
  /\ UNCHANGED <<runVars, drainVars>>

-----------------------------------------------------------------------------
\* ensureSessionRuntimeCleanup: the lane of the session is cleared; then the
\* caller waits for the registered run, if there is one.
BeginReset(s) ==
  /\ Event
  /\ reset[s] = "idle"
  /\ Queue!Clear(s)
  /\ reset' = [reset EXCEPT ![s] = IF active[s] = {} THEN "idle" ELSE "waiting"]
  /\ UNCHANGED <<calling, body, gaveUp, active, latest, drainVars>>

\* waitForEmbeddedPiRunEnd answers false.
ResetTimeout(s) ==
  /\ Event
  /\ reset[s] = "waiting"
  /\ reset' = [reset EXCEPT ![s] = "idle"]
  /\ UNCHANGED <<laneVars, calling, body, gaveUp, active, latest, drainVars>>

-----------------------------------------------------------------------------
\* (mistake) BeginDrain that waits for the registered runs only.
BeginDrainRunsOnly ==
  /\ Event
  /\ drain = "off"
  /\ restarts < MaxRestarts
  /\ Queue!Close
  /\ drain' = "draining"
  /\ snapshot' = {}
  /\ waitTasks' = FALSE
  /\ waitRuns' = (RegisteredRuns # {})
  /\ UNCHANGED <<runVars, timedOut, restarts>>

\* The run loop on SIGUSR1: no task is accepted any more; the tasks that
\* hold a slot, and the registered runs, are waited for.
BeginDrain ==
  /\ Event
  /\ drain = "off"
  /\ restarts < MaxRestarts
  /\ Queue!Close
  /\ drain' = "draining"
  /\ snapshot' = ActiveTasks
  /\ waitTasks' = (ActiveTasks # {})
  /\ waitRuns' = (RegisteredRuns # {})
  /\ UNCHANGED <<runVars, timedOut, restarts>>

TasksDrained ==
  /\ Event
  /\ waitTasks
  /\ ActiveTasks \cap snapshot = {}
  /\ waitTasks' = FALSE
  /\ UNCHANGED <<laneVars, runVars, drain, snapshot, waitRuns, timedOut, restarts>>

RunsDrained ==
  /\ Event
  /\ waitRuns
  /\ RegisteredRuns = {}
  /\ waitRuns' = FALSE
  /\ UNCHANGED <<laneVars, runVars, drain, snapshot, waitTasks, timedOut, restarts>>

DrainTimeout ==
  /\ Event
  /\ waitTasks \/ waitRuns
  /\ waitTasks' = FALSE /\ waitRuns' = FALSE
  /\ timedOut' = TRUE
  /\ UNCHANGED <<laneVars, runVars, drain, snapshot, restarts>>

\* (mistake) EndDrain once the first of the two waits is answered.
EndDrainEither ==
  /\ Event
  /\ drain = "draining"
  /\ ~waitTasks \/ ~waitRuns
  /\ drain' = "over"
  /\ UNCHANGED <<laneVars, runVars, snapshot, waitTasks, waitRuns, timedOut, restarts>>

\* Both waits are answered: the server is closed.
EndDrain ==
  /\ Event
  /\ drain = "draining"
  /\ ~waitTasks /\ ~waitRuns
  /\ drain' = "over"
  /\ UNCHANGED <<laneVars, runVars, snapshot, waitTasks, waitRuns, timedOut, restarts>>

\* The next iteration of the run loop calls resetAllLanes.
Restart ==
  /\ Event
  /\ drain = "over"
  /\ Queue!Restart
  /\ drain' = "off"
  /\ snapshot' = {}
  /\ restarts' = restarts + 1
  /\ UNCHANGED <<runVars, waitTasks, waitRuns, timedOut>>

Next ==
  \/ \E r \in Runs : \/ Request(r) \/ EnqueueGlobal(r) \/ EnqueueSession(r)
                     \/ CronJobTimeout(r) \/ Register(r) \/ EndBody(r)
  \/ \E l \in Lanes : Start(l)
  \/ \E t \in Tasks : Release(t) \/ Settle(t)
  \/ \E s \in Sessions : BeginReset(s) \/ ResetTimeout(s)
  \/ ApplyLaneConcurrency
  \/ BeginDrain \/ TasksDrained \/ RunsDrained \/ DrainTimeout \/ EndDrain
  \/ Restart

Spec == Init /\ [][Next]_vars

-----------------------------------------------------------------------------
\* The innermost task of r executes: r reads and writes its session's files.
Touching(r) == body[r] \in {"preparing", "registered"}

\* docs/concepts/queue.md: "only one agent run touches a given session at a
\* time".
OneRunPerSession ==
  \A q, r \in Runs :
    Touching(q) /\ Touching(r) /\ SessionOf[q] = SessionOf[r] => q = r

\* ... which the code does guarantee as long as no drain gave up.
OneRunUnlessTimedOut == timedOut \/ OneRunPerSession

\* A drain that nobody gave up leaves no run behind: the slots that a restart
\* takes back belong to nobody.
CleanRestartIsQuiet ==
  drain = "over" /\ ~timedOut => \A r \in Runs : ~Touching(r)

\* The run that registered last for a session is in the registry until it
\* ends, and nobody else is: an orphan of an earlier lifecycle that ends
\* meanwhile neither hides it nor stays behind (runs.ts:229-273).
RegistryNamesLatest ==
  \A s \in Sessions : active[s] = {r \in latest[s] : body[r] = "registered"}

\* Somebody who waits for the end of a run has a run to be woken by.
NoLostWaiter == \A s \in Sessions : reset[s] = "waiting" => active[s] # {}

\* The steps that need nobody outside: a body ends (every run has a timeout
\* of its own), an awaiter resumes, a lane with a free slot starts what waits
\* in it (CommandQueue's WorkConserving).  A run takes each of them once.
Progress ==
  \/ \E l \in Lanes : Start(l)
  \/ \E r \in Runs : EnqueueGlobal(r) \/ EnqueueSession(r) \/ EndBody(r)
  \/ \E t \in Tasks : Release(t) \/ Settle(t)

\* The nesting of lanes has no circular wait: while a run that was accepted
\* is not answered, some step brings it or a run before it nearer to its end.
NoCircularWait ==
  (\E r \in Runs : status[Outermost(r)] \in {"queued", "running"})
    => ENABLED Progress

\* The registry of runs and its waiters agree with the runs that execute
\* (runs.ts:216-273).
Inv == TypeOK /\ RegistryNamesLatest /\ NoLostWaiter
=============================================================================
