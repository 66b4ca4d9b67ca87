-------------------------------- MODULE Heartbeats --------------------------------
(***************************************************************************)
(* What wakes the agents: the wake layer (infra/heartbeat-wake.ts), which  *)
(* coalesces requests into batches, and the runner (startHeartbeatRunner   *)
(* in infra/heartbeat-runner.ts), which runs the agents of a batch and     *)
(* arms the timer of the next interval.  A restart of the gateway in the   *)
(* same process stops the runner and starts another; the state of the wake *)
(* layer outlives both, and so does a batch that is being executed.        *)
(*                                                                         *)
(* Abstracted: a wake is its target, all agents or the session of one, and *)
(* the priority of its reason.  Of the timers only matters that they are   *)
(* set: delays, and the kind that keeps a retry from firing earlier, are   *)
(* left out, so that a timer fires at any moment.  Time enters as Due.     *)
(* The handler of the runner catches what a run throws, so the branch of   *)
(* the wake layer for a handler that rejects is never taken.  What a run   *)
(* finds when it starts and what it does are one step, at its end.         *)
(***************************************************************************)
EXTENDS Integers, Sequences, FiniteSets, SequencesExt

CONSTANTS
  Agents,       \* agents with heartbeats
  All,          \* the target of a wake that names no agent
  Reasons,      \* priorities of the wakes that are requested from outside
  MaxRunners,   \* bound: starts of a runner
  MaxRequests,  \* bound: wakes that are requested from outside
  MaxChanges    \* bound: changes of the configuration and of the switch

ASSUME HeartbeatsAssumption ==
  /\ IsFiniteSet(Agents) /\ All \notin Agents /\ Reasons \subseteq {2, 3}
  /\ MaxRunners \in Nat \ {0} /\ MaxRequests \in Nat /\ MaxChanges \in Nat

VARIABLES
  pending,     \* pendingWakes, in the order of its keys
  timer,       \* a timer of the wake layer is set
  scheduled, running,
  handler,     \* the runner whose handler is registered, 0 for none
  batch,       \* batch[b]: an execution of a batch
  runners,     \* number of runners started; the last one is in charge
  enabled,     \* heartbeatsEnabled
  configured,  \* the runner has agents
  armed,       \* the interval timer of the runner is set
  due,         \* agents whose nextDueMs has come
  requests, changes,
  owed,        \* history: agents that a request of a run has not reached yet
  mishaps      \* history: what happened so far, see Mishaps

wakeLayer == <<pending, timer, scheduled, running, handler, batch>>
runner == <<runners, configured, armed, due>>
vars == <<wakeLayer, runner, enabled, requests, changes, owed, mishaps>>

\* A batch was in progress when a runner started; an interval came while
\* heartbeats were switched off.
Mishaps == {"restartInBatch", "intervalDropped"}

Interval == 1  \* REASON_PRIORITY
Default == 2
Action == 3

Wakes == [target : Agents \cup {All}, priority : Interval .. Action]
Slots == 1 .. MaxRunners
NoBatch == [wakes |-> <<>>, next |-> 0, by |-> 0, current |-> FALSE, agents |-> <<>>]

\* The batch in slot b is being executed; it awaits the run of agent a, the
\* first of those it has still to run.
Executing(b) == batch[b].next > 0
InRun(b) == batch[b].agents # <<>>
Runs(b, a) == InRun(b) /\ a = Head(batch[b].agents)
Wake(b) == batch[b].wakes[batch[b].next]

\* The orders in which the map of agents may list those of S: its order is that
\* of the configuration.
Orders(S) == Injection(1 .. Cardinality(S), S)

\* The agents that a wake is about.
Targets(w) == IF w.target = All THEN Agents ELSE {w.target}

\* The wake runs its agents whether they are due or not.
Requested(w) == w.priority > Interval

TypeOK ==
  /\ pending \in Seq(Wakes)
  /\ IsInjective([i \in DOMAIN pending |-> pending[i].target])
  /\ timer \in BOOLEAN
  /\ scheduled \in BOOLEAN /\ running \in BOOLEAN
  /\ handler \in 0 .. runners /\ runners \in 0 .. MaxRunners
  /\ \A b \in Slots :
       /\ batch[b].wakes \in Seq(Wakes)
       /\ batch[b].next \in 0 .. Len(batch[b].wakes)
       /\ batch[b].by \in 0 .. runners
       /\ batch[b].current \in BOOLEAN
       /\ batch[b].agents \in Seq(Agents) /\ (InRun(b) => Executing(b))
  /\ enabled \in BOOLEAN /\ configured \in BOOLEAN /\ armed \in BOOLEAN
  /\ due \subseteq Agents
  /\ requests \in 0 .. MaxRequests /\ changes \in 0 .. MaxChanges
  /\ owed \subseteq Agents /\ mishaps \subseteq Mishaps

Init ==
  /\ pending = <<>> /\ timer = FALSE /\ scheduled = FALSE /\ running = FALSE
  /\ handler = 0 /\ runners = 0
  /\ batch = [b \in Slots |-> NoBatch]
  /\ enabled = TRUE /\ configured = FALSE /\ armed = FALSE
  /\ due = {}
  /\ requests = 0 /\ changes = 0
  /\ owed = {} /\ mishaps = {}

-----------------------------------------------------------------------------
\* (mistake) The last reason wins, whatever its priority.
QueueLast(wakes, w) == Append(SelectSeq(wakes, LAMBDA x : x.target # w.target), w)

\* queuePendingWakeReason
Queue(wakes, w) ==
  IF \A i \in DOMAIN wakes : wakes[i].target # w.target
  THEN Append(wakes, w)
  ELSE [i \in DOMAIN wakes |->
          IF wakes[i].target = w.target /\ w.priority >= wakes[i].priority
          THEN w ELSE wakes[i]]

\* requestHeartbeatNow
Ask(w) ==
  /\ pending' = Queue(pending, w)
  /\ timer' = TRUE

Request(target, priority) ==
  /\ requests < MaxRequests
  /\ requests' = requests + 1
  /\ LET w == [target |-> target, priority |-> priority] IN
       /\ Ask(w)
       /\ owed' = owed \cup Targets(w)
  /\ UNCHANGED <<scheduled, running, handler, batch, runner, enabled, changes, mishaps>>

\* The timer of the wake layer fires and a batch begins, unless one is
\* running or no handler is registered.
WakeTimer ==
  /\ timer
  /\ \/ /\ handler = 0
        /\ timer' = FALSE /\ scheduled' = FALSE
        /\ UNCHANGED <<pending, running, batch>>
     \/ /\ handler # 0 /\ running
        /\ scheduled' = TRUE
        /\ UNCHANGED <<timer, pending, running, batch>>
     \/ /\ handler # 0 /\ ~running
        /\ timer' = FALSE /\ scheduled' = FALSE
        /\ pending' = <<>>
        /\ \/ /\ pending = <<>>
              /\ UNCHANGED <<running, batch>>
           \/ /\ pending # <<>>
              /\ running' = TRUE
              /\ \E b \in Slots :
                   /\ ~Executing(b)
                   /\ \A c \in 1 .. b - 1 : Executing(c)
                   /\ batch' = [batch EXCEPT ![b] =
                        [NoBatch EXCEPT !.wakes = pending, !.next = 1, !.by = handler]]
  /\ UNCHANGED <<handler, runner, enabled, requests, changes, owed, mishaps>>

\* (mistake) The batch is over for the wake layer after its first wake.
GoOnEarly(b, wakes, t) ==
  /\ pending' = wakes
  /\ UNCHANGED scheduled
  /\ batch' = [batch EXCEPT ![b] = IF @.next < Len(@.wakes)
                                   THEN [@ EXCEPT !.next = @ + 1, !.agents = <<>>]
                                   ELSE NoBatch]
  /\ running' = FALSE
  /\ timer' = (t \/ wakes # <<>> \/ scheduled)

\* The loop over the batch goes on, or its finally clause runs.  By now
\* the wakes are pending and t says whether a timer is set.
GoOn(b, wakes, t) ==
  /\ pending' = wakes
  /\ UNCHANGED scheduled
  /\ IF batch[b].next < Len(batch[b].wakes)
     THEN /\ batch' = [batch EXCEPT ![b].next = @ + 1, ![b].agents = <<>>]
          /\ timer' = t
          /\ UNCHANGED running
     ELSE /\ batch' = [batch EXCEPT ![b] = NoBatch]
          /\ running' = FALSE
          /\ timer' = (t \/ wakes # <<>> \/ scheduled)

\* The handler skips a wake because the main lane is busy: it is retried.
Retry(b) == GoOn(b, Queue(pending, Wake(b)), TRUE)

\* The agents that the wake being executed has not reached are owed again.
Again(b) == owed \cup {a \in ToSet(batch[b].agents) : Requested(Wake(b))}

-----------------------------------------------------------------------------
\* The runner of the batch is in charge and not stopped.
InCharge(b) == handler = batch[b].by

\* (mistake) scheduleNext clears the timer it should replace.
ScheduleNextClears(b) == armed' = FALSE

\* scheduleNext of the runner of b
ScheduleNext(b) == armed' = IF InCharge(b) THEN configured ELSE armed

\* The handler (run) is called with the next wake of the batch and awaits the
\* first agent, or has nothing to run.
Call(b) ==
  LET w == Wake(b)
      first == IF w.priority = Interval THEN due ELSE Targets(w)
  IN
  /\ Executing(b) /\ ~InRun(b)
  /\ \/ /\ ~InCharge(b) \/ ~enabled \/ ~configured
        /\ GoOn(b, pending, timer)
        /\ owed' = IF Requested(w) THEN owed \ Targets(w) ELSE owed
        /\ mishaps' = mishaps \cup {x \in {"intervalDropped"} : InCharge(b) /\ ~enabled}
        /\ UNCHANGED armed
     \/ /\ InCharge(b) /\ enabled /\ configured
        /\ \/ /\ first # {}
              /\ \E order \in Orders(first) :
                   batch' = [batch EXCEPT ![b].agents = order, ![b].current = TRUE]
              /\ UNCHANGED <<pending, timer, scheduled, running, armed>>
           \/ /\ first = {}
              /\ ScheduleNext(b)
              /\ GoOn(b, pending, timer)
        /\ owed' = IF Requested(w) THEN owed \ first ELSE owed
        /\ UNCHANGED mishaps
  /\ UNCHANGED <<handler, runners, configured, due, enabled, requests, changes>>

\* advanceAgentSchedule: it writes to the map of agents that the handler
\* began with.
Advance(b, a) == due' = IF batch[b].current THEN due \ {a} ELSE due

\* The next agent, or scheduleNext and the end of the call.
AgentDone(b) ==
  \/ /\ Len(batch[b].agents) > 1
     /\ batch' = [batch EXCEPT ![b].agents = Tail(@)]
     /\ UNCHANGED <<pending, timer, scheduled, running, armed>>
  \/ /\ Len(batch[b].agents) = 1
     /\ ScheduleNext(b)
     /\ GoOn(b, pending, timer)

\* runHeartbeatOnce has run agent a, skipped it, or thrown.
RunEnds(b, a) ==
  /\ Runs(b, a)
  /\ Advance(b, a)
  /\ AgentDone(b)
  /\ UNCHANGED <<handler, runners, configured, enabled, requests, changes, owed, mishaps>>

\* ... or found that heartbeats are switched off.
RunDisabled(b, a) ==
  /\ Runs(b, a)
  /\ ~enabled
  /\ AgentDone(b)
  /\ UNCHANGED <<handler, runners, configured, due, enabled, requests, changes, owed, mishaps>>

\* ... or that the main lane is busy.
RunBusy(b, a) ==
  /\ Runs(b, a)
  /\ Retry(b)
  /\ \/ /\ Wake(b).target = All
        /\ UNCHANGED <<due, armed>>
     \/ /\ Wake(b).target # All
        /\ Advance(b, a)
        /\ ScheduleNext(b)
  /\ owed' = Again(b)
  /\ UNCHANGED <<handler, runners, configured, enabled, requests, changes, mishaps>>

-----------------------------------------------------------------------------
\* nextDueMs of an agent comes.
Due(a) ==
  /\ handler # 0 /\ configured
  /\ a \notin due
  /\ due' = due \cup {a}
  /\ UNCHANGED <<wakeLayer, runners, configured, armed, enabled,
                 requests, changes, owed, mishaps>>

\* The interval timer fires, maybe for an agent that has run since it was set.
IntervalFires ==
  /\ armed
  /\ armed' = FALSE
  /\ Ask([target |-> All, priority |-> Interval])
  /\ UNCHANGED <<scheduled, running, handler, batch, runners, configured, due,
                 enabled, requests, changes, owed, mishaps>>

\* (mistake) A new handler takes the state of the layer over as it is.
ResetNothing == UNCHANGED <<timer, running, scheduled>>

\* (mistake) A new handler does not look at what is pending.
ResetForgets ==
  /\ timer' = FALSE
  /\ running' = FALSE /\ scheduled' = FALSE

\* setHeartbeatWakeHandler, for a handler that is not null
Reset ==
  /\ timer' = (pending # <<>>)
  /\ running' = FALSE /\ scheduled' = FALSE

\* The map state.agents is replaced under whoever is using it.
NewMap == batch' = [b \in Slots |-> [batch[b] EXCEPT !.current = FALSE]]

\* startHeartbeatRunner, with agents or without.
StartRunner(c) ==
  /\ handler = 0
  /\ runners < MaxRunners
  /\ runners' = runners + 1
  /\ handler' = runners + 1
  /\ Reset
  /\ configured' = c /\ armed' = c
  /\ due' = {}
  /\ NewMap
  /\ mishaps' = mishaps \cup {x \in {"restartInBatch"} : \E b \in Slots : Executing(b)}
  /\ UNCHANGED <<pending, enabled, requests, changes, owed>>

\* cleanup, and the disposer of the handler.
StopRunner ==
  /\ handler # 0
  /\ handler' = 0
  /\ armed' = FALSE
  /\ UNCHANGED <<pending, timer, scheduled, running, batch, runners, configured, due,
                 enabled, requests, changes, owed, mishaps>>

\* updateConfig: agents that stay keep their schedule, in a new map, except that
\* one that is due and has never run begins an interval anew.
UpdateConfig(c) ==
  /\ handler # 0
  /\ changes < MaxChanges
  /\ changes' = changes + 1
  /\ configured' = c /\ armed' = c
  /\ due' \in IF c /\ configured THEN SUBSET due ELSE {{}}
  /\ NewMap
  /\ UNCHANGED <<pending, timer, scheduled, running, handler, runners, enabled,
                 requests, owed, mishaps>>

\* set-heartbeats
SetEnabled ==
  /\ changes < MaxChanges
  /\ changes' = changes + 1
  /\ enabled' = ~enabled
  /\ UNCHANGED <<wakeLayer, runner, requests, owed, mishaps>>

Next ==
  \/ \E t \in Agents \cup {All}, p \in Reasons : Request(t, p)
  \/ WakeTimer
  \/ \E b \in Slots : Call(b)
  \/ \E b \in Slots, a \in Agents : RunEnds(b, a) \/ RunDisabled(b, a) \/ RunBusy(b, a)
  \/ \E a \in Agents : Due(a)
  \/ IntervalFires
  \/ \E c \in BOOLEAN : StartRunner(c) \/ UpdateConfig(c)
  \/ StopRunner
  \/ SetEnabled

Spec == Init /\ [][Next]_vars

\* Timers fire and runs end, except that a run of a runner that was stopped may
\* hang for ever; the main lane is not busy each time.
Fairness ==
  /\ WF_vars(WakeTimer)
  /\ WF_vars(due # {} /\ IntervalFires)
  /\ WF_vars(\E b \in Slots : Call(b))
  /\ \A a \in Agents : SF_vars(\E b \in Slots : InCharge(b) /\ RunEnds(b, a))

FairSpec == Spec /\ Fairness

-----------------------------------------------------------------------------
\* A wake that is pending while a handler is registered is on its way: a timer
\* is set, whatever batches are being executed and whoever registered.
NeverStalled == (handler # 0 /\ pending # <<>>) => timer

\* Batches follow each other, unless a runner has started during one.
OneBatch ==
  "restartInBatch" \in mishaps \/ Cardinality({b \in Slots : Executing(b)}) <= 1

\* Every agent that a request of a run has not reached yet is covered by a
\* wake of that urgency, pending or still to be called in a batch: requests
\* that coalesce, are retried or fail lose nobody.  A runner that starts
\* during a batch loses the rest of it.
Covers(w, a) == Requested(w) /\ a \in Targets(w)

NoWakeLost ==
  "restartInBatch" \in mishaps \/
  \A a \in owed :
    \/ \E w \in ToSet(pending) : Covers(w, a)
    \/ \E b \in Slots : \E i \in batch[b].next .. Len(batch[b].wakes) :
         Executing(b) /\ Covers(batch[b].wakes[i], a)

Fires(a) == a \in due ~> (a \notin due \/ handler = 0 \/ ~enabled)

\* heartbeat-runner.ts: "so heartbeats keep firing".  An agent that is due
\* runs, whatever fails, is busy, restarts or changes in between, as long as
\* no interval came while heartbeats were switched off.
HeartbeatsKeepFiring ==
  \A a \in Agents : a \in due ~> (a \notin due \/ handler = 0 \/ ~enabled
                                             \/ "intervalDropped" \in mishaps)

\* docs/cli/system.md: "enable: turn heartbeats back on (use this if they
\* were disabled)".
EnableTurnsBackOn == \A a \in Agents : Fires(a)

\* The wake layer is one timer and one batch (heartbeat-wake.ts:119-236).
Inv == TypeOK /\ NeverStalled /\ OneBatch
=============================================================================
