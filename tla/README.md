# Formal models of the OpenClaw gateway

TLA+ models of the concurrent core of the OpenClaw gateway
(`src/enterprise-claw-analysis/src`, called `src/` below), model-checked with TLC. The
safety properties that the runs check are also proved with TLAPS, for every value of
the constants, but for one that is stated with `ENABLED`.

The gateway is one Node.js process. Messages come in from chat channels, cron jobs,
heartbeats and clients; each becomes an agent run; replies go out through the
channels. Everything runs on one thread, so what goes wrong goes wrong *at the
awaits*: state is read before one and used after it, a callback re-enters a function
that is not finished, a restart inside the process leaves work of the old lifecycle
running beside the new one. A step of every module here is the code between two such
points.

## 1. Inventory

### Modelled

| Component | State | Operations | What makes it correct |
|---|---|---|---|
| Lane scheduler, `process/command-queue.ts` | per lane: queue, active task ids, cap, draining flag, generation; the gateway-draining flag | enqueue, pump, complete, set cap, clear a lane, mark draining, reset all lanes, wait for active tasks | no lane wedges or idles with work; no slot leaks; FIFO; a drain that says "drained" is right |
| Run registry and nested lanes, `agents/pi-embedded-runner/{lanes,runs}.ts` | the handle registered for a session, waiters | enqueue a run in its session lane and then a global lane, register, unregister, reset a session, drain | one run per session; no circular wait between lanes; nobody waits for a run that is gone |
| Run loop and restart requests, `cli/gateway-cli/run-loop.ts`, `infra/restart.ts`, `gateway/server-reload-handlers.ts` | server, lock handle, shutdown in progress, resolver of the loop, timers and polls of requests | start, signal, drain, close, release/respawn/reacquire, schedule, defer until idle | lock, port, server and queue agree whenever control changes hands; every shutdown ends |
| Follow-up queue of a busy session, `auto-reply/reply/queue/`, `utils/queue-helpers.ts` | queue objects by key, drain callbacks, recent message ids | enqueue with dedupe and drop policy, drain in two modes, clear | nothing accepted is lost or carried twice; one drain per session; nothing is stranded |
| Outbound delivery queue, `infra/outbound/{deliver,delivery-queue}.ts` | files `<id>.json`, `<id>.delivered`, `failed/` | log, send, acknowledge in two phases, record a failure, replay at start, quarantine | nothing is forgotten across crashes; a message is doubled only for a reason; retries are bounded and spaced |
| Heartbeats, `infra/heartbeat-wake.ts`, `infra/heartbeat-runner.ts` | pending wakes, timer, running/scheduled flags, handler; schedule of the agents | request a wake, run a batch, retry, replace the handler, change the configuration, switch on and off | no wake is stranded or lost; batches do not overlap; agents keep running |
| Jobs, `cron/service/{ops,timer,jobs,store,locked}.ts` | the file of jobs, a copy of it per service, the timer, the runners of a service (its start, its tick, a request to run) | start with catch-up of missed jobs, tick, run by hand, add, change, remove, read, hot reload | a job is held by one runner; a due run is not skipped; a finished one-shot job is not repeated; the timer never gets lost |
| Nodes, `gateway/node-registry.ts`, `gateway/server-methods/nodes.ts`, the connection and message handlers, the app's replay | sockets, registered sessions, pending invokes, wakes in flight, queued foreground actions | connect, close, invoke, result, timeout, wake by push, queue, pull, acknowledge | an invoke waits for a live link only and is always answered; a session is kept; a queued action is kept and not run needlessly |
| Gateway lock and port, `infra/gateway-lock.ts`, `gateway/server/http-listen.ts` | the lock file and its payload, the port, the attempts of each start | open, write, read, probe, take over, poll, bind with retries, close, release, forced exit | one server; no file left over by whoever ends in order; nobody is turned away without a reason; every start ends |

How they interact:

- a run is a task of its session lane whose body enqueues a task of a global lane
  and awaits it (`runEmbeddedPiAgent`); a cron job that is run by hand (`enqueueRun`)
  is a task of the cron lane whose body does that;
- the run loop, on a restart, marks the scheduler as draining, waits for its active
  tasks and for the registered runs, closes the server, and calls `resetAllLanes`
  before it starts the next server *in the same process*: module-level state (lanes,
  registry, pending wakes, follow-up queues) survives;
- the follow-up queue is drained when a run of its session ends; its turns are runs;
- heartbeats look at the size of the main lane and are retried while it is busy;
- every outbound message of a run goes through the delivery queue, which is replayed
  in the background of every start;
- a cron tick calls the bodies of its jobs directly, not as tasks of the cron lane; what
  they request goes through the lanes as any run does; a hot reload replaces the cron service while the old one may still be running a job;
- a start of the process takes the gateway lock, and the run loop releases and
  reacquires it around a restart;
- an agent's tools invoke commands of nodes through the node registry.

### Not modelled

PROJECT.json lists every other part with the reason. In short: planned for later
are the session write lock, inbound debounce and reply dispatcher, subagent announces
and registry, exec approvals, config hot reload and channel restarts, the gateway
client, auth-profile cooldowns, the process supervisor, the ACP control plane and
pairing. Not planned are
request translation, channel adapters, prompt building, calls of language models,
file formats, user interfaces, installation, and the other programs of the repository
(Java prototypes, web prototypes, prompts and configurations of agents), which share
nothing with the gateway. The repository is mostly of that second kind: of its
4 240 files of code the gateway's shared state lives in a few dozen, and it is
those the models are about.

Left out of the components that are modelled: the shell commands of
`triggerOpenClawRestart` and the clean-up of stale processes (run loop); the queue of
pending work in `gateway/node-pending-work.ts`, pairing methods, subscriptions and the
throttle of alerts (nodes); failing writes of the job file, webhooks and run logs
(cron); errors of `open` other than `EEXIST`, of `rm`, of `/proc` and of the start of the
server other than a port in use, systems without `/proc`, signals during a start (lock);
the rewrite of entries of an older format, which lack the time of their last attempt, when
`loadPendingDeliveries` reads them (delivery queue); an acknowledgement that times out in the app and reaches the gateway
later (nodes); delays and cooldowns (heartbeats). Two known gaps: a session reset looks only at the registry,
so a run that holds the session lane but waits for the main lane is not waited for
(`gateway/session-reset-service.ts:140`); a channel call that never returns blocks a
recovery pass for good (`delivery-queue.ts:374`), since the budget is only looked at
between deliveries.

### What is hard here

- **Re-entrancy.** `drainLane` calls the synchronous prefix of a task inside its pump;
  the prefix may enqueue or throw, which pumps again inside the pump.
- **Two lifecycles in one process.** A restart that does not wait long enough leaves
  runs, batches, polls and drains that then finish in the next lifecycle.
- **State used after an await.** Items removed by position after a turn; a retry count
  written back after a read; a schedule advanced on an object that was replaced.
- **Crashes between two file operations**, and recovery beside live senders.
- **Requests and answers that race their timeouts**: drains, forced exits, resets.
- **Nested lanes**: a task holds a slot while it waits for a slot of another lane.
- **Work outside the lock**: cron jobs are chosen in one locked section, executed
  outside of it, and their outcome is recorded in another, from a copy that may be old.
- **Half-open sockets**: the node, the socket and the registry disagree about whether
  there is a connection.
- **Processes that only share a file and a port** and may be killed between any two calls.

The hazards of PROJECT.json name the lines where each of these bites.

## 2. Modules

```
LaneContract          what the scheduler promises
   |  \
   |   SessionRuns    its steps are steps of LaneContract (INSTANCE)
   |      |
   |   SessionRunsProofs
   |
CommandQueue          the re-entrant pump; implements LaneContract (refinement)
   |
CommandQueueProofs    theorems about CommandQueue

FollowupQueue  --- FollowupQueueProofs         DeliveryQueue --- DeliveryQueueProofs
NodeLink       --- NodeLinkProofs              Heartbeats    --- HeartbeatsProofs
Cron           --- CronProofs
GatewayRunLoop, GatewayLock --- GatewayProofs
```

`<Module>MC` is what TLC is given; it holds functions a `.cfg` cannot write and
symmetry sets. Definitions whose comment begins with `(mistake)` are plausible bugs
that stand beside the code they corrupt; no specification uses them. PROJECT.json
pairs each property with one, and exchanging the two makes TLC find that property
violated, which shows that the property can fail.

A *mishap* variable (`GatewayRunLoop`, `FollowupQueue`, `Heartbeats`; `timedOut` in
`SessionRuns`, `excused` and `shared` in `DeliveryQueue`, `excused` in `Cron`) records
history. Where the code does not keep a promise in some situation, a pair of properties
says so: the promise as the documentation gives it, which TLC refutes, and the promise
"unless this situation has come up", which holds. The second one shows that the named
situations are the only ones.

`Inv` of a module is the conjunction of its type invariant and of the safety invariants
that belong together; its conjuncts are named and commented one by one.

### CommandQueue and LaneContract

The JavaScript call stack is a variable. `Enqueue`, `DrainLane`, `PumpStart`,
`TaskAwaits`, `TaskThrows`, `PumpReturn`, `TaskFinishes`, `Settle` are the pieces of
`enqueueCommandInLane` and `drainLane` between the points where another function of
the file can be entered; an empty stack is the event loop. `ResetAllLanes` bumps the
generations and leaves the lanes to drain in `lanesToDrain`, which `DrainAfterReset`
works off. `WaitForActiveTasks`/`WaitCheck` take the snapshot and poll. Not modelled:
`onWait` and diagnostics, whose exceptions are swallowed; the getters.

`LaneContract` says the same for a caller: submit, refuse, start in order, release,
settle, clear, resize, close, restart. `CommandQueue!ImplementsContract` is the
refinement (`waiting <- queue`, `slots <- activeTaskIds`, `cap <- maxConcurrent`,
`open <- ~gatewayDraining`).

### SessionRuns

Composes three parts over `LaneContract`: chains of tasks (cron, session, global), the
registry of runs and the drain of the run loop. `ResolveGlobalLane` is the detour that
sends what a cron job requests to the `nested` lane; without it a cron lane with one
slot waits for itself. `latest` is history: the run that registered last for a session,
which `RegistryNamesLatest` compares with the handle. `CronJobTimeout` ends a job while its run goes on.
`BeginDrain` takes the snapshot, `TasksDrained`, `RunsDrained` and `DrainTimeout`
answer it, `Restart` takes every slot back, whoever is still executing.

### GatewayRunLoop

Two asynchronous functions on one thread: the loop (`loop`) and the shutdown that a
signal begins (`phase`). `restartResolver` is a variable with the values none, fresh
and spent, since a signal may find any of them. Requests come from
`scheduleGatewaySigusr1Restart` (a timer, then maybe a poll) and from the config
watcher of a server (a poll that the server's shutdown does not clear). The lock is a
handle and a file; another process may take the file while it is free. Abstracted:
time, and how much work is active.

### FollowupQueue

Queue objects are distinct from the key they are stored under, because a clear
detaches an object from the map while its drain still holds it. The drain has two
awaits, the debounce and the turn. `AfterTurn` removes *by position* what the turn has
carried, as the code does. `CollectStep` decides between one turn for all, and one by
one when messages come from several routes.

### DeliveryQueue

An actor is the sender of a delivery or a recovery pass. Each file operation is a step
at which the process may crash (`Crash` forgets the actors and keeps the files) or the
operation may fail. A pass works on the copies it loaded (`todo[p][i].seen`), in
the order in which they were logged (`OldestFirst`). Ages replace timestamps. `Backoff`
is any sequence of delays that does not decrease, as the literal `BACKOFF_MS` does not;
only finitely many deliveries are left over, since each has a file. Observations that no text of the repository contradicts, so that
they are no findings: the comment on `BACKOFF_MS` gives 5 s to the first retry, while
`computeBackoffMs(retryCount + 1)` never uses that entry; a crash between the send and
the rename doubles the message, which the comment on `ackDelivery` leaves open; a pass
that begins while a live sender holds its entry sends it too (`shared`).

### Heartbeats

The wake layer is module-level state that survives the runner. A batch remembers the
runner whose handler it uses, and whether the map of agents it iterates over is still
the runner's map (`current`). `StartRunner`, `StopRunner` and `UpdateConfig` may come
at any await of a batch. A batch runs the agents in any order (`Orders`), because that of
the runner's map is the configuration's. Abstracted: delays, and with them the retry cooldown.

### Cron

What reads or changes jobs runs under a lock shared by all services of a file
(`locked.ts`), so each locked section is one action; bodies run outside of it. A service
has three runners, `start`, `tick` and `manual`; `run[<<s, role>>].slot` holds the jobs a
runner has taken, with the progress of each, and `own` says whether these are still the
objects of the copy in memory. `Reload` puts a second service beside the first, which
keeps running what it had begun; `Crash` forgets every copy and keeps the file, and
`Boot` creates the next service. Normalization, recomputation and the reload of the file
that open most locked sections are part of the actions. A start that finds several missed
jobs orders them (`Sorted`), runs the first ones and spaces the others (`Staggered`).
`excused` is a job whose marker was taken away while it was held: by an overlapping hot
reload, by a request that disables it, or for its age; a body that outlives its timeout is
not counted. A request to run a job maintains only the copy in memory
(`inspectManualRunPreflight`), but decides on it, so that a marker may be lost there while
the file still has it (`Ask`).

Seen in behaviours of the model, without a text that says otherwise: `stop()` during a
tick does not keep the tick from arming the timer of the old service again; a job that
was queued for a tick still runs after it was disabled or removed; rescheduling a
one-shot job while it runs is lost when its outcome is recorded; a manual run that ends
on a copy older than a reload may enable its job again.

### NodeLink

A socket has three views: the node's (`nodeConn`), the gateway's (`phase`, `nodesByConn`)
and what is true (`socket`: open, broken when the peer is gone, closed once the close
event was seen). `Ghost` is a session registered after the close event of its socket,
because the handler of the connect request awaits between the two. `node.invoke` is a
small state machine per call (`pc`): look up, wake the node by push, wait, try again,
send, wait for the result, or queue a foreground action. The app runs a command, and
pulls and replays queued actions. A replay acknowledges each command that succeeds; it
stops at one that fails, which may have had effects, and when an acknowledgement fails or
its answer is lost (`ReplayNext`, `Ack`, `AckFails`). The entry then stays queued, and its
command runs again at the next foreground; `unacked` counts these failures. What a filter
leaves of a queue is stated by what it does (`Without`: the others, in their order).

A session is registered by node id, so the close of an old half-open socket removes the
*new* session of a node that has reconnected meanwhile and rejects its invokes
(`node-registry.ts:87`); `SessionKept` names this as its one exception.

### GatewayLock

A process per start, with a step for every call of the file system or the network:
`OpenFile`, `WritePayload`, reading the owner, the probe of the port, the check of the
process, removing a file found stale, `Bind` with its retries, the close and the release.
A start that has not created the file returns to the head of the loop (`"head"`), whether
it polls first or not; there its deadline may have passed (`TimeOut`), whatever the last
turn has found, since the clock counts from the start. No step assumes how long another
one takes. The probe may fail although somebody listens. A process ends in one of five
ways: stopped, failed, killed (`Kill`, between any two calls), forced to exit by its timer
while it drains or closes (`ForcedExit`), or by an error of the write of the payload
(`WriteFails`). The last three are `Unclean`: they leave the file. `file` says who opened
it, whether the payload is written and whether it is older than `staleMs`; two starts may
believe they hold the lock, and the port tells them apart, which is what `ServesOnPort` and
`NoFileLeftOver` are about. A restart inside the process is another start to the file, so it
is left to `GatewayRunLoop`. `GatewayRunLoop` uses the abstract form of this lock: a file that is ours,
another's or free.

## 3. Runs

| Run | Instance | Distinct states | Shows |
|---|---|---|---|
| `queue` | 3 tasks on 2 lanes, caps requested {0, 2}, one reset | 317 152 | `TypeOK`, `NoWedgedLane`, `WorkConserving`, `SlotsAccounted`, `DrainedMeansFinished`; refinement `ImplementsContract`; liveness `EveryTaskLeavesQueue` |
| `session_runs` | 2 runs of one session and a cron run, one restart | 1 388 146 | `Inv` (`RegistryNamesLatest`, `NoLostWaiter`), `OneRunUnlessTimedOut`, `CleanRestartIsQuiet`, `NoCircularWait` |
| `run_loop` | 3 starts, 2 requests, a stop | 26 853 | `Inv` (`NoLeakedServer`, `ServesUnderLock`, `HandoverIsFree`, `IdleWithoutLock`), `OpenQueueUnlessEarly`; `ShutdownEnds`, `StopEnds` |
| `followup` | 3 messages of 2 routes, cap 2, 2 queue objects, one clear, modes and policies that change | 63 918 | `Inv` (`OneDrainPerSession`, `NeverStranded`, `DrainHasWork`), `NothingLostQuiet`, `DeliveredOnce`; `EveryMessageLeaves` |
| `delivery` | a delivery of two payloads and a left-over one, 2 restarts, one fault, retry limit 2 | 2 002 744 | `Inv` (`RetriesBounded`), `NothingForgotten`, `DoubledForAReason`, `SettledForGood`; `BackoffKept`, `ReadyIsReached` |
| `delivery_lost` | one bestEffort delivery, one restart, no fault | violation | `BestEffortNotForgotten` fails: a replay swallows errors and acknowledges |
| `heartbeats` | 2 agents, 2 runners, one request, one change | 351 329 | `Inv` (`NeverStalled`, `OneBatch`), `NoWakeLost`; `HeartbeatsKeepFiring` |
| `heartbeats_enable` | one agent, one runner, two changes | violation | `EnableTurnsBackOn` fails: an interval that came while switched off |
| `cron` | a deleting one-shot and a recurring job with one event, or a one-shot job with two; 2 services | 637 094 | `Inv` (`MarkersHold`, `NoOverlap`), `NeverAsleep`; `DueSlotsKept`, `OnceIsOnce` |
| `node_link` | one node, 2 connections, 2 calls of different keys, a queue of one, one command that may be forbidden, one failing replay per command | 2 069 544 | `Inv` (`WaitsOnLiveLink`, `RunsAccountedFor`); `SessionKept`, `KeptUntilAcked` |
| `node_retry` | the same with a call and its retry under one key, a queue of two, an unchanging policy | 788 428 | `Inv`; `EveryInvokeAnswered` |
| `gateway_lock` | 3 starts, any of them killed, forced to exit or unable to write, one bind retry, a foreign program on the port | 108 612 | `LockInv` (`ServesOnPort`, `NoFileLeftOver`), `FailsForAReason`; `StartEnds` |

Every module has a type invariant, `TypeOK` (`LockTypeOK` in `GatewayLock`, whose names
differ from those of `GatewayRunLoop` so that one module can extend both); where the table
says `Inv` or `LockInv` it is one of its conjuncts.

**Why the bounds are enough.** Each is the least at which the interesting case comes
up, and the mistakes show that it does: three tasks let one task enqueue from its
prefix and another be preempted by a reset; one reset or restart is what separates two
lifecycles; three messages with a cap of two overflow during a turn; one fault covers a
crash at each single step, two passes a crash in a replay of a replay; two runners let
a batch of the first end during one of the second; two services let a hot reload meet a
run, and three units of time let a job become due during one; two connections let a node
reconnect before its old socket is seen to close; three starts are the least at which one
removes the file that a second has created while a third one reads it. In `cron` the jobs
that are created, crashes, reloads and all requests but reads count as events, at most
three (`MaxEvents`), and markers grow stale after one unit (`Stuck`). Bounds are named
constants and appear as guards (`MaxGeneration`, `MaxRestarts`, `MaxStarts`, `MaxQueues`,
`MaxClears`, `MaxPasses`, `MaxFaults`, `MaxRunners`, `MaxRequests`, `MaxChanges`,
`MaxEvents`, `MaxTime`, `MaxServices`, `MaxFailures`).
They end behaviours, which is why deadlock is not checked where a bounded system comes
to rest (SessionRuns when every request is made, FollowupQueue, DeliveryQueue,
GatewayRunLoop after its exit, Heartbeats, Cron at the end of its clock, NodeLink,
GatewayLock when every start has ended). `CommandQueue` is checked for deadlock.

**Fairness.** Weak fairness stands for "the event loop gets around to it": a pump goes
on, a settled promise resumes its awaiter, a timer that is armed fires. Strong fairness
is used where something else may keep disabling the step: a task body that ends
(`TaskFinishes`; runs have timeouts of their own), a drain that is rescheduled and a
turn that ends (`FollowupQueue`), a heartbeat run that is not each time turned away by
a busy lane. Nothing is assumed of steps that need somebody outside: requests, signals,
configuration changes. In `GatewayRunLoop` a close may hang for ever and only the timer
of the forced exit is fair; in `Heartbeats` runs of a runner that was stopped may hang
for ever. `NodeLink` asks for the timers of each call, one after the other (`InvokeTimeout`, the waits), and for the push
service to answer or fail, never for a node to come back or to answer. `GatewayLock` asks
for the calls of a start to return and, strongly, for its deadline (`TimeOut`), since the
clock runs on however often the start polls in between. `DeliveryQueue` and `Cron` need no
fairness: their temporal properties are action properties.

**What the violations show.** Both runs check a sentence of the repository and have a
short counterexample:

1. `BestEffortNotForgotten` (comment at `deliver.ts:503`). The replay passes
   `bestEffort` without `onError`, so a payload that fails again counts as delivered.
2. `EnableTurnsBackOn` (docs/cli/system.md:41). An interval that fires while heartbeats
   are disabled is dropped without arming the next timer; enabling arms nothing.

**Further disagreements.** The modules state these sentences too, beside the weaker
property that holds. TLC refutes each on the instance of the passing run or a smaller
one, but no configuration is kept for it:

- `OneRunPerSession` (docs/concepts/queue.md:83). A drain times out, `resetAllLanes`
  takes the slots back, and the session lane starts its next run while the first one
  still executes. The session write lock does not help: it is re-entrant within the
  process. Holds as `OneRunUnlessTimedOut`.
- `ServesWithOpenQueue` (comment of `markGatewayDraining`, run-loop.ts:128). A restart
  signal during `params.start()` closes the queue; the resolver it calls is null or
  spent, so no reset follows, and the server that comes up refuses every message. Holds
  as `OpenQueueUnlessEarly`.
- `PendingRestartsCoalesce` (docs/gateway/configuration.md:498). A deferred request
  polls on after another request has restarted the gateway, and restarts it again
  (restart.ts:225).
- `NothingLost` (docs/concepts/queue.md:31, :69). A drop during a turn shifts the items;
  the removal by position then deletes messages no turn has carried. Holds as
  `NothingLostQuiet`.
- `ForceKeepsSchedule` (cron/service/timer.ts:306). The second forced run in a row takes
  the first for the last scheduled run and moves the next run to that run plus the
  period.
- `CatchupKeepsDueSlots` (cron/service/timer.ts:986). The section after the catch-up, at
  the end of `start` (ops.ts:117-120), calls `recomputeNextRuns`, which advances the very
  values the comment wants preserved. `DueSlotsKept` excludes that step only.
- `ConnectedIsConnected` (docs/cli/nodes.md:37). A close event during the awaits of a
  connect request comes before the registration and so never undoes it: the node stays
  listed (message-handler.ts:995).
- `CrashesLeaveNoStaleLock` (docs/gateway/gateway-lock.md:18). A start killed between
  creating the lock file and writing its payload leaves a file without owner, at which
  others give up until it is older than `staleMs`; so does one that could not write it, and
  after a forced exit, as after a kill, the file stays until a start finds its owner dead.
  Holds as `FailsForAReason`, which excuses the others when some process left its file.

## 4. Proofs

`CommandQueueProofs` proves, for all sets of lanes and tasks, all functions `LaneOf`,
all requested caps and any number of resets (assumptions `LaneOfAssumption`,
`RequestedAssumption`, `MaxGenerationAssumption`):

- `TypeCorrect`: `Spec => []TypeOK`;
- `NeverWedged`: `Spec => []NoWedgedLane`;
- `AlwaysWorkConserving`: `Spec => []WorkConserving`;
- `EverySlotAccounted`: `Spec => []SlotsAccounted`;
- `DrainedIsFinished`: `Spec => []DrainedMeansFinished`;
- `QueueKeepsContract`: `Spec => ImplementsContract`, the refinement of `LaneContract`.

Neither `NoWedgedLane` nor `WorkConserving` is inductive alone. `WorkConserving` speaks of the moments
when the stack is empty; between them a lane may well have a free slot and waiting
work. What is kept by every step is `WorkIsPumped`: such a lane has a pump on the stack
or is still on the list of the reset. That in turn needs `NoWedgedLane`, because
`drainLane` does nothing when the flag is raised, and only a pump on the stack makes
that harmless. The inductive invariant is `PumpInv == NoWedgedLane /\ WorkIsPumped`,
over `TypeOK`; `PumpInvStep` treats every action, with lemmas on the two shared
procedures `DrainLane` and `CompleteTask` and on the stack as a sequence (`Push`, `Pop`,
`Shift`). When the stack is empty nothing is on the list of a reset either, and no lane
can be pumping, so `WorkConserving` follows.

`SlotsAccounted` needs an invariant of its own, `SlotInv`. A completion frees the slot
of the task it names only when the generations agree, so the proof must know that a task
is never ahead of its lane (`NotAhead`: after a reset every running task is an orphan,
and the empty set of slots is right); that a task which starts is not already on the
stack or about to settle (`FramesRun`: only running tasks are on the stack, each once);
and that the head of a queue is a task of that lane which nobody has started
(`QueueHolds`, `NoRepeats`: the entries of a queue belong to its lane, wait, and are there
once). `FramePushed`, `FramePopped`, `EntriesAppended` and `EntriesShifted` are the facts
about sequences; `SlotsPointwise` turns the equality of sets into a statement about one
task; then there is one lemma per action that disturbs a conjunct (`SlotInvEnqueues`,
`SlotInvStarts`, `SlotInvThrows`, `SlotInvFinishes`, `SlotInvSettles`, `SlotInvClears`,
`SlotInvResets`) and `SlotInvStep` combines them.

`DrainedMeansFinished` speaks of the moment `waitForActiveTasks` answers, when only the
slots are looked at. `WaitInv` is what makes that enough: every task of the snapshot is
running or settled, never queued or started again, and while the wait lasts a running one is
of the generation of its lane, since nobody resets the lanes during it (the run loop, their
only user, awaits the wait before it restarts); so by `SlotsAccounted` it keeps
its slot until its promise is about to settle. `WaitGoesOn` covers the steps between two
checks.

The refinement needs `SlotInv` at one place: the contract settles a promise only
of a running task without a slot, and that the task of a settling frame is one follows
from `FramesRun` and `SlotsAccounted` (`SettleIsAllowed`). A completion is a release or,
for a task that a reset has orphaned, a stutter (`CompleteTaskReleases`); what only moves
frames is a stutter (`ImplementsStep`).

`SessionRunsProofs` proves, for any runs, sessions, requested lanes, caps and number of
restarts (`RunsAssumption`), `OneRunTouchesASession`: `Spec => []OneRunUnlessTimedOut`,
`RestartsAreClean`: `Spec => []CleanRestartIsQuiet`, and `RegistryAgrees`:
`Spec => []Inv`. For the last, an end of a body clears the handle only if it is its own,
so the run that registered last keeps it whichever orphan of its session ends meanwhile
(`EndBodyStep`). A run that executes holds a task of a global lane, not of its session;
that it also holds the only slot of its session has to be carried through the nesting:
the session task cannot settle, nor give its slot back, before the global task has ended
(`Nested`, `HoldsSession`), and a session lane keeps its one slot because only the main
lane is resized and no session is called `main` (`OneSlot`). A restart takes all slots
back, so `HoldsSession` survives it only if no run is in a global lane by then: during a
drain each of them is in the snapshot (`DrainInv`), since submissions are refused, and a
task that leaves the snapshot's slots has ended (`OverIsQuiet`). The steps of the lanes
are those of `LaneContract`; `SubmitStep`, `StartStep`, `ReleaseStep`, `SettleStep` and
`ClearStep` say what each does to the lanes, whoever takes it, so together with
`QueueKeepsContract` the argument reaches the pump itself.

`GatewayProofs` proves two modules. Of the run loop, for any set of requests and any number of starts
(`MaxStartsAssumption`), `ControlIsHandedOver`: `Spec => []Inv`, and `QueueOpensAgain`:
`Spec => []OpenQueueUnlessEarly`. `NoLeakedServer` is not inductive: that the set of
listeners is empty when control is handed over follows only if it was within the server
the loop knows while the shutdown closed that one. `OpenIsKnown` says what may listen at
each await; `ShutdownOfWaiter`, that a shutdown which was not early finds the loop
waiting; `WaiterIsFresh`, that the loop can then be resumed, so that the queue is reset;
`LockHeld` and `LockIsFile` tie handle, file and phase. `LoopInv` is their conjunction.
`BeginCloseStep`, `RequestRestartStep` and `FinishRestartStep` treat what several actions
share. The type invariant is proved one group of variables at a time.

Of the lock, for any number of starts and retries and any way in which they end
(`Constants`), it proves `LockIsCleanedUp`: `LockSpec => []LockInv`, and
`NobodyFailsForNothing`: `LockSpec => []FailsForAReason`. The first is inductive with the
type of the state: a file has an opener that holds it or left it (`OpenerStays`), since a
release removes whatever file there is. The second is not. `ObstructedForAReason` says
already of a start that may still fail what the property says of one that has: if it has
met a file or gives the port up, somebody is in the way who holds the file, serves, was
stopped or left the file (`InTheWay`), or a foreign program has listened (`Excused`,
`ForeignIsNoted`). It is kept because a start leaves `InTheWay` only by giving up at the
port, and whoever has taken that from it is in the way (`PortTaken`, `ExcusedStays`).

`NodeLinkProofs` proves, for any nodes, connections, calls, keys and limit of the queues
(`Constants`), `NoInvokeOnADeadLink`: `Spec => []WaitsOnLiveLink`, `SessionsAreKept`:
`Spec => SessionKept`, `RunsAreAccountedFor`: `Spec => []Inv`, and `QueuedIsKept`:
`Spec => KeptUntilAcked`. For the first two the invariant (`IInv`) relates the two maps of
the registry (`MapsAgree`: the session listed for a node is registered, and its connection
is of that node) and the pending invokes to them (`SentToRegistered`).

`RunsAccountedFor` bounds a counter that is raised at two places: a node runs a request that
it has taken, or the app replays a queued action. It is inductive only together with where
the right to run is kept. `Places` says that a call has one frame (a request, what the node
works on, or its result), or one entry in a queue and its replay, or none. `Unrun` names the
calls whose command may still run: those with a request, with an outcome that says the app
is in the background, or with an entry that does not wait for its acknowledgement. `Spent`
are the calls that were sent and are not such; `Accounted`, that no key has run more often
than there are replays of it left without acknowledgement (`unacked`) and spent calls of
it. A step that runs a command spends a call (`AccountedRun`), a failed acknowledgement
makes one unrun again and is counted (`AccountedLost`), a replay whose command fails counts
on both sides (`AccountedFailure`), and the others only spend (`AccountedKept`). `PlacesShrink` and
`PlacesMove` treat the steps that drop or move an entry; `WithoutFacts`, `Enqueued` and
`TailOf` say what the filters and the bounded queue leave. Cardinalities need the calls begun
so far to be finitely many, which is an invariant and no assumption. `KeptUntilAcked` follows
from the shape of the queues (`AppInv`), one action at a time.

`FollowupQueueProofs` proves, for any messages, cap, settings and number of resets
(`FollowupAssumption`), `SessionIsDrained`: `Spec => []Inv`, that is the type invariant,
`OneDrainPerSession`, `NeverStranded` and `DrainHasWork`; `CarriedOnce`:
`Spec => []DeliveredOnce`; and `NothingIsLost`: `Spec => []NothingLostQuiet`. That a drain never spins needs
to know what it finds when its loop breaks: a dropped message waits for a summary, and
in mode `followup` it has an item to take the turn of (`DroppedHasItem`); whoever has
work knows whom to run (`RunIsKnown`); and during a turn that will not tell a summary
nothing has been dropped (`DrainInv`), so that what is left after the turn is again
drained or nothing. `DrainOfKey` says that only the object of the key is drained, which
gives the single drain, and `UnusedIsEmpty` that a new object is empty. The effects of
`Trim`, `AfterTurn` and `Finally` are lemmas; `StoreStep` treats accepted and rejected
messages together, `FinallyStep` every end of a drain.

`DeliveredOnce` needs `OnceInv`: a message is in one object once (`ItemsDistinct`,
`StocksDisjoint`), what is still to be carried has not been carried (`StockIsNew`), and
those messages of a turn that are still in the object are among its first ones, as many as
the turn has (`TurnInFront`). The removal is by position, so this is where a wrong count
would show: after an overflow other messages are removed than were carried, but those that
were carried are gone as well. `NothingLost` fails for just that reason, so `LossInv` has
the absence of the three mishaps as its hypothesis: without them the messages of a turn are
exactly the first ones when it ends (`TurnIsPrefix`), only the object of the key has work
(`WorkIsOfKey`), and every accepted message is in an object or settled (`NothingGone`).

`DeliveryQueueProofs` proves, for any deliveries, payloads, delays, retry limit, passes and
number of faults (`DeliveryAssumption`), all properties of the run `delivery`:
`NothingIsForgotten`, `SentTwiceForAReason`, `SettledStaysSettled`, `RetriesAreBounded`
(`Spec => []Inv`), and the action properties `DelaysAreKept` and `ReadyEntriesAreReached`.
The code guards nothing with a lock; what carries the proofs is who holds an entry.
`HeldInv` says that a delivery has one holder unless a pass took it over (`HeldOnce`), that
until it is acknowledged what is held is on disk (`OnDisk`), and that as long as it is not
shared the copy of a pass (`SeenIsEntry`) and what `failDelivery` has read (`ReadIsEntry`)
are what the file says. From these follow that a late write revives nothing, and that a
decision on a stale copy respects the delay. `Carried` says of each step of an actor what
the channel has by then, so that an acknowledgement, the one thing that removes a file for
good, finds all payloads there, or an abort. `RetriesRecorded` compares the replays with the
count in the file: they differ by one while an attempt is under way (`Trying`) and by at most
the number of faults. `Once` says of a delivery without an excuse that while it waits the
channel has got nothing of it, and while it is sent nothing of what is left.

`HeartbeatsProofs` proves, for any finite set of agents, reasons and bounds
(`HeartbeatsAssumption`), `OneTimerOneBatch`: `Spec => []Inv`, and `NoWakeIsLost`:
`Spec => []NoWakeLost`. `OneBatch` rests on `Alone`: unless a runner was started during a
batch, a batch that is being executed is the only one and has raised `running`, which
`WakeTimer` looks at before it begins another. `Served` is stronger than `NoWakeLost`, which
also counts the wake that is just being executed: the agents that this one has reached are
owed nothing, and one it is put back for is covered by what it is put back as. The
coalescing of requests keeps the more urgent reason for each target (`QueueKeeps`), which
covers whatever the other one did (`QueueCovers`).

`CronProofs` proves, for any finite set of jobs, any files and schedules to begin with, all
limits and delays and any number of services and events (`CronAssumption`), every property
of the run `cron`: `NoJobRunsTwiceAtATime`: `Spec => []Inv`, `SchedulerStaysAwake`:
`Spec => []NeverAsleep`, `DueRunsAreKept`: `Spec => DueSlotsKept`, and `OneShotsRunOnce`:
`Spec => OnceIsOnce`. The lock is held in one section at a time only, so what protects a job
between being taken and being recorded is its marker in a file that others rewrite from
their own copies. The invariant (`IInv`) says of every job that is not excused that one
runner holds it (`HoldOnce`), and that while a service has read the jobs a marker is in the
file or in memory only while somebody holds the job (`MarkedHeld`) and is in both as long as
it is held (`MarkersHold`, `MarksMem`). Copies are right (`Agree`: the copy is the file but
for markers) because only the newest service acts (`Alone`): a crash leaves no runner, and a
start that clears the markers is by itself. A reload that meets a run does leave an old
service beside the new one; it excuses all jobs, and from then on nothing is claimed but the
types. These facts are therefore stated together (`Calm`), under the hypothesis that some job
is not excused. `SoundDisk` says how the next run of a job agrees with the rest of it: an
enabled job lacks one only if it is a one-shot job that has succeeded, and it lies after the
last run. `DoneOver`, that a one-shot job whose success is recorded is disabled, and
`HeldNew`, that no tick or start holds such a job, give `OnceIsOnce`.

The steps of the services are of three kinds, each with a lemma: it rewrites the file and
at most ends what is held (`Rewrite`), takes jobs (`Take`), or moves beside the file
(`Beside`); a lemma of its own treats an outcome that is recorded, a change by a request, a
request that is given up and a new service (`RecordCalm`, `ChangeCalm`, `DropCalm`,
`CreateCalm`). What the recomputations and the recorded outcome make of one job are lemmas about operators
(`NextRunFacts`, `MaintainedFacts`, `FinishedFacts`, `MergedFacts`). `DueRunsAreKept` follows
action by action from what maintenance keeps (`SlotStays`), and `OneShotsRunOnce` from
`HeldNew` (`NoSecondRun`), since only `StartBody` and requests make a body run
(`OnlyBodiesBegin`). The attempt to prove that only a job without a holder can be taken
failed at `Ask`: the marker is dropped for its age in memory, where a first version of the
model did not look, and the request then runs the job a second time. The model now counts
that as one of the excuses. The clock of the run `cron` ends before this can come up, but the
proof has no such bound; with `OneRecurring` for the file of jobs, one service and four units
of time TLC finds the behaviour and, with the excuse, that `Inv` holds.

Only model-checked: liveness under fairness (`EveryTaskLeavesQueue`, `ShutdownEnds`,
`StopEnds`, `EveryMessageLeaves`, `HeartbeatsKeepFiring`, `EveryInvokeAnswered`, `StartEnds`)
and `NoCircularWait`, which is stated with `ENABLED`: both are out of the prover's reach and
stay with TLC. The promises that TLC refutes have, of course, no theorem; the weaker ones that
hold have. No theorem rests on the bounds of section 3: they are parameters of the modules and
arbitrary numbers in the proofs.

## 5. Plan

In this order, each with its passing run and its mistakes:

1. **SessionWriteLock** with two processes: re-entrance, stale reclaim, watchdog.
2. **ReplyDispatcher and InboundDebounce**: order of flushes, idle detection.
3. **AnnounceQueue and the subagent registry** across restarts.
4. Exec approvals, gateway client, config reload, process supervisor.

Instances of small components share a run by checking several properties of one
composed module, since distinct questions and not modules decide on runs.

Each with its theorems: the safety invariants of the runs first, from an inductive one that
TLC has checked, then the action properties. Of the modules above none is left to prove
but what section 4 says is out of reach.
