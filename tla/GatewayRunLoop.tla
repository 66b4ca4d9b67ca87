------------------------------ MODULE GatewayRunLoop ------------------------------
(***************************************************************************)
(* The process of a gateway: the loop that starts the server and waits for *)
(* a restart (cli/gateway-cli/run-loop.ts), the shutdown a signal begins,  *)
(* and the requests that lead to the signal (infra/restart.ts and          *)
(* gateway/server-reload-handlers.ts).                                     *)
(*                                                                         *)
(* The loop and the shutdown are two asynchronous functions on one thread; *)
(* they interleave at their awaits, and so do timers and signals.          *)
(*                                                                         *)
(* Abstracted: time (a timer fires at any moment it is armed); how much    *)
(* work is active.  process.emit calls the SIGUSR1 handler, which consumes *)
(* authorization and token before emitGatewayRestart returns, so neither   *)
(* outlives a step and neither is a variable.  A SIGUSR1 from outside is a *)
(* Schedule.  The lock file of another process is never removed by this    *)
(* one: GatewayLock is about that.                                         *)
(***************************************************************************)
EXTENDS Integers, FiniteSets

CONSTANTS
  Requests,    \* requests for a restart, each made at most once
  MaxStarts    \* bound: number of calls of params.start() explored

ASSUME MaxStartsAssumption == MaxStarts \in Nat \ {0}

VARIABLES
  loop,            \* what the loop awaits: "starting", "failing", "waiting"
  starts,          \* number of params.start() calls; names the server started
  firstStart,      \* isFirstStart
  server,          \* the server the loop knows, 0 for null
  open,            \* servers that listen
  resolver,        \* restartResolver: "none", "fresh", or "spent" once called
  phase,           \* the await a shutdown is at; "off" is ~shuttingDown
  closing,         \* the server whose close() the shutdown awaits
  action,          \* "stop" or "restart": what the shutdown is for
  lock,            \* the loop holds a lock handle
  lockFile,        \* whose lock file is on disk: "us", "other" or "none"
  gatewayDraining, \* the command queue refuses what is enqueued
  work,            \* some task, reply or run is active
  request,         \* request[r]: how far the request r has come
  madeBy,          \* madeBy[r]: the server whose watcher asked for r
  madeAfter,       \* history: the requests that had restarted the gateway
                   \* when r was made
  stop,            \* SIGTERM or SIGINT: "none", "accepted" or "ignored"
  exitCode,        \* -1 while the process is alive
  respawned,       \* a child or a supervisor takes over from this process
  mishaps          \* history: what went wrong so far, see Mishaps

loopVars == <<loop, starts, firstStart, resolver>>
serverVars == <<server, open>>
shutdownVars == <<phase, closing, action>>
lockVars == <<lock, lockFile>>
requestVars == <<request, madeBy, madeAfter>>
endVars == <<stop, exitCode, respawned>>
vars == <<loopVars, serverVars, shutdownVars, lockVars, gatewayDraining, work,
          requestVars, endVars, mishaps>>

\* A signal was acted upon while no server was there to be closed; a close of
\* a server failed; a start after the first one failed.
Mishaps == {"early", "closeFailed", "startFailed"}

TypeOK ==
  /\ loop \in {"starting", "failing", "waiting"}
  /\ starts \in 1 .. MaxStarts
  /\ firstStart \in BOOLEAN
  /\ server \in 0 .. starts
  /\ open \subseteq 1 .. starts
  /\ resolver \in {"none", "fresh", "spent"}
  /\ phase \in {"off", "draining", "closing", "releasing", "reacquiring"}
  /\ closing \in 0 .. starts
  /\ action \in {"stop", "restart"}
  /\ lock \in BOOLEAN
  /\ lockFile \in {"us", "other", "none"}
  /\ gatewayDraining \in BOOLEAN
  /\ work \in BOOLEAN
  /\ request \in [Requests -> {"new", "timer", "polling", "watching",
                            "coalesced", "ignored", "restarted"}]
  /\ madeBy \in [Requests -> 0 .. starts]
  /\ madeAfter \in [Requests -> SUBSET Requests]
  /\ stop \in {"none", "accepted", "ignored"}
  /\ exitCode \in {-1, 0, 1}
  /\ respawned \in BOOLEAN
  /\ mishaps \subseteq Mishaps

\* runGatewayLoop has the lock and its handlers, and awaits the first start.
Init ==
  /\ loop = "starting" /\ starts = 1 /\ firstStart = TRUE /\ resolver = "none"
  /\ server = 0 /\ open = {}
  /\ phase = "off" /\ closing = 0 /\ action = "stop"
  /\ lock = TRUE /\ lockFile = "us"
  /\ gatewayDraining = FALSE /\ work = FALSE
  /\ request = [r \in Requests |-> "new"]
  /\ madeBy = [r \in Requests |-> 0]
  /\ madeAfter = [r \in Requests |-> {}]
  /\ stop = "none" /\ exitCode = -1 /\ respawned = FALSE
  /\ mishaps = {}

Alive == exitCode = -1
ShuttingDown == phase # "off"

-----------------------------------------------------------------------------
\* params.start() resolves; the port is free unless a server still listens.
StartReturns ==
  /\ Alive
  /\ loop = "starting"
  /\ open = {}
  /\ server' = starts
  /\ open' = {starts}
  /\ firstStart' = FALSE
  /\ loop' = "waiting"
  /\ resolver' = "fresh"
  /\ UNCHANGED <<starts, shutdownVars, lockVars, gatewayDraining, work,
                 requestVars, endVars, mishaps>>

\* The first start throws: the outer finally clause, then the process ends.
FirstStartFails ==
  /\ Alive
  /\ loop = "starting"
  /\ firstStart
  /\ lock' = FALSE
  /\ lockFile' = IF lock THEN "none" ELSE lockFile
  /\ exitCode' = 1
  /\ UNCHANGED <<loopVars, serverVars, shutdownVars, gatewayDraining, work,
                 requestVars, stop, respawned, mishaps>>

\* (mistake) RestartFails that keeps the lock of a server that never came up.
RestartFailsKeepsLock ==
  /\ Alive
  /\ loop = "starting"
  /\ ~firstStart
  /\ server' = 0
  /\ mishaps' = mishaps \cup {"startFailed"}
  /\ loop' = "waiting"
  /\ resolver' = "fresh"
  /\ UNCHANGED <<starts, firstStart, open, shutdownVars, lockVars,
                 gatewayDraining, work, requestVars, endVars>>

\* A later start throws: without a lock nothing is awaited before the loop
\* waits for a restart.
RestartFails ==
  /\ Alive
  /\ loop = "starting"
  /\ ~firstStart
  /\ server' = 0
  /\ mishaps' = mishaps \cup {"startFailed"}
  /\ \/ lock /\ loop' = "failing" /\ UNCHANGED resolver
     \/ ~lock /\ loop' = "waiting" /\ resolver' = "fresh"
  /\ UNCHANGED <<starts, firstStart, open, shutdownVars, lockVars,
                 gatewayDraining, work, requestVars, endVars>>

\* releaseLockIfHeld in the catch clause returns.
FailedStartReleases ==
  /\ Alive
  /\ loop = "failing"
  /\ lock' = FALSE
  /\ lockFile' = "none"
  /\ loop' = "waiting"
  /\ resolver' = "fresh"
  /\ UNCHANGED <<starts, firstStart, serverVars, shutdownVars,
                 gatewayDraining, work, requestVars, endVars, mishaps>>

-----------------------------------------------------------------------------
\* (mistake) The close of the server forgotten.
BeginNoClose ==
  /\ phase' = "releasing"
  /\ closing' = server

\* server?.close(...): without a server there is nothing to await.
BeginClose ==
  /\ phase' = IF server = 0 THEN "releasing" ELSE "closing"
  /\ closing' = server

\* A signal that finds the loop waiting for it is not early.
NoteEarly == mishaps' = IF loop = "waiting" THEN mishaps
                                            ELSE mishaps \cup {"early"}

\* request("restart"), which a shutdown in progress ignores.  Active tasks
\* and runs are waited for; pending replies count as work, but not here.
RequestRestart ==
  \/ /\ ShuttingDown
     /\ UNCHANGED <<shutdownVars, gatewayDraining, mishaps>>
  \/ /\ ~ShuttingDown
     /\ \/ work /\ phase' = "draining" /\ UNCHANGED closing
        \/ BeginClose
     /\ action' = "restart"
     /\ gatewayDraining' = TRUE
     /\ NoteEarly

\* emitGatewayRestart for r: a scheduled restart is dropped, then the handler
\* of SIGUSR1 is called.
Emit(r) ==
  /\ request' = [q \in Requests |->
                   CASE q = r -> IF ShuttingDown THEN "ignored" ELSE "restarted"
                     [] q # r /\ request[q] = "timer" -> "coalesced"
                     [] OTHER -> request[q]]
  /\ RequestRestart

\* onSigterm, onSigint
Stop ==
  /\ Alive
  /\ stop = "none"
  /\ \/ /\ ShuttingDown
        /\ stop' = "ignored"
        /\ UNCHANGED <<shutdownVars, mishaps>>
     \/ /\ ~ShuttingDown
        /\ stop' = "accepted"
        /\ BeginClose
        /\ action' = "stop"
        /\ NoteEarly
  /\ UNCHANGED <<loopVars, serverVars, lockVars, gatewayDraining, work,
                 requestVars, exitCode, respawned>>

\* The drain answers, in time or not.
DrainOver ==
  /\ Alive
  /\ phase = "draining"
  /\ BeginClose
  /\ UNCHANGED <<loopVars, serverVars, action, lockVars, gatewayDraining, work,
                 requestVars, endVars, mishaps>>

\* (mistake) The timer cleared before the server is closed.
ForceExitWhileDraining ==
  /\ Alive
  /\ phase = "draining"
  /\ exitCode' = 1
  /\ UNCHANGED <<loopVars, serverVars, shutdownVars, lockVars, gatewayDraining,
                 work, requestVars, stop, respawned, mishaps>>

\* The timer that the finally clause clears.
ForceExit ==
  /\ Alive
  /\ phase \in {"draining", "closing"}
  /\ exitCode' = IF action = "restart" THEN 1 ELSE 0
  /\ UNCHANGED <<loopVars, serverVars, shutdownVars, lockVars, gatewayDraining,
                 work, requestVars, stop, respawned, mishaps>>

\* close() returns or throws; the finally clause forgets the server.
CloseServer ==
  /\ Alive
  /\ phase = "closing"
  /\ \/ open' = open \ {closing} /\ UNCHANGED mishaps
     \/ mishaps' = mishaps \cup {"closeFailed"} /\ UNCHANGED open
  /\ server' = 0
  /\ phase' = "releasing"
  /\ UNCHANGED <<loopVars, closing, action, lockVars, gatewayDraining, work,
                 requestVars, endVars>>

\* (mistake) Restart without resetAllLanes.
FinishWithoutReset ==
  /\ phase' = "off"
  /\ UNCHANGED gatewayDraining
  /\ \/ /\ resolver = "fresh"
        /\ starts < MaxStarts
        /\ resolver' = "spent"
        /\ loop' = "starting"
        /\ starts' = starts + 1
     \/ /\ resolver # "fresh"
        /\ UNCHANGED <<resolver, loop, starts>>

\* The end of handleRestartAfterServerClose, up to params.start(): a resolver
\* that the loop awaits runs resetAllLanes and starts the next server; a spent
\* one, or none, does nothing.
FinishRestart ==
  /\ phase' = "off"
  /\ \/ /\ resolver = "fresh"
        /\ starts < MaxStarts
        /\ resolver' = "spent"
        /\ gatewayDraining' = FALSE
        /\ loop' = "starting"
        /\ starts' = starts + 1
     \/ /\ resolver # "fresh"
        /\ UNCHANGED <<resolver, gatewayDraining, loop, starts>>

\* releaseLockIfHeld returns: a stop exits; a restart hands over to another
\* process and exits, or goes on in this one.
HandOver ==
  /\ exitCode' = 0
  /\ respawned' = (action = "restart")
  /\ UNCHANGED <<loopVars, phase, gatewayDraining>>

\* (mistake) Respawn first, release afterwards.
RespawnBeforeRelease ==
  /\ Alive
  /\ phase = "releasing"
  /\ \/ HandOver /\ UNCHANGED lockVars
     \/ /\ action = "restart"
        /\ lock' = FALSE
        /\ lockFile' = IF lock THEN "none" ELSE lockFile
        /\ UNCHANGED <<exitCode, respawned>>
        /\ \/ /\ lock
              /\ phase' = "reacquiring"
              /\ UNCHANGED <<loopVars, gatewayDraining>>
           \/ ~lock /\ FinishRestart /\ UNCHANGED firstStart
  /\ UNCHANGED <<serverVars, closing, action, work, requestVars, stop, mishaps>>

\* (mistake) Go on in this process without taking the lock back.
ReleaseLockForGood ==
  /\ Alive
  /\ phase = "releasing"
  /\ lock' = FALSE
  /\ lockFile' = IF lock THEN "none" ELSE lockFile
  /\ \/ HandOver
     \/ /\ action = "restart"
        /\ FinishRestart
        /\ UNCHANGED <<exitCode, respawned, firstStart>>
  /\ UNCHANGED <<serverVars, closing, action, work, requestVars, stop, mishaps>>

\* handleRestartAfterServerClose and handleStopAfterServerClose, up to the
\* attempt to take the lock back.
ReleaseLock ==
  /\ Alive
  /\ phase = "releasing"
  /\ lock' = FALSE
  /\ lockFile' = IF lock THEN "none" ELSE lockFile
  /\ \/ HandOver
     \/ /\ action = "restart"
        /\ UNCHANGED <<exitCode, respawned>>
        /\ \/ /\ lock
              /\ phase' = "reacquiring"
              /\ UNCHANGED <<loopVars, gatewayDraining>>
           \/ ~lock /\ FinishRestart /\ UNCHANGED firstStart
  /\ UNCHANGED <<serverVars, closing, action, work, requestVars, stop, mishaps>>

\* reacquireLockForInProcessRestart: somebody else may have been quicker.
ReacquireLock ==
  /\ Alive
  /\ phase = "reacquiring"
  /\ \/ /\ lockFile = "none"
        /\ lock' = TRUE
        /\ lockFile' = "us"
        /\ FinishRestart
        /\ UNCHANGED <<exitCode, firstStart>>
     \/ /\ exitCode' = 1
        /\ UNCHANGED <<loopVars, phase, lockVars, gatewayDraining>>
  /\ UNCHANGED <<serverVars, closing, action, work, requestVars, stop,
                 respawned, mishaps>>

\* Another gateway, which waits for the lock file or gives it back.
OtherProcess ==
  /\ \/ lockFile = "none" /\ lockFile' = "other"
     \/ lockFile = "other" /\ lockFile' = "none"
  /\ UNCHANGED <<loopVars, serverVars, shutdownVars, lock, gatewayDraining, work,
                 requestVars, endVars, mishaps>>

-----------------------------------------------------------------------------
\* Tasks and runs begin while the queue accepts them, and end.
WorkChanges ==
  /\ Alive
  /\ work \/ (server # 0 /\ ~gatewayDraining)
  /\ work' = ~work
  /\ UNCHANGED <<loopVars, serverVars, shutdownVars, lockVars, gatewayDraining,
                 requestVars, endVars, mishaps>>

Restarted == {r \in Requests : request[r] = "restarted"}

\* scheduleGatewaySigusr1Restart: of two scheduled requests one timer is left.
Schedule(r) ==
  /\ Alive
  /\ request[r] = "new"
  /\ madeAfter' = [madeAfter EXCEPT ![r] = Restarted]
  /\ LET timers == {q \in Requests : request[q] = "timer"} IN
       \E kept \in (IF timers = {} THEN {r} ELSE timers \cup {r}) :
         request' = [q \in Requests |->
                       CASE q = kept -> "timer"
                         [] q # kept /\ q \in timers \cup {r} -> "coalesced"
                         [] OTHER -> request[q]]
  /\ UNCHANGED <<loopVars, serverVars, shutdownVars, lockVars, gatewayDraining,
                 work, madeBy, endVars, mishaps>>

\* requestGatewayRestart of the config watcher of a server: at once when
\* idle, else one poll, however often the configuration changes.
ConfigChanges(r) ==
  /\ Alive
  /\ request[r] = "new"
  /\ server # 0
  /\ madeBy' = [madeBy EXCEPT ![r] = server]
  /\ madeAfter' = [madeAfter EXCEPT ![r] = Restarted]
  /\ LET pending == \E q \in Requests : request[q] = "watching" /\ madeBy[q] = server
     IN \/ /\ work
           /\ request' = [request EXCEPT ![r] = IF pending THEN "coalesced"
                                                    ELSE "watching"]
           /\ UNCHANGED <<shutdownVars, gatewayDraining, mishaps>>
        \/ ~work /\ Emit(r)
  /\ UNCHANGED <<loopVars, serverVars, lockVars, work, endVars>>

\* The timer of a scheduled restart: the signal when idle, else a poll.
TimerFires(r) ==
  /\ Alive
  /\ request[r] = "timer"
  /\ \/ /\ work
        /\ request' = [request EXCEPT ![r] = "polling"]
        /\ UNCHANGED <<shutdownVars, gatewayDraining, mishaps>>
     \/ ~work /\ Emit(r)
  /\ UNCHANGED <<loopVars, serverVars, lockVars, work, madeBy, madeAfter, endVars>>

\* A poll of deferGatewayRestartUntilIdle finds no work, or is at its limit.
\* No server stops the poll when it closes.
PollFires(r) ==
  /\ Alive
  /\ request[r] \in {"polling", "watching"}
  /\ Emit(r)
  /\ UNCHANGED <<loopVars, serverVars, lockVars, work, madeBy, madeAfter, endVars>>

Next ==
  \/ StartReturns \/ FirstStartFails \/ RestartFails \/ FailedStartReleases
  \/ Stop \/ DrainOver \/ ForceExit \/ CloseServer \/ ReleaseLock
  \/ ReacquireLock \/ OtherProcess \/ WorkChanges
  \/ \E r \in Requests : \/ Schedule(r) \/ ConfigChanges(r)
                         \/ TimerFires(r) \/ PollFires(r)

Spec == Init /\ [][Next]_vars

\* A start ends; a drain and the calls on the lock end by their timeouts; a
\* close may hang, and then the timer fires.
Fairness ==
  /\ WF_vars(StartReturns \/ FirstStartFails \/ RestartFails)
  /\ WF_vars(FailedStartReleases)
  /\ WF_vars(DrainOver)
  /\ WF_vars(ForceExit)
  /\ WF_vars(ReleaseLock)
  /\ WF_vars(ReacquireLock)

FairSpec == Spec /\ Fairness

-----------------------------------------------------------------------------
Serving == Alive /\ ~ShuttingDown /\ loop = "waiting" /\ server # 0

\* markGatewayDraining is for "restart so new enqueues fail fast": a server
\* that is up, with no restart under way, accepts messages.
ServesWithOpenQueue == Serving => ~gatewayDraining

\* ... which holds when each signal found a loop that waited for it.
OpenQueueUnlessEarly == "early" \in mishaps \/ ServesWithOpenQueue

\* docs/gateway/configuration.md: "Restart requests are coalesced while one is
\* already pending/in-flight".  A request that was pending when a restart
\* began does not restart the gateway once more.
PendingRestartsCoalesce ==
  [][\A r \in Requests :
       request[r] # "restarted" /\ request'[r] = "restarted"
         => madeAfter'[r] = Restarted]_vars

\* Only a server that is known, and so can be closed, listens; at most one.
NoLeakedServer ==
  Alive /\ mishaps \cap {"early", "closeFailed"} = {} => open \subseteq {server}

\* A server of this loop is up only under the lock, except after a failed
\* start, whose lock is not taken back by the restart that follows.
ServesUnderLock ==
  Serving /\ mishaps \cap {"early", "startFailed"} = {} => lock /\ lockFile = "us"

\* "Release the lock BEFORE spawning so the child can acquire it": whoever
\* takes over finds no lock and no server of this process in the way.
HandoverIsFree ==
  respawned => /\ lockFile # "us"
               /\ mishaps \cap {"early", "closeFailed"} = {} => open = {}

\* "Otherwise the process holds the lock but is not listening": a loop whose
\* start failed waits without lock, so that another gateway can come up.
IdleWithoutLock ==
  Alive /\ ~ShuttingDown /\ loop = "waiting" /\ server = 0 => ~lock

\* A shutdown ends, whatever hangs: in an exit or in a restart.
ShutdownEnds == ShuttingDown ~> (~ShuttingDown \/ ~Alive)

\* A stop that is acted upon ends the process.
StopEnds == (stop = "accepted") ~> ~Alive

\* Lock, port and server agree whenever control changes hands
\* (run-loop.ts:62-100, 229-257).
Inv == TypeOK /\ NoLeakedServer /\ ServesUnderLock /\ HandoverIsFree /\ IdleWithoutLock
=============================================================================
