---------------------------- MODULE GatewayProofs ----------------------------
(***************************************************************************)
(* Proofs about the process of a gateway: first about GatewayRunLoop, for   *)
(* any requests and any number of starts, then about GatewayLock, for any   *)
(* number of competing processes and retries, which may end in any of the   *)
(* ways the model knows.  The two do not share state.                       *)
(***************************************************************************)
EXTENDS GatewayRunLoop, GatewayLock, TLAPS

Early == "early" \in mishaps
CloseFailed == "closeFailed" \in mishaps
StartFailed == "startFailed" \in mishaps

\* The handle of the lock and the file on disk say the same.
LockIsFile == lock <=> lockFile = "us"

\* Who waits for a restart can be resumed; a start that failed is noted.
WaiterIsFresh == loop = "waiting" => resolver = "fresh"
FailureNoted == loop = "failing" => StartFailed

\* Handing over is the end of this process.
HandoverIsLast == respawned => ~Alive

\* Unless a signal was early, a shutdown finds the loop waiting ...
ShutdownOfWaiter == ~Early /\ ShuttingDown => loop = "waiting"

\* ... the queue is closed by a shutdown only, ...
ClosedByShutdown == ~Early /\ ~ShuttingDown => ~gatewayDraining

\* ... the lock is held except between release and reacquisition, ...
LockHeld == Alive /\ ~Early /\ ~StartFailed /\ phase # "reacquiring" => lock

\* ... and what listens is what the loop, or the shutdown, is about to close.
OpenIsKnown ==
  Alive /\ ~Early /\ ~CloseFailed =>
    /\ open \subseteq {server}
    /\ phase = "closing" => open \subseteq {closing}
    /\ phase \in {"releasing", "reacquiring"} => open = {}
    /\ loop \in {"starting", "failing"} => open = {}

LoopInv ==
  /\ LockIsFile /\ WaiterIsFresh /\ FailureNoted /\ HandoverIsLast /\ ShutdownOfWaiter
  /\ ClosedByShutdown /\ LockHeld /\ OpenIsKnown
  /\ HandoverIsFree /\ IdleWithoutLock

IInv == TypeOK /\ LoopInv

-----------------------------------------------------------------------------
(* Type correctness, one group of variables at a time                       *)

LoopType == /\ loop \in {"starting", "failing", "waiting"}
            /\ starts \in 1 .. MaxStarts
            /\ firstStart \in BOOLEAN
            /\ resolver \in {"none", "fresh", "spent"}
ServerType == server \in 0 .. starts /\ open \subseteq 1 .. starts
ShutdownType == /\ phase \in {"off", "draining", "closing", "releasing", "reacquiring"}
                /\ closing \in 0 .. starts
                /\ action \in {"stop", "restart"}
LockType == lock \in BOOLEAN /\ lockFile \in {"us", "other", "none"}
WorkType == gatewayDraining \in BOOLEAN /\ work \in BOOLEAN
RequestType == /\ request \in [Requests -> {"new", "timer", "polling", "watching",
                                         "coalesced", "ignored", "restarted"}]
               /\ madeBy \in [Requests -> 0 .. starts]
               /\ madeAfter \in [Requests -> SUBSET Requests]
EndType == /\ stop \in {"none", "accepted", "ignored"}
           /\ exitCode \in {-1, 0, 1}
           /\ respawned \in BOOLEAN
MishapType == mishaps \subseteq Mishaps

LEMMA Groups == TypeOK <=> /\ LoopType /\ ServerType /\ ShutdownType /\ LockType
                           /\ WorkType /\ RequestType /\ EndType /\ MishapType
BY DEF TypeOK, LoopType, ServerType, ShutdownType, LockType, WorkType, RequestType, EndType,
   MishapType

LEMMA GroupsNext == (/\ LoopType /\ ServerType /\ ShutdownType /\ LockType
                     /\ WorkType /\ RequestType /\ EndType /\ MishapType)' => TypeOK'
BY DEF TypeOK, LoopType, ServerType, ShutdownType, LockType, WorkType, RequestType, EndType,
   MishapType

\* Groups that a step leaves alone keep their type.
LEMMA Unchanged ==
  ASSUME TypeOK
  PROVE  /\ UNCHANGED loopVars => LoopType'
         /\ UNCHANGED serverVars /\ UNCHANGED starts => ServerType'
         /\ UNCHANGED shutdownVars /\ UNCHANGED starts => ShutdownType'
         /\ UNCHANGED lockVars => LockType'
         /\ UNCHANGED <<gatewayDraining, work>> => WorkType'
         /\ UNCHANGED requestVars /\ UNCHANGED starts => RequestType'
         /\ UNCHANGED endVars => EndType'
         /\ UNCHANGED mishaps => MishapType'
<1> USE Groups
<1>1. UNCHANGED loopVars => LoopType'
  BY DEF loopVars, LoopType
<1>2. UNCHANGED serverVars /\ UNCHANGED starts => ServerType'
  BY DEF serverVars, ServerType
<1>3. UNCHANGED shutdownVars /\ UNCHANGED starts => ShutdownType'
  BY DEF shutdownVars, ShutdownType
<1>4. UNCHANGED lockVars => LockType'
  BY DEF lockVars, LockType
<1>5. UNCHANGED <<gatewayDraining, work>> => WorkType'
  BY DEF WorkType
<1>6. UNCHANGED requestVars /\ UNCHANGED starts => RequestType'
  BY DEF requestVars, RequestType
<1>7. UNCHANGED endVars => EndType'
  BY DEF endVars, EndType
<1>8. UNCHANGED mishaps => MishapType'
  BY DEF MishapType
<1> QED
  BY <1>1, <1>2, <1>3, <1>4, <1>5, <1>6, <1>7, <1>8

LEMMA InitType == Init => TypeOK
<1> SUFFICES ASSUME Init PROVE TypeOK
  OBVIOUS
<1> USE DEF Init
<1>1. LoopType
  BY MaxStartsAssumption DEF LoopType
<1>2. ServerType
  BY DEF ServerType
<1>3. LockType /\ WorkType
  BY DEF LockType, WorkType
<1>4. MishapType
  BY DEF MishapType
<1>5. ShutdownType
  BY DEF ShutdownType
<1>6. EndType
  BY DEF EndType
<1>7. RequestType
  BY DEF RequestType
<1> QED
  BY <1>1, <1>2, <1>3, <1>4, <1>5, <1>6, <1>7, Groups

LEMMA NoteEarlyType == MishapType /\ NoteEarly => MishapType'
BY DEF MishapType, NoteEarly, Mishaps

LEMMA BeginCloseType ==
  ASSUME TypeOK, BeginClose, UNCHANGED starts, action' \in {"stop", "restart"}
  PROVE  ShutdownType'
<1>1. server \in 0 .. starts
  BY DEF TypeOK
<1> QED
  BY <1>1 DEF BeginClose, ShutdownType

\* What a request for a restart does to the variables it changes.
LEMMA RequestRestartType ==
  ASSUME TypeOK, RequestRestart, UNCHANGED <<starts, work>>
  PROVE  ShutdownType' /\ WorkType' /\ MishapType'
<1>1. CASE UNCHANGED <<shutdownVars, gatewayDraining, mishaps>>
  BY <1>1, Unchanged
<1>2. CASE ~UNCHANGED <<shutdownVars, gatewayDraining, mishaps>>
  <2>1. action' = "restart" /\ gatewayDraining' = TRUE /\ NoteEarly
    BY <1>2 DEF RequestRestart
  <2>2. CASE BeginClose
    BY <2>1, <2>2, BeginCloseType, NoteEarlyType, Groups DEF WorkType
  <2>3. CASE phase' = "draining" /\ UNCHANGED closing
    BY <2>1, <2>3, NoteEarlyType, Groups DEF ShutdownType, WorkType
  <2> QED
    BY <1>2, <2>2, <2>3 DEF RequestRestart
<1> QED
  BY <1>1, <1>2

\* The next start is numbered on, so that what names a server stays in range.
LEMMA FinishRestartType ==
  ASSUME TypeOK, FinishRestart, UNCHANGED <<serverVars, closing, action, firstStart, work,
                                            requestVars>>
  PROVE  LoopType' /\ ServerType' /\ ShutdownType' /\ WorkType' /\ RequestType'
<1>1. starts' \in 1 .. MaxStarts /\ 0 .. starts \subseteq 0 .. starts'
                                /\ 1 .. starts \subseteq 1 .. starts'
  BY MaxStartsAssumption, Groups DEF FinishRestart, LoopType
<1>2. LoopType'
  BY <1>1, Groups DEF FinishRestart, LoopType
<1>3. ServerType'
  BY <1>1, Groups DEF serverVars, ServerType
<1>4. ShutdownType'
  BY <1>1, Groups DEF FinishRestart, ShutdownType
<1>5. WorkType'
  BY Groups DEF FinishRestart, WorkType
<1>6. RequestType'
  BY <1>1, Groups DEF requestVars, RequestType
<1> QED
  BY <1>2, <1>3, <1>4, <1>5, <1>6

LEMMA LoopStepType ==
  ASSUME TypeOK, StartReturns \/ FirstStartFails \/ RestartFails \/ FailedStartReleases
  PROVE  TypeOK'
<1> USE Groups, GroupsNext, Unchanged
<1>1. CASE StartReturns
  <2>1. LoopType' /\ UNCHANGED starts
    BY <1>1 DEF StartReturns, LoopType
  <2>2. ServerType'
    BY <1>1, <2>1 DEF StartReturns, ServerType, LoopType
  <2> QED
    BY <1>1, <2>1, <2>2 DEF StartReturns
<1>2. CASE FirstStartFails
  <2>1. LockType' /\ EndType'
    BY <1>2 DEF FirstStartFails, LockType, EndType
  <2> QED
    BY <1>2, <2>1 DEF FirstStartFails, loopVars
<1>3. CASE RestartFails
  <2>1. LoopType' /\ UNCHANGED starts
    BY <1>3 DEF RestartFails, LoopType
  <2>2. ServerType' /\ MishapType'
    BY <1>3, <2>1 DEF RestartFails, ServerType, LoopType, MishapType, Mishaps
  <2> QED
    BY <1>3, <2>1, <2>2 DEF RestartFails
<1>4. CASE FailedStartReleases
  <2>1. LoopType' /\ UNCHANGED starts
    BY <1>4 DEF FailedStartReleases, LoopType
  <2>2. LockType'
    BY <1>4 DEF FailedStartReleases, LockType
  <2> QED
    BY <1>4, <2>1, <2>2 DEF FailedStartReleases
<1> QED
  BY <1>1, <1>2, <1>3, <1>4

LEMMA ShutdownStepType ==
  ASSUME TypeOK, Stop \/ DrainOver \/ ForceExit \/ CloseServer \/ ReleaseLock \/ ReacquireLock
  PROVE  TypeOK'
<1> USE Groups, GroupsNext, Unchanged
<1>1. CASE Stop
  <2>1. EndType' /\ UNCHANGED starts
    BY <1>1 DEF Stop, EndType, loopVars
  <2>2. ShutdownType' /\ MishapType'
    BY <1>1, <2>1, BeginCloseType, NoteEarlyType DEF Stop
  <2> QED
    BY <1>1, <2>1, <2>2 DEF Stop
<1>2. CASE DrainOver
  <2>1. UNCHANGED starts /\ action' \in {"stop", "restart"}
    BY <1>2 DEF DrainOver, loopVars, ShutdownType
  <2>2. ShutdownType'
    BY <1>2, <2>1, BeginCloseType DEF DrainOver
  <2> QED
    BY <1>2, <2>1, <2>2 DEF DrainOver
<1>3. CASE ForceExit
  <2>1. EndType'
    BY <1>3 DEF ForceExit, EndType
  <2> QED
    BY <1>3, <2>1 DEF ForceExit, loopVars
<1>4. CASE CloseServer
  <2>1. UNCHANGED starts /\ ServerType'
    BY <1>4 DEF CloseServer, loopVars, ServerType, LoopType
  <2>2. ShutdownType' /\ MishapType'
    BY <1>4, <2>1 DEF CloseServer, ShutdownType, MishapType, Mishaps
  <2> QED
    BY <1>4, <2>1, <2>2 DEF CloseServer
<1>5. CASE ReleaseLock
  <2>1. LockType' /\ EndType'
    BY <1>5 DEF ReleaseLock, HandOver, LockType, EndType
  <2>2. CASE FinishRestart /\ UNCHANGED firstStart
    BY <1>5, <2>1, <2>2, FinishRestartType DEF ReleaseLock
  <2>3. CASE UNCHANGED <<loopVars, gatewayDraining>> /\ phase' \in {phase, "reacquiring"}
    <3>1. ShutdownType' /\ UNCHANGED starts
      BY <1>5, <2>3 DEF ReleaseLock, loopVars, ShutdownType
    <3> QED
      BY <1>5, <2>1, <2>3, <3>1 DEF ReleaseLock
  <2> QED
    BY <1>5, <2>2, <2>3 DEF ReleaseLock, HandOver
<1>6. CASE ReacquireLock
  <2>1. CASE lock' = TRUE /\ lockFile' = "us" /\ FinishRestart /\ UNCHANGED <<exitCode, firstStart>>
    <3>1. LockType' /\ EndType'
      BY <1>6, <2>1 DEF ReacquireLock, LockType, EndType
    <3> QED
      BY <1>6, <2>1, <3>1, FinishRestartType DEF ReacquireLock
  <2>2. CASE exitCode' = 1 /\ UNCHANGED <<loopVars, phase, lockVars, gatewayDraining>>
    <3>1. EndType' /\ UNCHANGED <<starts, shutdownVars>>
      BY <1>6, <2>2 DEF ReacquireLock, EndType, loopVars, shutdownVars
    <3> QED
      BY <1>6, <2>2, <3>1 DEF ReacquireLock
  <2> QED
    BY <1>6, <2>1, <2>2 DEF ReacquireLock
<1> QED
  BY <1>1, <1>2, <1>3, <1>4, <1>5, <1>6

LEMMA OtherStepType ==
  ASSUME TypeOK, OtherProcess \/ WorkChanges \/ UNCHANGED vars
  PROVE  TypeOK'
<1> USE Groups, GroupsNext, Unchanged
<1>1. CASE OtherProcess
  <2>1. LockType' /\ UNCHANGED starts
    BY <1>1 DEF OtherProcess, LockType, loopVars
  <2> QED
    BY <1>1, <2>1 DEF OtherProcess
<1>2. CASE WorkChanges
  <2>1. WorkType' /\ UNCHANGED starts
    BY <1>2 DEF WorkChanges, WorkType, loopVars
  <2> QED
    BY <1>2, <2>1 DEF WorkChanges
<1>3. CASE UNCHANGED vars
  BY <1>3 DEF vars, loopVars
<1> QED
  BY <1>1, <1>2, <1>3

LEMMA EmitType ==
  ASSUME TypeOK, NEW r \in Requests, Emit(r)
  PROVE  request' \in [Requests -> {"new", "timer", "polling", "watching",
                                    "coalesced", "ignored", "restarted"}]
<1>1. \A q \in Requests :
        request[q] \in {"new", "timer", "polling", "watching", "coalesced", "ignored", "restarted"}
  BY Groups DEF RequestType
<1> QED
  BY <1>1 DEF Emit

LEMMA RequestStepType ==
  ASSUME TypeOK, NEW r \in Requests,
         Schedule(r) \/ ConfigChanges(r) \/ TimerFires(r) \/ PollFires(r)
  PROVE  TypeOK'
<1> USE Groups, GroupsNext, Unchanged
<1> DEFINE States == {"new", "timer", "polling", "watching", "coalesced", "ignored",
                      "restarted"}
<1>1. CASE Schedule(r)
  <2>1. request' \in [Requests -> States] /\ UNCHANGED starts
    BY <1>1 DEF Schedule, RequestType, loopVars
  <2>2. RequestType'
    BY <1>1, <2>1 DEF Schedule, Restarted, RequestType
  <2> QED
    BY <1>1, <2>1, <2>2 DEF Schedule
<1>2. CASE ConfigChanges(r)
  <2>1. UNCHANGED <<starts, work>>
    BY <1>2 DEF ConfigChanges, loopVars
  <2>2. request' \in [Requests -> States]
    BY <1>2, EmitType DEF ConfigChanges, RequestType
  <2>3. RequestType'
    BY <1>2, <2>1, <2>2 DEF ConfigChanges, Restarted, RequestType, ServerType
  <2>4. ShutdownType' /\ WorkType' /\ MishapType'
    BY <1>2, <2>1, RequestRestartType DEF ConfigChanges, Emit
  <2> QED
    BY <1>2, <2>1, <2>3, <2>4 DEF ConfigChanges
<1>3. CASE TimerFires(r) \/ PollFires(r)
  <2>1. UNCHANGED <<starts, work, madeBy, madeAfter>>
    BY <1>3 DEF TimerFires, PollFires, loopVars
  <2>2. request' \in [Requests -> States]
    BY <1>3, EmitType DEF TimerFires, PollFires, RequestType
  <2>3. RequestType'
    BY <2>1, <2>2 DEF RequestType
  <2>4. ShutdownType' /\ WorkType' /\ MishapType'
    BY <1>3, <2>1, RequestRestartType DEF TimerFires, PollFires, Emit
  <2> QED
    BY <1>3, <2>1, <2>3, <2>4 DEF TimerFires, PollFires
<1> QED
  BY <1>1, <1>2, <1>3

LEMMA NextType == TypeOK /\ [Next]_vars => TypeOK'
BY LoopStepType, ShutdownStepType, OtherStepType, RequestStepType DEF Next
-----------------------------------------------------------------------------
(* The loop, the shutdown, the lock and the servers agree                    *)

LEMMA InitLoop == Init => LoopInv
BY DEF Init, LoopInv, LockIsFile, WaiterIsFresh, FailureNoted, HandoverIsLast, ShutdownOfWaiter,
   ClosedByShutdown, LockHeld, OpenIsKnown, HandoverIsFree, IdleWithoutLock, Early,
   CloseFailed, StartFailed, ShuttingDown, Alive

LEMMA LoopStep ==
  ASSUME TypeOK, LoopInv,
         StartReturns \/ FirstStartFails \/ RestartFails \/ FailedStartReleases
  PROVE  LoopInv'
<1> USE DEF LoopInv, LockIsFile, WaiterIsFresh, FailureNoted, HandoverIsLast, ShutdownOfWaiter,
            ClosedByShutdown, LockHeld, OpenIsKnown, HandoverIsFree, IdleWithoutLock, Early,
            CloseFailed, StartFailed, ShuttingDown, Alive
<1>1. CASE StartReturns
  <2>1. UNCHANGED <<phase, closing, lock, lockFile, exitCode, respawned, mishaps,
                    gatewayDraining>>
    BY <1>1 DEF StartReturns, shutdownVars, lockVars, endVars
  <2>2. OpenIsKnown'
    BY <1>1, <2>1 DEF StartReturns
  <2>3. IdleWithoutLock'
    BY <1>1, <2>1 DEF StartReturns, TypeOK
  <2>4. HandoverIsFree'
    BY <1>1, <2>1 DEF StartReturns
  <2>5. (LockIsFile /\ WaiterIsFresh /\ FailureNoted /\ HandoverIsLast /\ ShutdownOfWaiter
         /\ ClosedByShutdown /\ LockHeld)'
    BY <1>1, <2>1 DEF StartReturns
  <2> QED
    BY <2>2, <2>3, <2>4, <2>5
<1>2. CASE FirstStartFails
  BY <1>2 DEF FirstStartFails, loopVars, serverVars, shutdownVars
<1>3. CASE RestartFails
  BY <1>3 DEF RestartFails, shutdownVars, lockVars, endVars
<1>4. CASE FailedStartReleases
  BY <1>4 DEF FailedStartReleases, serverVars, shutdownVars, endVars
<1> QED
  BY <1>1, <1>2, <1>3, <1>4
\* A shutdown that awaits the close of the server, or none: then nothing listens.
LEMMA BeginCloseStep ==
  ASSUME TypeOK, LoopInv, Alive, BeginClose,
         (phase = "off" /\ NoteEarly) \/ (phase = "draining" /\ UNCHANGED mishaps),
         UNCHANGED <<loopVars, serverVars, lockVars, exitCode, respawned>>
  PROVE  LoopInv'
<1>1. server = 0 /\ open \subseteq {server} => open = {}
  BY DEF TypeOK
<1>2. UNCHANGED <<loop, resolver, server, open, lock, lockFile, exitCode, respawned>>
  BY DEF loopVars, serverVars, lockVars
<1>3. /\ Early => Early'
      /\ CloseFailed' <=> CloseFailed
      /\ StartFailed' <=> StartFailed
  BY DEF NoteEarly, Early, CloseFailed, StartFailed
<1>4. ~Early' => loop = "waiting"
  BY DEF LoopInv, ShutdownOfWaiter, ShuttingDown, NoteEarly, Early
<1>5. phase' \in {"closing", "releasing"} /\ closing' = server
  BY DEF BeginClose
<1>6. (LockIsFile /\ WaiterIsFresh /\ FailureNoted /\ HandoverIsLast)'
  BY <1>2, <1>3
     DEF LoopInv, LockIsFile, WaiterIsFresh, FailureNoted, HandoverIsLast, Alive
<1>7. (ShutdownOfWaiter /\ ClosedByShutdown /\ IdleWithoutLock)'
  BY <1>2, <1>4, <1>5 DEF ShutdownOfWaiter, ClosedByShutdown, IdleWithoutLock, ShuttingDown
<1>8. LockHeld'
  BY <1>2, <1>3, <1>5 DEF LoopInv, LockHeld, Alive
<1>9. OpenIsKnown'
  BY <1>1, <1>2, <1>3, <1>4, <1>5 DEF LoopInv, OpenIsKnown, BeginClose, Alive
<1>10. HandoverIsFree'
  BY <1>2 DEF LoopInv, HandoverIsLast, HandoverIsFree
<1> QED
  BY <1>6, <1>7, <1>8, <1>9, <1>10 DEF LoopInv

\* Nothing that LoopInv speaks of changes.
LEMMA QuietStep ==
  ASSUME LoopInv, UNCHANGED <<loop, resolver, server, open, phase, closing, lock, lockFile,
                              gatewayDraining, exitCode, respawned, mishaps>>
  PROVE  LoopInv'
BY DEF LoopInv, LockIsFile, WaiterIsFresh, FailureNoted, HandoverIsLast, ShutdownOfWaiter,
   ClosedByShutdown, LockHeld, OpenIsKnown, HandoverIsFree, IdleWithoutLock, Early,
   CloseFailed, StartFailed, ShuttingDown, Alive

LEMMA RequestRestartStep ==
  ASSUME TypeOK, LoopInv, Alive, RequestRestart,
         UNCHANGED <<loopVars, serverVars, lockVars, endVars>>
  PROVE  LoopInv'
<1>1. UNCHANGED <<loop, resolver, server, open, lock, lockFile, exitCode, respawned>>
  BY DEF loopVars, serverVars, lockVars, endVars
<1>2. CASE ShuttingDown
  BY <1>1, <1>2, QuietStep DEF RequestRestart, shutdownVars
<1>3. CASE ~ShuttingDown
  <2>1. phase = "off" /\ NoteEarly
    BY <1>3 DEF RequestRestart, ShuttingDown
  <2>2. CASE BeginClose
    <3>1. UNCHANGED <<loopVars, serverVars, lockVars, exitCode, respawned>>
      BY DEF endVars
    <3>2. (phase = "off" /\ NoteEarly) \/ (phase = "draining" /\ UNCHANGED mishaps)
      BY <2>1 DEF NoteEarly
    <3> QED
      BY <2>2, <3>1, <3>2, BeginCloseStep
  <2>3. CASE phase' = "draining" /\ UNCHANGED closing
    <3>1. /\ Early => Early'
          /\ CloseFailed' <=> CloseFailed
          /\ StartFailed' <=> StartFailed
          /\ ~Early' => loop = "waiting"
      BY <2>1 DEF NoteEarly, Early, CloseFailed, StartFailed
    <3>2. (/\ LockIsFile /\ WaiterIsFresh /\ FailureNoted /\ HandoverIsLast
           /\ ShutdownOfWaiter /\ ClosedByShutdown /\ IdleWithoutLock)'
      BY <1>1, <2>3, <3>1
         DEF LoopInv, LockIsFile, WaiterIsFresh, FailureNoted, HandoverIsLast, ShutdownOfWaiter,
             ClosedByShutdown, IdleWithoutLock, ShuttingDown, Alive
    <3>3. (LockHeld /\ OpenIsKnown)'
      BY <1>1, <2>1, <2>3, <3>1 DEF LoopInv, LockHeld, OpenIsKnown, Alive
    <3>4. HandoverIsFree'
      BY <1>1 DEF LoopInv, HandoverIsLast, HandoverIsFree
    <3> QED
      BY <3>2, <3>3, <3>4 DEF LoopInv
  <2> QED
    BY <1>3, <2>2, <2>3 DEF RequestRestart
<1> QED
  BY <1>2, <1>3

LEMMA RequestStep ==
  ASSUME TypeOK, LoopInv, NEW r \in Requests,
         Schedule(r) \/ ConfigChanges(r) \/ TimerFires(r) \/ PollFires(r)
  PROVE  LoopInv'
<1>1. /\ Alive
      /\ UNCHANGED <<loopVars, serverVars, lockVars, endVars>>
      /\ RequestRestart \/ UNCHANGED <<shutdownVars, gatewayDraining, mishaps>>
  BY DEF Schedule, ConfigChanges, TimerFires, PollFires, Emit
<1>2. CASE RequestRestart
  BY <1>1, <1>2, RequestRestartStep
<1>3. CASE UNCHANGED <<shutdownVars, gatewayDraining, mishaps>>
  BY <1>1, <1>3, QuietStep DEF loopVars, serverVars, lockVars, endVars, shutdownVars
<1> QED
  BY <1>1, <1>2, <1>3

\* The next start finds the loop's lock back, and no server.
LEMMA FinishRestartStep ==
  ASSUME TypeOK, LoopInv, Alive, phase \in {"releasing", "reacquiring"}, FinishRestart,
         UNCHANGED <<serverVars, closing, exitCode, respawned, mishaps>>,
         \/ phase = "releasing" /\ ~lock /\ lock' = FALSE /\ lockFile' # "us"
         \/ lock' = TRUE /\ lockFile' = "us"
  PROVE  LoopInv'
<1> USE DEF LoopInv
<1>1. UNCHANGED <<server, open, Early, CloseFailed, StartFailed, Alive>>
  BY DEF serverVars, Early, CloseFailed, StartFailed, Alive
<1>2. ~Early => loop = "waiting" /\ resolver = "fresh"
  BY DEF ShutdownOfWaiter, ShuttingDown, WaiterIsFresh
<1>3. (LockIsFile /\ WaiterIsFresh /\ FailureNoted /\ HandoverIsLast)'
  BY <1>1 DEF FinishRestart, LockIsFile, WaiterIsFresh, FailureNoted, HandoverIsLast
<1>4. (ShutdownOfWaiter /\ ClosedByShutdown)'
  BY <1>1, <1>2 DEF FinishRestart, ShutdownOfWaiter, ClosedByShutdown, ShuttingDown
<1>5. LockHeld'
  BY <1>1 DEF LockHeld
<1>6. OpenIsKnown'
  BY <1>1 DEF FinishRestart, OpenIsKnown
<1>7. HandoverIsFree'
  BY <1>1 DEF HandoverIsLast, HandoverIsFree
<1>8. IdleWithoutLock'
  BY DEF FinishRestart, IdleWithoutLock, WaiterIsFresh
<1> QED
  BY <1>3, <1>4, <1>5, <1>6, <1>7, <1>8

LEMMA ReleaseLockStep ==
  ASSUME TypeOK, LoopInv, ReleaseLock
  PROVE  LoopInv'
<1> USE DEF LoopInv
<1>1. /\ phase = "releasing" /\ Alive
      /\ UNCHANGED <<serverVars, closing, mishaps>>
      /\ lock' = FALSE /\ lockFile' # "us"
  BY DEF ReleaseLock, LockIsFile
<1>2. UNCHANGED <<server, open, Early, CloseFailed, StartFailed>>
  BY <1>1 DEF serverVars, Early, CloseFailed, StartFailed
<1>3. CASE HandOver
  <2>1. ~Alive' /\ UNCHANGED <<loop, resolver, phase, gatewayDraining>>
    BY <1>3 DEF HandOver, Alive, loopVars
  <2>2. HandoverIsFree'
    BY <1>1, <1>2 DEF HandoverIsFree, OpenIsKnown, Early, CloseFailed
  <2> QED
    BY <1>1, <1>2, <2>1, <2>2
       DEF LockIsFile, WaiterIsFresh, FailureNoted, HandoverIsLast, ShutdownOfWaiter,
           ClosedByShutdown, LockHeld, OpenIsKnown, IdleWithoutLock, ShuttingDown
<1>4. CASE lock /\ phase' = "reacquiring" /\ UNCHANGED <<loopVars, gatewayDraining>>
                /\ UNCHANGED <<exitCode, respawned>>
  <2>1. UNCHANGED <<Alive, respawned, loop, resolver, gatewayDraining>>
    BY <1>4 DEF Alive, loopVars
  <2>2. HandoverIsFree'
    BY <1>1, <2>1 DEF HandoverIsLast, HandoverIsFree
  <2>3. OpenIsKnown'
    BY <1>1, <1>2, <1>4, <2>1 DEF OpenIsKnown
  <2> QED
    BY <1>1, <1>2, <1>4, <2>1, <2>2, <2>3
       DEF LockIsFile, WaiterIsFresh, FailureNoted, HandoverIsLast, ShutdownOfWaiter,
           ClosedByShutdown, LockHeld, IdleWithoutLock, ShuttingDown
<1>5. CASE ~lock /\ FinishRestart /\ UNCHANGED <<exitCode, respawned>>
  <2>1. UNCHANGED <<serverVars, closing, exitCode, respawned, mishaps>>
    BY <1>1, <1>5
  <2>2. phase \in {"releasing", "reacquiring"}
    BY <1>1
  <2> QED
    BY <1>1, <1>5, <2>1, <2>2, FinishRestartStep
<1> QED
  BY <1>3, <1>4, <1>5 DEF ReleaseLock

LEMMA ShutdownStep ==
  ASSUME TypeOK, LoopInv,
         Stop \/ DrainOver \/ ForceExit \/ CloseServer \/ ReacquireLock
  PROVE  LoopInv'
<1> USE DEF LoopInv
<1>1. CASE Stop
  <2>1. /\ Alive
        /\ UNCHANGED <<loopVars, serverVars, lockVars, gatewayDraining, exitCode, respawned>>
    BY <1>1 DEF Stop
  <2>2. CASE ShuttingDown
    BY <1>1, <2>1, <2>2, QuietStep DEF Stop, loopVars, serverVars, lockVars, shutdownVars
  <2>3. CASE ~ShuttingDown
    <3>1. phase = "off" /\ NoteEarly /\ BeginClose
      BY <1>1, <2>3 DEF Stop, ShuttingDown
    <3>2. (phase = "off" /\ NoteEarly) \/ (phase = "draining" /\ UNCHANGED mishaps)
      BY <3>1 DEF NoteEarly
    <3>3. UNCHANGED <<loopVars, serverVars, lockVars, exitCode, respawned>>
      BY <2>1
    <3> QED
      BY <2>1, <3>1, <3>2, <3>3, BeginCloseStep
  <2> QED
    BY <2>2, <2>3
<1>2. CASE DrainOver
  <2>1. UNCHANGED <<loopVars, serverVars, lockVars, exitCode, respawned>>
    BY <1>2 DEF DrainOver, endVars
  <2> QED
    BY <1>2, <2>1, BeginCloseStep DEF DrainOver
<1>3. CASE ForceExit
  <2>1. /\ ~Alive' /\ Alive
        /\ UNCHANGED <<loop, resolver, phase, lock, lockFile, gatewayDraining, respawned,
                       mishaps>>
    BY <1>3 DEF ForceExit, Alive, loopVars, shutdownVars, lockVars
  <2> QED
    BY <2>1
       DEF LockIsFile, WaiterIsFresh, FailureNoted, HandoverIsLast, ShutdownOfWaiter,
           ClosedByShutdown, LockHeld, OpenIsKnown, IdleWithoutLock, HandoverIsFree,
           ShuttingDown, Early, StartFailed
<1>4. CASE CloseServer
  <2>1. /\ Alive /\ phase = "closing" /\ phase' = "releasing" /\ server' = 0
        /\ UNCHANGED <<loop, resolver, lock, lockFile, gatewayDraining, exitCode, respawned>>
        /\ UNCHANGED <<Alive, Early, StartFailed>>
    BY <1>4 DEF CloseServer, loopVars, lockVars, endVars, Alive, Early, StartFailed
  <2>2. OpenIsKnown'
    BY <1>4, <2>1 DEF CloseServer, OpenIsKnown, CloseFailed, ShutdownOfWaiter, ShuttingDown
  <2>3. HandoverIsFree'
    BY <2>1 DEF HandoverIsLast, HandoverIsFree
  <2> QED
    BY <2>1, <2>2, <2>3
       DEF LockIsFile, WaiterIsFresh, FailureNoted, HandoverIsLast, ShutdownOfWaiter,
           ClosedByShutdown, LockHeld, IdleWithoutLock, ShuttingDown
<1>5. CASE ReacquireLock
  <2>1. /\ Alive /\ phase = "reacquiring"
        /\ UNCHANGED <<serverVars, closing, respawned, mishaps>>
    BY <1>5 DEF ReacquireLock
  <2>2. CASE lock' = TRUE /\ lockFile' = "us" /\ FinishRestart /\ UNCHANGED exitCode
    BY <2>1, <2>2, FinishRestartStep
  <2>3. CASE exitCode' = 1 /\ UNCHANGED <<loopVars, phase, lockVars, gatewayDraining>>
    <3>1. ~Alive' /\ UNCHANGED <<loop, resolver, lock, lockFile>>
      BY <2>3 DEF Alive, loopVars, lockVars
    <3> QED
      BY <2>1, <2>3, <3>1
         DEF LockIsFile, WaiterIsFresh, FailureNoted, HandoverIsLast, ShutdownOfWaiter,
             ClosedByShutdown, LockHeld, OpenIsKnown, IdleWithoutLock, HandoverIsFree,
             ShuttingDown, Early, StartFailed
  <2> QED
    BY <1>5, <2>2, <2>3 DEF ReacquireLock
<1> QED
  BY <1>1, <1>2, <1>3, <1>4, <1>5

LEMMA OtherStep ==
  ASSUME TypeOK, LoopInv, OtherProcess \/ WorkChanges \/ UNCHANGED vars
  PROVE  LoopInv'
<1>1. CASE OtherProcess
  <2>1. /\ lockFile # "us" /\ lockFile' # "us"
        /\ UNCHANGED <<loop, resolver, server, open, phase, closing, lock, gatewayDraining,
                       exitCode, respawned, mishaps>>
    BY <1>1 DEF OtherProcess, loopVars, serverVars, shutdownVars, endVars
  <2> QED
    BY <2>1
       DEF LoopInv, LockIsFile, WaiterIsFresh, FailureNoted, HandoverIsLast, ShutdownOfWaiter,
           ClosedByShutdown, LockHeld, OpenIsKnown, HandoverIsFree, IdleWithoutLock, Early,
           CloseFailed, StartFailed, ShuttingDown, Alive
<1>2. CASE WorkChanges
  BY <1>2, QuietStep DEF WorkChanges, loopVars, serverVars, shutdownVars, lockVars, endVars
<1>3. CASE UNCHANGED vars
  BY <1>3, QuietStep DEF vars, loopVars, serverVars, shutdownVars, lockVars, endVars
<1> QED
  BY <1>1, <1>2, <1>3

LEMMA InitIInv == Init => IInv
BY InitType, InitLoop DEF IInv

LEMMA NextIInv == IInv /\ [Next]_vars => IInv'
<1> SUFFICES ASSUME IInv, [Next]_vars PROVE IInv'
  OBVIOUS
<1>1. TypeOK /\ LoopInv
  BY DEF IInv
<1>2. TypeOK'
  BY <1>1, NextType
<1>3. LoopInv'
  BY <1>1, LoopStep, ReleaseLockStep, ShutdownStep, OtherStep, RequestStep DEF Next
<1> QED
  BY <1>2, <1>3 DEF IInv

\* Lock, port and server agree whenever control changes hands: what listens can
\* be closed, a server that is up holds the lock, a successor finds both free
\* (run-loop.ts:62-100, 229-257).
THEOREM ControlIsHandedOver == Spec => []Inv
<1>1. IInv => Inv
  <2> SUFFICES ASSUME TypeOK, LoopInv PROVE Inv
    BY DEF IInv
  <2>1. NoLeakedServer
    BY DEF LoopInv, OpenIsKnown, NoLeakedServer, Early, CloseFailed
  <2>2. ServesUnderLock
    BY DEF LoopInv, LockHeld, LockIsFile, ServesUnderLock, Serving, ShuttingDown, Early,
           StartFailed
  <2> QED
    BY <2>1, <2>2 DEF LoopInv, Inv
<1> QED
  BY <1>1, InitIInv, NextIInv, PTL DEF Spec

\* A restart that goes on in this process opens the command queue again, unless
\* a signal found the loop while it was starting (run-loop.ts:128).
THEOREM QueueOpensAgain == Spec => []OpenQueueUnlessEarly
<1>1. IInv => OpenQueueUnlessEarly
  BY DEF IInv, LoopInv, ClosedByShutdown, Early, OpenQueueUnlessEarly, ServesWithOpenQueue,
         Serving
<1> QED
  BY <1>1, InitIInv, NextIInv, PTL DEF Spec

-----------------------------------------------------------------------------
(* The lock file: the invariant of GatewayLock                              *)

\* Why a start may be turned away.
Excused == SomebodyGotThrough \/ foreign \/ \E q \in Starts : pc[q] \in Unclean

\* Who has met a file, or has been kept from the port.
Obstructed == (Acquiring \ {"open", "write"}) \cup {"giveUp", "failed"}

ObstructedForAReason == \A p \in Starts : pc[p] \in Obstructed => Excused

ForeignIsNoted == port = Foreign => foreign

FileInv == LockInv /\ ForeignIsNoted /\ ObstructedForAReason

\* One step of one start.
StepOf(p) == \/ Start(p) \/ Acquire(p) \/ WriteFails(p) \/ TimeOut(p) \/ Bind(p)
             \/ Shutdown(p) \/ StopListening(p) \/ CloseGateway(p) \/ ForcedExit(p)
             \/ Release(p) \/ Kill(p)

LEMMA InitFileInv == LockInit => FileInv
BY Constants DEF LockInit, FileInv, LockInv, LockTypeOK, ServesOnPort, NoFileLeftOver,
   ForeignIsNoted, ObstructedForAReason, Obstructed, Acquiring, Listening, Holding, Ended, Unclean

-----------------------------------------------------------------------------
(* Type correctness                                                         *)

\* A start either creates the file, without payload, or finds it.
LEMMA Opened ==
  ASSUME NEW p \in Starts, OpenFile(p)
  PROVE  \/ /\ pc' = [pc EXCEPT ![p] = "write"]
            /\ file' \in Files /\ file'.opener = p
         \/ /\ pc' = [pc EXCEPT ![p] = "read"]
            /\ file # None /\ file' = file
<1> DEFINE new == [opener |-> p, written |-> FALSE, old |-> FALSE]
<1>1. new \in Files /\ new.opener = p
  BY DEF Files
<1>2. CASE file = None
  BY <1>1, <1>2 DEF OpenFile, Go
<1>3. CASE file # None
  BY <1>3 DEF OpenFile, Go
<1> QED
  BY <1>2, <1>3

LEMMA StepType ==
  ASSUME LockTypeOK, NEW p \in Starts, StepOf(p)
  PROVE  LockTypeOK'
<1> USE Constants DEF LockTypeOK, Go, Acquiring, Holding, Listening, Ended, Unclean, Files
<1>1. CASE Start(p)
  BY <1>1 DEF Start
<1>2. CASE OpenFile(p)
  <2>1. UNCHANGED <<retries, port, seen, foreign>>
    BY <1>2 DEF OpenFile
  <2> QED
    BY <1>2, <2>1, Opened
<1>3. CASE WritePayload(p)
  BY <1>3 DEF WritePayload
<1>4. CASE ReadPayload(p)
  BY <1>4 DEF ReadPayload
<1>5. CASE ProbePort(p)
  BY <1>5 DEF ProbePort
<1>6. CASE CheckOwner(p)
  BY <1>6 DEF CheckOwner
<1>7. CASE RemoveFile(p)
  BY <1>7 DEF RemoveFile
<1>8. CASE StatFile(p)
  BY <1>8 DEF StatFile
<1>9. CASE WriteFails(p) \/ TimeOut(p)
  BY <1>9 DEF WriteFails, TimeOut
<1>10. CASE Bind(p)
  BY <1>10 DEF Bind
<1>11. CASE Shutdown(p) \/ StopListening(p) \/ CloseGateway(p)
  BY <1>11 DEF Shutdown, StopListening, CloseGateway
<1>12. CASE Release(p)
  BY <1>12 DEF Release, End
<1>13. CASE ForcedExit(p) \/ Kill(p)
  BY <1>13 DEF ForcedExit, Kill, End
<1> QED
  BY <1>1, <1>2, <1>3, <1>4, <1>5, <1>6, <1>7, <1>8, <1>9, <1>10, <1>11, <1>12, <1>13
     DEF StepOf, Acquire

LEMMA OtherTypeStays ==
  ASSUME LockTypeOK, Age \/ ForeignStops \/ UNCHANGED startsVars
  PROVE  LockTypeOK'
BY Constants DEF LockTypeOK, Age, ForeignStops, startsVars, Files

-----------------------------------------------------------------------------
(* The invariants of a step of one start                                    *)

LEMMA StepServesOnPort ==
  ASSUME FileInv, NEW p \in Starts, StepOf(p)
  PROVE  ServesOnPort' /\ ForeignIsNoted'
<1> USE Constants DEF FileInv, LockInv, LockTypeOK, ServesOnPort, ForeignIsNoted, Listening, Go
<1>1. CASE Start(p) \/ WriteFails(p) \/ TimeOut(p)
  BY <1>1 DEF Start, WriteFails, TimeOut
<1>2. CASE OpenFile(p) \/ WritePayload(p) \/ ReadPayload(p) \/ CheckOwner(p)
  BY <1>2 DEF OpenFile, WritePayload, ReadPayload, CheckOwner
<1>3. CASE ProbePort(p) \/ RemoveFile(p) \/ StatFile(p)
  BY <1>3 DEF ProbePort, RemoveFile, StatFile
<1>4. CASE Bind(p)
  BY <1>4 DEF Bind
<1>5. CASE Shutdown(p) \/ StopListening(p) \/ CloseGateway(p)
  BY <1>5 DEF Shutdown, StopListening, CloseGateway
<1>6. CASE ForcedExit(p) \/ Release(p) \/ Kill(p)
  BY <1>6 DEF ForcedExit, Release, Kill, End
<1> QED
  BY <1>1, <1>2, <1>3, <1>4, <1>5, <1>6 DEF StepOf, Acquire

\* A step that leaves the opener alone keeps the file explained if a holder goes
\* on to hold it, or ends without removing it.
LEMMA OpenerStays ==
  ASSUME FileInv, NEW p \in Starts, NEW to, Go(p, to),
         file' # None => file # None /\ file'.opener = file.opener,
         pc[p] \in Holding \cup Unclean => to \in Holding \cup Unclean
  PROVE  NoFileLeftOver'
<1> SUFFICES ASSUME file' # None
             PROVE  pc'[file.opener] \in Holding \cup Unclean
  BY DEF NoFileLeftOver
<1> file # None
  OBVIOUS
<1>1. file.opener \in Starts /\ pc' = [pc EXCEPT ![p] = to] /\ DOMAIN pc = Starts
  BY DEF FileInv, LockInv, LockTypeOK, Files, Go
<1>2. pc[file.opener] \in Holding \cup Unclean
  BY DEF FileInv, LockInv, NoFileLeftOver
<1> QED
  BY <1>1, <1>2

LEMMA StepFile ==
  ASSUME FileInv, NEW p \in Starts, StepOf(p)
  PROVE  NoFileLeftOver'
<1> USE DEF Holding, Listening, Unclean
<1>1. CASE OpenFile(p)
  <2>1. CASE pc' = [pc EXCEPT ![p] = "read"] /\ file' = file
    BY <1>1, <2>1, OpenerStays DEF OpenFile, Go
  <2>2. CASE pc' = [pc EXCEPT ![p] = "write"] /\ file'.opener = p
    BY <2>2 DEF FileInv, LockInv, LockTypeOK, NoFileLeftOver
  <2> QED
    BY <1>1, <2>1, <2>2, Opened
<1>2. CASE WritePayload(p)
  <2>1. file' # None => file # None /\ file'.opener = file.opener
    BY <1>2 DEF WritePayload, FileInv, LockInv, LockTypeOK, Files
  <2> QED
    BY <1>2, <2>1, OpenerStays DEF WritePayload
<1>3. CASE Bind(p)
  <2>1. CASE Go(p, "serving") \/ Go(p, "giveUp")
    BY <1>3, <2>1, OpenerStays DEF Bind
  <2>2. CASE pc' = pc
    BY <1>3, <2>2 DEF Bind, FileInv, LockInv, NoFileLeftOver
  <2> QED
    BY <1>3, <2>1, <2>2 DEF Bind
<1>4. CASE RemoveFile(p) \/ Release(p)
  BY <1>4 DEF RemoveFile, Release, NoFileLeftOver
<1>5. CASE Start(p)
  BY <1>5, OpenerStays DEF Start
<1>6. CASE ReadPayload(p)
  BY <1>6, OpenerStays DEF ReadPayload
<1>7. CASE ProbePort(p)
  BY <1>7, OpenerStays DEF ProbePort
<1>8. CASE CheckOwner(p)
  BY <1>8, OpenerStays DEF CheckOwner
<1>9. CASE StatFile(p)
  BY <1>9, OpenerStays DEF StatFile
<1>10. CASE WriteFails(p)
  BY <1>10, OpenerStays DEF WriteFails
<1>11. CASE TimeOut(p)
  BY <1>11, OpenerStays DEF TimeOut
<1>12. CASE Shutdown(p)
  BY <1>12, OpenerStays DEF Shutdown
<1>13. CASE StopListening(p)
  BY <1>13 DEF StopListening, FileInv, LockInv, NoFileLeftOver
<1>14. CASE CloseGateway(p)
  BY <1>14, OpenerStays DEF CloseGateway
<1>15. CASE ForcedExit(p)
  BY <1>15, OpenerStays DEF ForcedExit, End
<1>16. CASE Kill(p)
  BY <1>16, OpenerStays DEF Kill, End
<1> QED
  BY <1>1, <1>2, <1>3, <1>4, <1>5, <1>6, <1>7, <1>8, <1>9, <1>10, <1>11, <1>12, <1>13,
     <1>14, <1>15, <1>16 DEF StepOf, Acquire

\* A start in the way of others: one that has got through, or left its file.
InTheWay == {"write", "bind", "stopped"} \cup Listening \cup Unclean

LEMMA ExcusedMeans == Excused <=> foreign \/ \E q \in Starts : pc[q] \in InTheWay
BY DEF Excused, SomebodyGotThrough, InTheWay

\* A start that cannot bind finds a gateway on the port, or a foreign program.
LEMMA PortTaken ==
  ASSUME FileInv, port # None
  PROVE  foreign \/ (port \in Starts /\ pc[port] \in InTheWay)
BY Constants DEF FileInv, LockInv, LockTypeOK, ServesOnPort, ForeignIsNoted, InTheWay

\* Whoever is in the way stays there, or gives up for somebody else.
LEMMA ExcusedStays ==
  ASSUME FileInv, NEW p \in Starts, StepOf(p), Excused
  PROVE  Excused'
<1>1. foreign' = foreign /\ DOMAIN pc = Starts
  BY DEF FileInv, LockInv, LockTypeOK, StepOf, Acquire, Start, OpenFile, WritePayload, ReadPayload,
     ProbePort, CheckOwner, RemoveFile, StatFile, WriteFails, TimeOut, Bind, Shutdown,
     StopListening, CloseGateway, ForcedExit, Release, Kill
<1>2. SUFFICES ASSUME ~foreign
               PROVE  \E q \in Starts : pc'[q] \in InTheWay
  BY <1>1, ExcusedMeans DEF Excused, SomebodyGotThrough, InTheWay
<1>3. PICK q \in Starts : pc[q] \in InTheWay
  BY <1>2, ExcusedMeans
<1>4. \A r \in Starts \ {p} : pc'[r] = pc[r]
  BY <1>1 DEF StepOf, Acquire, Start, OpenFile, WritePayload, ReadPayload, Go, End,
     ProbePort, CheckOwner, RemoveFile, StatFile, WriteFails, TimeOut, Bind, Shutdown,
     StopListening, CloseGateway, ForcedExit, Release, Kill
<1>5. CASE q # p
  BY <1>3, <1>4, <1>5
<1>6. CASE q = p
  <2> USE <1>1 DEF InTheWay, Listening, Unclean, Go
  <2>1. CASE Start(p) \/ OpenFile(p) \/ ReadPayload(p) \/ ProbePort(p) \/ CheckOwner(p)
             \/ RemoveFile(p) \/ StatFile(p) \/ TimeOut(p)
    BY <1>3, <1>6, <2>1 DEF Start, OpenFile, ReadPayload, ProbePort, CheckOwner, RemoveFile, StatFile,
       TimeOut
  <2>2. CASE WritePayload(p) \/ WriteFails(p) \/ Shutdown(p) \/ CloseGateway(p)
    BY <2>2 DEF WritePayload, WriteFails, Shutdown, CloseGateway
  <2>3. CASE StopListening(p)
    BY <1>3, <2>3 DEF StopListening
  <2>4. CASE ForcedExit(p) \/ Release(p) \/ Kill(p)
    BY <1>3, <1>6, <2>4 DEF ForcedExit, Release, Kill, End
  <2>5. CASE Bind(p)
    <3>1. CASE port = None
      BY <2>5, <3>1 DEF Bind
    <3>2. CASE port # None
      <4>1. port \in Starts /\ pc[port] \in InTheWay /\ port # p
        <5>1. port \in Starts /\ pc[port] \in InTheWay /\ pc[port] \in Listening
          BY <1>2, <3>2, PortTaken DEF FileInv, LockInv, ServesOnPort
        <5> QED
          BY <2>5, <5>1 DEF Bind
      <4> QED
        BY <1>4, <4>1
    <3> QED
      BY <3>1, <3>2
  <2> QED
    BY <2>1, <2>2, <2>3, <2>4, <2>5 DEF StepOf, Acquire
<1> QED
  BY <1>5, <1>6

\* A start is obstructed by a file that somebody in the way has opened, or at the
\* port.
LEMMA StepObstructs ==
  ASSUME FileInv, NEW p \in Starts, StepOf(p), pc'[p] \in Obstructed
  PROVE  Excused
<1>1. pc \in [Starts -> Acquiring \cup Holding \cup Ended \cup {"off"}]
  BY DEF FileInv, LockInv, LockTypeOK
<1>2. pc[p] \in Obstructed => Excused
  BY DEF FileInv, ObstructedForAReason
<1> USE DEF Obstructed, Acquiring, Go
<1>3. CASE OpenFile(p)
  <2>1. file # None
    BY <1>1, <1>3 DEF OpenFile
  <2>2. file.opener \in Starts /\ pc[file.opener] \in Holding \cup Unclean
    BY <2>1 DEF FileInv, LockInv, LockTypeOK, NoFileLeftOver, Files
  <2>3. CASE pc[file.opener] = "giveUp"
    BY <2>2, <2>3 DEF FileInv, ObstructedForAReason
  <2>4. CASE pc[file.opener] # "giveUp"
    BY <2>2, <2>4, ExcusedMeans DEF Holding, InTheWay
  <2> QED
    BY <2>3, <2>4
<1>4. CASE Bind(p)
  <2>1. port # None
    BY <1>1, <1>4 DEF Bind
  <2> QED
    BY <2>1, PortTaken, ExcusedMeans
<1>5. CASE ReadPayload(p) \/ ProbePort(p) \/ CheckOwner(p) \/ RemoveFile(p) \/ StatFile(p) \/ TimeOut(p)
  BY <1>2, <1>5 DEF ReadPayload, ProbePort, CheckOwner, RemoveFile, StatFile, TimeOut
<1>6. CASE Start(p) \/ WritePayload(p) \/ WriteFails(p)
  BY <1>1, <1>6 DEF Start, WritePayload, WriteFails
<1>7. CASE Shutdown(p) \/ StopListening(p) \/ CloseGateway(p)
  BY <1>1, <1>7 DEF Shutdown, StopListening, CloseGateway
<1>8. CASE ForcedExit(p) \/ Kill(p)
  BY <1>1, <1>8 DEF ForcedExit, Kill, End
<1>9. CASE Release(p)
  BY <1>1, <1>2, <1>9 DEF Release, End
<1> QED
  BY <1>3, <1>4, <1>5, <1>6, <1>7, <1>8, <1>9 DEF StepOf, Acquire

LEMMA StepObstructed ==
  ASSUME FileInv, NEW p \in Starts, StepOf(p)
  PROVE  ObstructedForAReason'
<1> SUFFICES ASSUME NEW r \in Starts, pc'[r] \in Obstructed
             PROVE  Excused'
  BY DEF ObstructedForAReason
<1>1. CASE r = p
  BY <1>1, StepObstructs, ExcusedStays
<1>2. CASE r # p
  <2>1. pc'[r] = pc[r]
    BY <1>2 DEF StepOf, Acquire, Start, OpenFile, WritePayload, ReadPayload, Go, End,
       ProbePort, CheckOwner, RemoveFile, StatFile, WriteFails, TimeOut, Bind, Shutdown,
       StopListening, CloseGateway, ForcedExit, Release, Kill, FileInv, LockInv, LockTypeOK
  <2>2. Excused
    BY <2>1 DEF FileInv, ObstructedForAReason
  <2> QED
    BY <2>2, ExcusedStays
<1> QED
  BY <1>1, <1>2

-----------------------------------------------------------------------------
(* The theorems                                                             *)

LEMMA NextFileInv == FileInv /\ [LockNext]_startsVars => FileInv'
<1> SUFFICES ASSUME FileInv, [LockNext]_startsVars PROVE FileInv'
  OBVIOUS
<1>1. ASSUME NEW p \in Starts, StepOf(p) PROVE FileInv'
  <2>1. LockTypeOK'
    BY <1>1, StepType DEF FileInv, LockInv
  <2>2. ServesOnPort' /\ ForeignIsNoted'
    BY <1>1, StepServesOnPort
  <2>3. NoFileLeftOver' /\ ObstructedForAReason'
    BY <1>1, StepFile, StepObstructed
  <2> QED
    BY <2>1, <2>2, <2>3 DEF FileInv, LockInv
<1>2. ASSUME Age \/ ForeignStops \/ UNCHANGED startsVars PROVE FileInv'
  <2>1. LockTypeOK'
    BY <1>2, OtherTypeStays DEF FileInv, LockInv
  <2>2. pc' = pc /\ foreign' = foreign /\ (port' = port \/ port' = None)
    BY <1>2 DEF Age, ForeignStops, startsVars
  <2>3. ObstructedForAReason'
    BY <2>2 DEF FileInv, ObstructedForAReason, Excused, SomebodyGotThrough
  <2>4. ServesOnPort' /\ ForeignIsNoted'
    BY <1>2, <2>2, Constants DEF FileInv, LockInv, LockTypeOK, ServesOnPort, ForeignIsNoted, Age,
       ForeignStops, startsVars, Listening
  <2>5. file' # None => file # None /\ file'.opener = file.opener
    BY <1>2 DEF FileInv, LockInv, LockTypeOK, Files, Age, ForeignStops, startsVars
  <2>6. NoFileLeftOver'
    BY <2>2, <2>5 DEF FileInv, LockInv, NoFileLeftOver
  <2> QED
    BY <2>1, <2>3, <2>4, <2>6 DEF FileInv, LockInv
<1> QED
  BY <1>1, <1>2 DEF LockNext, StepOf

\* Whoever serves has the port, and no lock file outlives a start that has stopped
\* in order or was turned away, however many starts remove each other's files and
\* whatever their ends (gateway-lock.ts:214, 229).
THEOREM LockIsCleanedUp == LockSpec => []LockInv
<1>1. FileInv => LockInv
  BY DEF FileInv
<1> QED
  BY <1>1, InitFileInv, NextFileInv, PTL DEF LockSpec

\* When a start is turned away, another one gets through, unless a foreign program
\* has listened or some process has left its file (gateway-lock.ts:196, 260,
\* http-listen.ts:49).
THEOREM NobodyFailsForNothing == LockSpec => []FailsForAReason
<1>1. FileInv => FailsForAReason
  BY DEF FileInv, ObstructedForAReason, Obstructed, Excused, FailsForAReason
<1> QED
  BY <1>1, InitFileInv, NextFileInv, PTL DEF LockSpec
=============================================================================
