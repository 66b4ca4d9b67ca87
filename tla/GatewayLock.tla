---------------------------- MODULE GatewayLock ----------------------------
(***************************************************************************)
(* Starts of the gateway that compete for the lock file                     *)
(* (infra/gateway-lock.ts) and then for the port                            *)
(* (gateway/server/http-listen.ts). A start is a process of its own: it     *)
(* takes the lock, binds the port, serves, and releases both, in the order  *)
(* of cli/gateway-cli/run-loop.ts. It may be killed between any two calls   *)
(* of the file system or the network, fail to write its payload, or be      *)
(* forced to exit by its own timer while it closes. Nothing is assumed of   *)
(* how long a call takes: a deadline may pass at any point.                 *)
(***************************************************************************)
EXTENDS Integers, FiniteSets

CONSTANTS
    Starts,       \* numbers of the processes that may ever be started
    Foreign,      \* a program that is not a gateway and listens on the port
    MaxRetries,   \* EADDRINUSE_MAX_RETRIES
    None

ASSUME Constants ==
    /\ Starts \subseteq Nat /\ MaxRetries \in Nat
    /\ {Foreign, None} \cap Starts = {} /\ Foreign # None

VARIABLES
    pc,         \* where each start is
    retries,    \* attempts to bind that have failed, while it binds
    file,       \* the lock file: None, or who opened it, whether the payload is
                \* written and whether it is older than staleMs
    port,       \* who listens: None, Foreign or a start
    seen,       \* the owner the start read from the file
    foreign     \* history: a foreign program has listened

startsVars == <<pc, retries, file, port, seen, foreign>>

\* "head" is the head of the loop, after a turn that did not create the file.
Acquiring == {"open", "head", "write", "read", "probe", "check", "remove", "stat"}
Listening == {"serving", "closing", "release"}
Holding == {"write", "bind", "giveUp"} \cup Listening
\* Ends of a process that leave the file where it is.
Unclean == {"killed", "forced", "unwritten"}
Ended == {"stopped", "failed"} \cup Unclean
Living(p) == pc[p] \notin Ended \cup {"off"}

\* Starts that have opened the file, and have neither released it nor ended.
Holders == {p \in Starts : pc[p] \in Holding}

Files == [opener : Starts, written : BOOLEAN, old : BOOLEAN]

LockInit ==
    /\ pc = [p \in Starts |-> "off"]
    /\ retries = [p \in Starts |-> 0]
    /\ file = None
    /\ foreign \in BOOLEAN /\ port = IF foreign THEN Foreign ELSE None
    /\ seen = [p \in Starts |-> None]

Go(p, to) == pc' = [pc EXCEPT ![p] = to]

-----------------------------------------------------------------------------
(* acquireGatewayLock                                                       *)

\* Processes are numbered in the order of their starts.
Start(p) ==
    /\ pc[p] = "off" /\ Go(p, "open")
    /\ \A q \in Starts : q < p => pc[q] # "off"
    /\ UNCHANGED <<retries, file, port, seen, foreign>>

\* open(lockPath, "wx"): creates the file or finds that it exists. From the
\* head of the loop, this is a turn before the deadline, after a poll or not.
OpenFile(p) ==
    /\ pc[p] \in {"open", "head"}
    /\ IF file = None
       THEN file' = [opener |-> p, written |-> FALSE, old |-> FALSE] /\ Go(p, "write")
       ELSE Go(p, "read") /\ UNCHANGED file
    /\ UNCHANGED <<retries, port, seen, foreign>>

\* (mistake) A start whose file is gone before it is written gives up.
WriteIfStillOurs(p) ==
    /\ pc[p] = "write"
    /\ IF file # None /\ file.opener = p
       THEN file' = [file EXCEPT !.written = TRUE] /\ Go(p, "bind")
       ELSE Go(p, "failed") /\ UNCHANGED file
    /\ UNCHANGED <<retries, port, seen, foreign>>

\* The payload goes to the file the process opened, which may have been
\* removed, and another one created, in the meantime.
WritePayload(p) ==
    /\ pc[p] = "write" /\ Go(p, "bind")
    /\ file' = IF file # None /\ file.opener = p THEN [file EXCEPT !.written = TRUE]
               ELSE file
    /\ UNCHANGED <<retries, port, seen, foreign>>

\* writeFile throws: so does acquireGatewayLock, and the process ends. The file
\* stays, with a part of the payload at most, which nobody can read.
WriteFails(p) ==
    /\ pc[p] = "write" /\ Go(p, "unwritten")
    /\ UNCHANGED <<retries, file, port, seen, foreign>>

\* readLockPayload: a file that is gone or has no payload yet names no owner.
ReadPayload(p) ==
    /\ pc[p] = "read"
    /\ IF file # None /\ file.written
       THEN seen' = [seen EXCEPT ![p] = file.opener] /\ Go(p, "probe")
       ELSE Go(p, "stat") /\ UNCHANGED seen
    /\ UNCHANGED <<retries, file, port, foreign>>

\* checkPortFree: a port that cannot be connected to means that the owner is
\* dead. It may just not have got so far, listen on another address than
\* 127.0.0.1, or not answer in time.
ProbePort(p) ==
    /\ pc[p] = "probe"
    /\ \/ Go(p, "remove") /\ seen' = [seen EXCEPT ![p] = None]
       \/ port # None /\ Go(p, "check") /\ UNCHANGED seen
    /\ UNCHANGED <<retries, file, port, foreign>>

\* isPidAlive and the start time of the process
CheckOwner(p) ==
    /\ pc[p] = "check"
    /\ Go(p, IF Living(seen[p]) THEN "head" ELSE "remove")
    /\ seen' = [seen EXCEPT ![p] = None]
    /\ UNCHANGED <<retries, file, port, foreign>>

\* rm(lockPath): whatever file is there by now.
RemoveFile(p) ==
    /\ pc[p] = "remove" /\ Go(p, "head")
    /\ file' = None
    /\ UNCHANGED <<retries, port, seen, foreign>>

\* An owner that cannot be told: only the age of the file counts.
StatFile(p) ==
    /\ pc[p] = "stat" /\ Go(p, IF file # None /\ file.old THEN "remove" ELSE "head")
    /\ UNCHANGED <<retries, file, port, seen, foreign>>

\* (mistake) While nobody listens, the loop goes on.
TimeOutIfServed(p) ==
    /\ pc[p] = "head" /\ port # None /\ Go(p, "failed")
    /\ UNCHANGED <<retries, file, port, seen, foreign>>

\* timeoutMs have passed since the start, whatever the last turn has found. The
\* first turn is taken in any case.
TimeOut(p) ==
    /\ pc[p] = "head" /\ Go(p, "failed")
    /\ UNCHANGED <<retries, file, port, seen, foreign>>

\* staleMs have passed.
Age ==
    /\ file # None /\ ~file.old
    /\ file' = [file EXCEPT !.old = TRUE]
    /\ UNCHANGED <<pc, retries, port, seen, foreign>>

-----------------------------------------------------------------------------
(* The life of a gateway that has the lock                                  *)

\* listenGatewayHttpServer: EADDRINUSE is tried again a few times.
Bind(p) ==
    /\ pc[p] = "bind"
    /\ \/ /\ port = None /\ port' = p /\ Go(p, "serving")
          /\ retries' = [retries EXCEPT ![p] = 0]
       \/ /\ port # None /\ retries[p] < MaxRetries
          /\ retries' = [retries EXCEPT ![p] = @ + 1]
          /\ UNCHANGED <<pc, port>>
       \/ /\ port # None /\ retries[p] = MaxRetries /\ Go(p, "giveUp")
          /\ retries' = [retries EXCEPT ![p] = 0]
          /\ UNCHANGED port
    /\ UNCHANGED <<file, seen, foreign>>

\* A signal: the work is drained, then the server closes.
Shutdown(p) ==
    /\ pc[p] = "serving" /\ Go(p, "closing")
    /\ UNCHANGED <<retries, file, port, seen, foreign>>

\* httpServer.close stops listening at once, and waits for its connections.
StopListening(p) ==
    /\ pc[p] = "closing" /\ port = p /\ port' = None
    /\ UNCHANGED <<pc, retries, file, seen, foreign>>

\* The close returns, or throws before it has come to the port.
CloseGateway(p) ==
    /\ pc[p] = "closing" /\ Go(p, "release")
    /\ UNCHANGED <<retries, file, port, seen, foreign>>

\* A process that ends: the system closes the port.
End(p, how) == Go(p, how) /\ port' = IF port = p THEN None ELSE port

\* forceExitTimer: the drain or the close hangs; nothing is released.
ForcedExit(p) ==
    /\ pc[p] = "closing" /\ End(p, "forced")
    /\ UNCHANGED <<retries, file, seen, foreign>>

\* (mistake) A start that could not bind does not release the lock.
ReleaseServed(p) ==
    /\ pc[p] \in {"release", "giveUp"}
    /\ End(p, IF pc[p] = "release" THEN "stopped" ELSE "failed")
    /\ file' = IF pc[p] = "release" THEN None ELSE file
    /\ UNCHANGED <<retries, seen, foreign>>

\* release: removes the file at the path, whoever has created it; then the
\* process exits.
Release(p) ==
    /\ pc[p] \in {"release", "giveUp"}
    /\ End(p, IF pc[p] = "release" THEN "stopped" ELSE "failed")
    /\ file' = None
    /\ UNCHANGED <<retries, seen, foreign>>

\* SIGKILL: nobody removes the file.
Kill(p) ==
    /\ Living(p) /\ End(p, "killed")
    /\ UNCHANGED <<retries, file, seen, foreign>>

ForeignStops ==
    /\ port = Foreign /\ port' = None
    /\ UNCHANGED <<pc, retries, file, seen, foreign>>

Acquire(p) ==
    \/ OpenFile(p) \/ WritePayload(p) \/ ReadPayload(p) \/ ProbePort(p) \/ CheckOwner(p)
    \/ RemoveFile(p) \/ StatFile(p)

LockNext ==
    \/ \E p \in Starts : \/ Start(p) \/ Acquire(p) \/ WriteFails(p) \/ TimeOut(p) \/ Bind(p)
                         \/ Shutdown(p) \/ StopListening(p) \/ CloseGateway(p) \/ ForcedExit(p)
                         \/ Release(p) \/ Kill(p)
    \/ Age \/ ForeignStops

\* A call of the file system or the network ends, the deadline of a start passes
\* however often it tries; nobody has to stop a gateway or kill it.
LockFairness ==
    \A p \in Starts : /\ WF_startsVars(Acquire(p)) /\ SF_startsVars(TimeOut(p))
                      /\ WF_startsVars(Bind(p)) /\ WF_startsVars(Release(p))

LockSpec == LockInit /\ [][LockNext]_startsVars /\ LockFairness

-----------------------------------------------------------------------------
(* Properties                                                               *)

LockTypeOK ==
    /\ pc \in [Starts -> Acquiring \cup Holding \cup Ended \cup {"off"}]
    /\ retries \in [Starts -> 0 .. MaxRetries]
    /\ file \in Files \cup {None}
    /\ port \in Starts \cup {Foreign, None}
    /\ seen \in [Starts -> Starts \cup {None}]
    /\ foreign \in BOOLEAN

\* Whoever serves has the port, and only a gateway that serves or closes has it:
\* starts that took the lock from each other are told apart by the bind
\* (http-listen.ts:38).
ServesOnPort ==
    /\ \A p \in Starts : pc[p] = "serving" => port = p
    /\ port \in Starts => pc[port] \in Listening

\* A start that has stopped in order, or was turned away, leaves no lock file:
\* the opener of a file still holds it, or was killed, forced to exit or could
\* not write it. This is so however the starts removed each other's files
\* (gateway-lock.ts:214, 229).
NoFileLeftOver == file # None => pc[file.opener] \in Holding \cup Unclean

LockInv == LockTypeOK /\ ServesOnPort /\ NoFileLeftOver

\* Somebody has the lock and has not been turned away from the port, or had it
\* and was stopped.
SomebodyGotThrough ==
    \E q \in Starts : pc[q] \in {"write", "bind", "stopped"} \cup Listening

\* Starts never all turn each other away: when one fails, by its deadline or at
\* the port, another one gets through; or else a foreign program has listened,
\* or some process has left its file (gateway-lock.ts:196, http-listen.ts:49).
FailsForAReason ==
    (\E p \in Starts : pc[p] = "failed") =>
        SomebodyGotThrough \/ foreign \/ \E q \in Starts : pc[q] \in Unclean

\* Crashes leave no stale lock file behind (docs/gateway/gateway-lock.md:18): a
\* start is turned away only where another program gets the port.
CrashesLeaveNoStaleLock ==
    (\E p \in Starts : pc[p] = "failed") => SomebodyGotThrough \/ foreign

\* Every start comes to serve, gives up or is killed: it is not caught in a
\* loop of removing files and finding new ones (gateway-lock.ts:196).
StartEnds == \A p \in Starts : pc[p] \in {"open", "head"} ~> pc[p] \in {"serving"} \cup Ended
=============================================================================
