------------------------------ MODULE NodeLink ------------------------------
(***************************************************************************)
(* The link between the gateway and its nodes: the connection a node opens  *)
(* (gateway/server/ws-connection.ts and its message handler), the registry  *)
(* of connected nodes and pending invokes (gateway/node-registry.ts), the   *)
(* handler of node.invoke with its wake by push notification and the queue  *)
(* of foreground actions (gateway/server-methods/nodes.ts), and the app     *)
(* that runs invokes and replays queued actions (apps/ios).                 *)
(*                                                                          *)
(* Everything a handler does between two awaits is one action.              *)
(***************************************************************************)
EXTENDS Integers, FiniteSets, SequencesExt

CONSTANTS
    Nodes,       \* node identities
    Conns,       \* connections that may ever be opened
    Reqs,        \* calls of node.invoke that may ever be made
    NodeOf,      \* the node a call names
    KeyOf,       \* its idempotency key: a caller that tries again repeats it
    MaxActions,  \* NODE_PENDING_ACTION_MAX_PER_NODE
    Bannable,    \* calls whose command the policy may come to forbid
    MaxFailures, \* bound: runs of a key that the app leaves unacknowledged although
                 \* it is connected
    None

ASSUME Constants ==
    /\ NodeOf \in [Reqs -> Nodes]
    /\ MaxActions \in Nat \ {0}
    /\ Bannable \subseteq Reqs /\ MaxFailures \in Nat
    /\ None \notin Nodes \cup Conns \cup Reqs

Keys == {KeyOf[r] : r \in Reqs}

VARIABLES
    \* sockets, as the gateway and the node see them
    owner,       \* the node that opened the connection
    phase,       \* unused, handshake, up (client set), failed
    socket,      \* open, broken (the peer is gone), closed (close event seen)
    nodeConn,    \* the connection the node itself uses
    \* class NodeRegistry
    nodesById, nodesByConn, pendingInvokes,
    \* calls of node.invoke
    pc, sentOn, answer,
    \* nodeWakeById: the wake in flight and the age of the last one
    flight, lastWake,
    \* pendingNodeActionsById, entries past their time to live, banned commands
    actions, expired, banned,
    \* frames on their way and what the node is doing
    requests, working, results,
    foreground, replay, acking,
    \* history: runs of a key, and those in a replay that was left before the
    \* acknowledgement of the run had come through
    runs, unacked

link == <<owner, phase, socket, nodeConn>>
registry == <<nodesById, nodesByConn, pendingInvokes>>
calls == <<pc, sentOn, answer>>
wakes == <<flight, lastWake>>
queue == <<actions, expired, banned>>
app == <<requests, working, results, foreground, replay, acking, runs, unacked>>
vars == <<link, registry, calls, wakes, queue, app>>

Waking == {"wake1", "wake2", "queueWake"}
Waiting == {"wait1", "wait2", "look"}
Answers == {"none", "ok", "timeout", "disconnected", "not_connected",
            "rejected", "queued", "background"}

Init ==
    /\ owner = [c \in Conns |-> None]
    /\ phase = [c \in Conns |-> "unused"]
    /\ socket = [c \in Conns |-> "closed"]
    /\ nodeConn = [n \in Nodes |-> None]
    /\ nodesById = [n \in Nodes |-> None]
    /\ nodesByConn = {}
    /\ pendingInvokes = {}
    /\ pc = [r \in Reqs |-> "idle"]
    /\ sentOn = [r \in Reqs |-> None]
    /\ answer = [r \in Reqs |-> "none"]
    /\ flight = [n \in Nodes |-> "none"]
    /\ lastWake = [n \in Nodes |-> "never"]
    /\ actions = [n \in Nodes |-> <<>>]
    /\ expired = {}
    /\ banned = {}
    /\ requests = {}
    /\ working = {}
    /\ results = {}
    /\ foreground \in [Nodes -> BOOLEAN]
    /\ replay = [n \in Nodes |-> <<>>]
    /\ acking = [n \in Nodes |-> FALSE]
    /\ runs = [k \in Keys |-> 0]
    /\ unacked = [k \in Keys |-> 0]

-----------------------------------------------------------------------------
(* Connections                                                              *)

\* The node opens a connection; it has given up the one it had before.
Open(n, c) ==
    /\ phase[c] = "unused" /\ nodeConn[n] = None
    /\ \A d \in Conns : phase[d] = "unused" => c <= d
    /\ owner' = [owner EXCEPT ![c] = n]
    /\ phase' = [phase EXCEPT ![c] = "handshake"]
    /\ socket' = [socket EXCEPT ![c] = "open"]
    /\ nodeConn' = [nodeConn EXCEPT ![n] = c]
    /\ UNCHANGED <<registry, calls, wakes, queue, app>>

\* The end of the connect request, after its last await: whether the socket
\* has closed in the meantime is not looked at again.
Connected(c) ==
    /\ phase[c] = "handshake"
    /\ phase' = [phase EXCEPT ![c] = "up"]
    /\ nodesById' = [nodesById EXCEPT ![owner[c]] = c]
    /\ nodesByConn' = nodesByConn \cup {c}
    /\ UNCHANGED <<owner, socket, nodeConn, pendingInvokes>>
    /\ UNCHANGED <<calls, wakes, queue, app>>

\* The connect request is refused: the gateway closes the socket.
Refused(c) ==
    /\ phase[c] = "handshake"
    /\ phase' = [phase EXCEPT ![c] = "failed"]
    /\ socket' = [socket EXCEPT ![c] = IF @ = "open" THEN "broken" ELSE @]
    /\ nodeConn' = [nodeConn EXCEPT ![owner[c]] = IF @ = c THEN None ELSE @]
    /\ UNCHANGED <<owner, registry, calls, wakes, queue, app>>

\* The network fails, the app is suspended, or either side hangs up: the node
\* knows at once, the gateway when the close event of the socket comes.
Breaks(c) ==
    /\ socket[c] = "open"
    /\ socket' = [socket EXCEPT ![c] = "broken"]
    /\ nodeConn' = [nodeConn EXCEPT ![owner[c]] = None]
    /\ UNCHANGED <<owner, phase, registry, calls, wakes, queue, app>>

\* (mistake) What waits for the node is left to its timer.
UnregisterOnly(c) ==
    /\ nodesByConn' = nodesByConn \ {c}
    /\ nodesById' = [nodesById EXCEPT ![owner[c]] = None]
    /\ UNCHANGED <<pendingInvokes, calls>>

\* (mistake) The timer of a pending invoke is cleared and its entry deleted, but
\* the caller's promise is not rejected.
UnregisterSilently(c) ==
    /\ nodesByConn' = nodesByConn \ {c}
    /\ nodesById' = [nodesById EXCEPT ![owner[c]] = None]
    /\ pendingInvokes' = {r \in pendingInvokes : NodeOf[r] # owner[c]}
    /\ UNCHANGED calls

\* NodeRegistry.unregister: the node is removed by name, and every invoke that
\* waits for it is rejected, whichever connection carried it.
Unregister(c) ==
    LET gone == {r \in pendingInvokes : NodeOf[r] = owner[c]} IN
    /\ nodesByConn' = nodesByConn \ {c}
    /\ nodesById' = [nodesById EXCEPT ![owner[c]] = None]
    /\ pendingInvokes' = pendingInvokes \ gone
    /\ pc' = [r \in Reqs |-> IF r \in gone THEN "done" ELSE pc[r]]
    /\ answer' = [r \in Reqs |-> IF r \in gone THEN "disconnected" ELSE answer[r]]
    /\ sentOn' = [r \in Reqs |-> IF r \in gone THEN None ELSE sentOn[r]]

\* (mistake) A close before the connect request has succeeded unregisters the
\* node too.
CloseSeenAlways(c) ==
    /\ socket[c] = "broken"
    /\ socket' = [socket EXCEPT ![c] = "closed"]
    /\ Unregister(c)
    /\ requests' = {f \in requests : f.conn # c}
    /\ results' = {f \in results : f.conn # c}
    /\ UNCHANGED <<owner, phase, nodeConn, wakes, queue>>
    /\ UNCHANGED <<working, foreground, replay, acking, runs, unacked>>

\* The close event: only a socket whose connect request has succeeded knows
\* its client and unregisters it.
CloseSeen(c) ==
    /\ socket[c] = "broken"
    /\ socket' = [socket EXCEPT ![c] = "closed"]
    /\ IF c \in nodesByConn THEN Unregister(c) ELSE UNCHANGED <<registry, calls>>
    /\ requests' = {f \in requests : f.conn # c}
    /\ results' = {f \in results : f.conn # c}
    /\ UNCHANGED <<owner, phase, nodeConn, wakes, queue>>
    /\ UNCHANGED <<working, foreground, replay, acking, runs, unacked>>

-----------------------------------------------------------------------------
(* node.invoke                                                              *)

Answered(r, a) ==
    /\ pc' = [pc EXCEPT ![r] = "done"]
    /\ answer' = [answer EXCEPT ![r] = a]

\* What follows once a session is found: the policy, then NodeRegistry.invoke.
\* A send on a socket that is broken or closed does not throw: the frame is
\* lost and the invoke waits.
Dispatch(r) ==
    LET c == nodesById[NodeOf[r]] IN
    IF r \in banned
    THEN /\ Answered(r, "rejected")
         /\ UNCHANGED <<pendingInvokes, sentOn, requests>>
    ELSE /\ pendingInvokes' = pendingInvokes \cup {r}
         /\ sentOn' = [sentOn EXCEPT ![r] = c]
         /\ requests' = IF socket[c] = "open" THEN requests \cup {[req |-> r, conn |-> c]}
                        ELSE requests
         /\ pc' = [pc EXCEPT ![r] = "sent"]
         /\ UNCHANGED answer

\* maybeWakeNodeWithApns: join the wake in flight, be throttled, or start one.
\* "then" is where the caller goes on if it need not wait.
WakeNode(r, force, now, then) ==
    LET n == NodeOf[r]
        throttled == ~force /\ lastWake[n] = "recent" /\ flight[n] = "none"
    IN  /\ pc' = [pc EXCEPT ![r] = IF throttled THEN then ELSE now]
        /\ flight' = [flight EXCEPT ![n] =
                         IF @ = "none" /\ ~throttled THEN "loading" ELSE @]
        /\ UNCHANGED lastWake

Invoke(r) ==
    /\ pc[r] = "idle"
    /\ \A q \in Reqs : q < r => pc[q] # "idle"
    /\ IF nodesById[NodeOf[r]] # None
       THEN Dispatch(r) /\ UNCHANGED wakes
       ELSE /\ WakeNode(r, FALSE, "wake1", "wait1")
            /\ UNCHANGED <<pendingInvokes, sentOn, requests, answer>>
    /\ UNCHANGED <<link, nodesById, nodesByConn, queue>>
    /\ UNCHANGED <<working, results, foreground, replay, acking, runs, unacked>>

\* waitForNodeReconnect, or the look that follows a wake that was not
\* possible, finds the node.
Reconnected(r) ==
    /\ pc[r] \in Waiting /\ nodesById[NodeOf[r]] # None
    /\ Dispatch(r)
    /\ UNCHANGED <<link, nodesById, nodesByConn, wakes, queue>>
    /\ UNCHANGED <<working, results, foreground, replay, acking, runs, unacked>>

\* The first wait ends without the node: one more wake, not throttled.
WakeAgain(r) ==
    /\ pc[r] = "wait1" /\ nodesById[NodeOf[r]] = None
    /\ WakeNode(r, TRUE, "wake2", "wait2")
    /\ UNCHANGED <<link, registry, sentOn, answer, queue, app>>

\* Nothing is left to try: an alert to the user, and the answer.
GiveUp(r) ==
    /\ pc[r] \in {"wait2", "look"} /\ nodesById[NodeOf[r]] = None
    /\ Answered(r, "not_connected")
    /\ UNCHANGED <<link, registry, sentOn, wakes, queue, app>>

\* Everybody who waits for the wake of node n goes on.
FlightEnds(n, available) ==
    LET after(p) == CASE p = "queueWake" -> "done"
                      [] p = "wake1" -> IF available THEN "wait1" ELSE "look"
                      [] p = "wake2" -> IF available THEN "wait2" ELSE "look"
                      [] OTHER -> p
        released(r) == NodeOf[r] = n /\ pc[r] \in Waking
    IN  /\ flight' = [flight EXCEPT ![n] = "none"]
        /\ pc' = [r \in Reqs |-> IF released(r) THEN after(pc[r]) ELSE pc[r]]
        /\ answer' = [r \in Reqs |-> IF released(r) /\ pc[r] = "queueWake"
                                     THEN "queued" ELSE answer[r]]

\* No registration or no credentials: the node cannot be woken. An error while
\* these are loaded counts as a wake if there ever was one.
WakeImpossible(n) ==
    /\ flight[n] = "loading"
    /\ \E available \in BOOLEAN :
          /\ available => lastWake[n] # "never"
          /\ FlightEnds(n, available)
    /\ UNCHANGED <<link, registry, sentOn, lastWake, queue, app>>

WakeSent(n) ==
    /\ flight[n] = "loading"
    /\ flight' = [flight EXCEPT ![n] = "sending"]
    /\ lastWake' = [lastWake EXCEPT ![n] = "recent"]
    /\ UNCHANGED <<link, registry, calls, queue, app>>

WakeDone(n) ==
    /\ flight[n] = "sending"
    /\ FlightEnds(n, TRUE)
    /\ UNCHANGED <<link, registry, sentOn, lastWake, queue, app>>

ThrottleEnds(n) ==
    /\ lastWake[n] = "recent"
    /\ lastWake' = [lastWake EXCEPT ![n] = "old"]
    /\ UNCHANGED <<link, registry, calls, flight, queue, app>>

InvokeTimeout(r) ==
    /\ r \in pendingInvokes
    /\ pendingInvokes' = pendingInvokes \ {r}
    /\ Answered(r, "timeout")
    /\ sentOn' = [sentOn EXCEPT ![r] = None]
    /\ UNCHANGED <<link, nodesById, nodesByConn, wakes, queue, app>>

-----------------------------------------------------------------------------
(* Actions queued until the app returns to the foreground                   *)

\* What a filter leaves of a queue q, whose entries differ: the others, in
\* their order. There is one such sequence.
Without(q, gone) ==
    LET kept == ToSet(q) \ gone IN
    {s \in Injection(1 .. Cardinality(kept), kept) :
        \A i, j \in DOMAIN s :
            i < j => \E a, b \in DOMAIN q : a < b /\ q[a] = s[i] /\ q[b] = s[j]}

\* prunePendingNodeActions
Prune(q) == Without(q, expired)

\* (mistake) The key of a call is not compared with the entries.
EnqueueTwice(n, r) ==
    \E live \in Prune(actions[n]) :
        LET full == Append(live, r) IN
        actions' = [actions EXCEPT ![n] =
                       IF Len(full) > MaxActions THEN Tail(full) ELSE full]

\* enqueuePendingNodeAction: one entry a key, the oldest goes when it is full.
Enqueue(n, r) ==
    \E live \in Prune(actions[n]) :
        LET full == Append(live, r) IN
        actions' = [actions EXCEPT ![n] =
                       IF \E i \in DOMAIN live : KeyOf[live[i]] = KeyOf[r] THEN live
                       ELSE IF Len(full) > MaxActions THEN Tail(full) ELSE full]

\* shouldQueueAsPendingForegroundAction, for a command that needs the
\* foreground: only the node's own refusal queues it.
ShouldQueue(outcome) == outcome = "background"

\* node.invoke.result: NodeRegistry.handleInvokeResult settles the invoke, or
\* the result is late and ignored; then the handler of node.invoke goes on.
HandleResult(f) ==
    LET r == f.req
        n == NodeOf[r]
    IN  /\ f \in results /\ socket[f.conn] # "closed"
        /\ results' = results \ {f}
        /\ pendingInvokes' = pendingInvokes \ {r}
        /\ IF r \notin pendingInvokes
           THEN UNCHANGED <<calls, wakes, actions>>
           ELSE IF ShouldQueue(f.outcome)
           THEN /\ Enqueue(n, r)
                /\ WakeNode(r, FALSE, "queueWake", "done")
                /\ answer' = IF pc'[r] = "done" THEN [answer EXCEPT ![r] = "queued"]
                             ELSE answer
                /\ sentOn' = [sentOn EXCEPT ![r] = None]
           ELSE /\ Answered(r, f.outcome)
                /\ sentOn' = [sentOn EXCEPT ![r] = None]
                /\ UNCHANGED <<wakes, actions>>
        /\ UNCHANGED <<link, nodesById, nodesByConn, expired, banned>>
        /\ UNCHANGED <<requests, working, foreground, replay, acking, runs, unacked>>

\* The oldest entries pass their time to live.
Expire(n) ==
    /\ \E i \in DOMAIN actions[n] :
          /\ actions[n][i] \notin expired
          /\ \A j \in 1 .. (i - 1) : actions[n][j] \in expired
          /\ expired' = expired \cup {actions[n][i]}
    /\ UNCHANGED <<link, registry, calls, wakes, actions, banned, app>>

\* The configuration no longer allows a command.
Ban(r) ==
    /\ r \in Bannable \ banned
    /\ banned' = banned \cup {r}
    /\ UNCHANGED <<link, registry, calls, wakes, actions, expired, app>>

-----------------------------------------------------------------------------
(* The node                                                                 *)

LinkUp(n) == nodeConn[n] # None /\ phase[nodeConn[n]] = "up"

\* The node takes an invoke from its connection; an app in the background
\* refuses it without running it.
NodeTakes(f) ==
    LET r == f.req
        n == NodeOf[r]
    IN  /\ f \in requests /\ nodeConn[n] = f.conn
        /\ requests' = requests \ {f}
        /\ working' = working \cup
              {[req |-> r, outcome |-> IF foreground[n] THEN "ok" ELSE "background"]}
        /\ runs' = IF foreground[n] THEN [runs EXCEPT ![KeyOf[r]] = @ + 1] ELSE runs
        /\ UNCHANGED <<link, registry, calls, wakes, queue>>
        /\ UNCHANGED <<results, foreground, replay, acking, unacked>>

\* The result goes out on the connection of that moment, or nowhere.
NodeAnswers(w) ==
    LET n == NodeOf[w.req] IN
    /\ w \in working
    /\ working' = working \ {w}
    /\ results' = IF LinkUp(n)
                  THEN results \cup {[req |-> w.req, outcome |-> w.outcome, conn |-> nodeConn[n]]}
                  ELSE results
    /\ UNCHANGED <<link, registry, calls, wakes, queue>>
    /\ UNCHANGED <<requests, foreground, replay, acking, runs, unacked>>

AppMoves(n) ==
    /\ foreground' = [foreground EXCEPT ![n] = ~@]
    /\ UNCHANGED <<link, registry, calls, wakes, queue>>
    /\ UNCHANGED <<requests, working, results, replay, acking, runs, unacked>>

\* (mistake) What is handed out is taken off the queue.
PullAndForget(n) ==
    /\ foreground[n] /\ LinkUp(n) /\ replay[n] = <<>> /\ actions[n] # <<>>
    /\ actions' = [actions EXCEPT ![n] = <<>>]
    /\ \E allowed \in Without(actions[n], expired \cup banned) :
          replay' = [replay EXCEPT ![n] = allowed]
    /\ UNCHANGED <<link, registry, calls, wakes, expired, banned>>
    /\ UNCHANGED <<requests, working, results, foreground, acking, runs, unacked>>

\* node.pending.pull, sent when the app comes to the foreground or connects:
\* entries that are no longer allowed are dropped, the others stay queued.
Pull(n) ==
    /\ foreground[n] /\ LinkUp(n) /\ replay[n] = <<>> /\ actions[n] # <<>>
    /\ \E allowed \in Without(actions[n], expired \cup banned) :
          /\ actions' = [actions EXCEPT ![n] = allowed]
          /\ replay' = [replay EXCEPT ![n] = allowed]
    /\ UNCHANGED <<link, registry, calls, wakes, expired, banned>>
    /\ UNCHANGED <<requests, working, results, foreground, acking, runs, unacked>>

\* applyPendingForegroundNodeActions runs the next action and acknowledges it
\* only if it succeeded. The replay stops, and the action stays queued, when the
\* app has left the foreground, or when the command fails: before it has done
\* anything or after.
ReplayNext(n) ==
    LET k == KeyOf[Head(replay[n])] IN
    /\ replay[n] # <<>> /\ ~acking[n]
    /\ \/ /\ foreground[n]
          /\ runs' = [runs EXCEPT ![k] = @ + 1]
          /\ acking' = [acking EXCEPT ![n] = TRUE]
          /\ UNCHANGED <<replay, unacked>>
       \/ /\ replay' = [replay EXCEPT ![n] = <<>>]
          /\ UNCHANGED <<runs, acking, unacked>>
       \/ /\ foreground[n] /\ unacked[k] < MaxFailures
          /\ runs' = [runs EXCEPT ![k] = @ + 1]
          /\ unacked' = [unacked EXCEPT ![k] = @ + 1]
          /\ replay' = [replay EXCEPT ![n] = <<>>]
          /\ UNCHANGED acking
    /\ UNCHANGED <<link, registry, calls, wakes, queue>>
    /\ UNCHANGED <<requests, working, results, foreground>>

\* (mistake) What is acknowledged stays queued.
AckKeepsEntry(n) ==
    /\ acking[n] /\ LinkUp(n)
    /\ replay' = [replay EXCEPT ![n] = Tail(@)]
    /\ acking' = [acking EXCEPT ![n] = FALSE]
    /\ UNCHANGED <<link, registry, calls, wakes, queue>>
    /\ UNCHANGED <<requests, working, results, foreground, runs, unacked>>

\* node.pending.ack. The app goes on, or stops if the answer does not come.
Ack(n) ==
    /\ acking[n] /\ LinkUp(n)
    /\ \E left \in Without(actions[n], expired \cup {Head(replay[n])}) :
          actions' = [actions EXCEPT ![n] = left]
    /\ \E rest \in {Tail(replay[n]), <<>>} : replay' = [replay EXCEPT ![n] = rest]
    /\ acking' = [acking EXCEPT ![n] = FALSE]
    /\ UNCHANGED <<link, registry, calls, wakes, expired, banned>>
    /\ UNCHANGED <<requests, working, results, foreground, runs, unacked>>

\* The acknowledgement finds no connection or times out: the app stops the
\* replay.
AckFails(n) ==
    LET k == KeyOf[Head(replay[n])] IN
    /\ acking[n] /\ (LinkUp(n) => unacked[k] < MaxFailures)
    /\ unacked' = [unacked EXCEPT ![k] = @ + 1]
    /\ replay' = [replay EXCEPT ![n] = <<>>]
    /\ acking' = [acking EXCEPT ![n] = FALSE]
    /\ UNCHANGED <<link, registry, calls, wakes, queue>>
    /\ UNCHANGED <<requests, working, results, foreground, runs>>

-----------------------------------------------------------------------------
Next ==
    \/ \E n \in Nodes, c \in Conns : Open(n, c)
    \/ \E c \in Conns : Connected(c) \/ Refused(c) \/ Breaks(c) \/ CloseSeen(c)
    \/ \E r \in Reqs : \/ Invoke(r) \/ Reconnected(r) \/ WakeAgain(r) \/ GiveUp(r)
                       \/ InvokeTimeout(r) \/ Ban(r)
    \/ \E n \in Nodes : \/ WakeImpossible(n) \/ WakeSent(n) \/ WakeDone(n)
                        \/ ThrottleEnds(n) \/ Expire(n)
                        \/ AppMoves(n) \/ Pull(n) \/ ReplayNext(n) \/ Ack(n) \/ AckFails(n)
    \/ \E f \in requests : NodeTakes(f)
    \/ \E w \in working : NodeAnswers(w)
    \/ \E f \in results : HandleResult(f)

\* The timers of a call fire, one after the other, and the push service answers;
\* the network, the app and its user promise nothing.
Fairness ==
    /\ \A r \in Reqs :
          WF_vars(Reconnected(r) \/ WakeAgain(r) \/ GiveUp(r) \/ InvokeTimeout(r))
    /\ \A n \in Nodes : WF_vars(WakeImpossible(n) \/ WakeSent(n) \/ WakeDone(n))

Spec == Init /\ [][Next]_vars /\ Fairness
-----------------------------------------------------------------------------
(* Properties                                                               *)

\* Shape of the state; an invoke waits in pendingInvokes exactly while its call
\* is in the state "sent", and no key has two entries in a queue that keeps to
\* its limit (nodes.ts:200).
TypeOK ==
    /\ owner \in [Conns -> Nodes \cup {None}]
    /\ phase \in [Conns -> {"unused", "handshake", "up", "failed"}]
    /\ socket \in [Conns -> {"open", "broken", "closed"}]
    /\ nodeConn \in [Nodes -> Conns \cup {None}]
    /\ nodesById \in [Nodes -> Conns \cup {None}]
    /\ nodesByConn \subseteq Conns
    /\ pendingInvokes = {r \in Reqs : pc[r] = "sent"}
    /\ pc \in [Reqs -> {"idle", "sent", "done"} \cup Waking \cup Waiting]
    /\ sentOn \in [Reqs -> Conns \cup {None}]
    /\ answer \in [Reqs -> Answers]
    /\ flight \in [Nodes -> {"none", "loading", "sending"}]
    /\ lastWake \in [Nodes -> {"never", "recent", "old"}]
    /\ \A n \in Nodes : /\ Len(actions[n]) <= MaxActions
                        /\ \A i, j \in DOMAIN actions[n] :
                              KeyOf[actions[n][i]] = KeyOf[actions[n][j]] => i = j

\* A session that was registered after the close event of its socket: nothing
\* will ever unregister it.
Ghost(c) == c \in nodesByConn /\ socket[c] = "closed"

\* An invoke never waits for a node the registry does not know, nor on a
\* connection whose close event has come: unregister rejects what waits
\* (node-registry.ts:88) instead of leaving it to its timer. Ghosts aside.
WaitsOnLiveLink ==
    \A r \in pendingInvokes :
        /\ nodesById[NodeOf[r]] # None
        /\ socket[sentOn[r]] # "closed" \/ Ghost(sentOn[r])

\* A node is listed as connected only while its connection is open as far as
\* the gateway has seen (docs/cli/nodes.md:37).
ConnectedIsConnected ==
    \A n \in Nodes : nodesById[n] # None => socket[nodesById[n]] # "closed"

\* A node that is listed stays so while its connection lasts, unless another
\* connection of the same node is registered or unregistered in that step:
\* other nodes and failed connects do not disturb it (node-registry.ts:81).
SessionKept ==
    [][\A n \in Nodes :
          LET c == nodesById[n] IN
          c # None /\ nodesById'[n] # c =>
              \/ c \notin nodesByConn'
              \/ \E d \in Conns \ {c} :
                    owner[d] = n /\ (d \in nodesByConn) # (d \in nodesByConn')]_vars

\* An action the caller was told is queued stays queued until the app
\* acknowledges it, its time to live ends, the policy forbids it or newer
\* actions push it out (nodes.ts:178, 200, 229, 254).
KeptUntilAcked ==
    [][\A n \in Nodes : \A r \in ToSet(actions[n]) \ ToSet(actions'[n]) :
          \/ r \in expired \cup banned
          \/ acking[n] /\ r = Head(replay[n]) /\ LinkUp(n)
          \/ /\ Len(actions[n]) = MaxActions /\ Len(actions'[n]) = MaxActions
             /\ r = Head(actions[n])]_vars

\* A command runs at most once for each call that got past the lookup and the
\* policy, and once more for each of its runs that a replay left without an
\* acknowledgement, because the command failed or the acknowledgement did. A call
\* that was answered NOT_CONNECTED or refused has run nothing, one that timed out
\* is not queued on top, and an acknowledged action never runs again (nodes.ts:254,
\* 1048; NodeAppModel.swift:2311).
RunsAccountedFor ==
    \A k \in Keys :
        runs[k] <= unacked[k] + Cardinality({r \in Reqs : KeyOf[r] = k /\ pc[r] # "idle"
                                       /\ answer[r] \notin {"not_connected", "rejected"}})

Inv == TypeOK /\ WaitsOnLiveLink /\ RunsAccountedFor

\* Every call of node.invoke is answered: by the node, by its timer, by the
\* loss of the node or after the wakes (nodes.ts:885). There are finitely many,
\* each made once, so in the end none is left that was made and has no answer.
EveryInvokeAnswered == []<>(\A r \in Reqs : pc[r] \in {"idle", "done"})
=============================================================================
