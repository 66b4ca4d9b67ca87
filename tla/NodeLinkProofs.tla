---------------------------- MODULE NodeLinkProofs ----------------------------
(***************************************************************************)
(* Proofs about the registry of NodeLink, for any nodes, connections, calls *)
(* and bounds.                                                              *)
(***************************************************************************)
EXTENDS NodeLink, FiniteSetTheorems, TLAPS

LinkTypes ==
    /\ owner \in [Conns -> Nodes \cup {None}]
    /\ phase \in [Conns -> {"unused", "handshake", "up", "failed"}]
    /\ nodesById \in [Nodes -> Conns \cup {None}]
    /\ nodesByConn \subseteq Conns
    /\ pendingInvokes \subseteq Reqs
    /\ sentOn \in [Reqs -> Conns \cup {None}]

\* A connection that was opened has its node; one that is registered has
\* finished its connect request.
Opened == \A c \in Conns : phase[c] # "unused" => owner[c] \in Nodes
RegisteredIsUp == \A c \in nodesByConn : phase[c] = "up"

\* The two maps of the registry: a node is listed with a connection of its own
\* that is registered.
MapsAgree ==
    \A n \in Nodes : nodesById[n] # None =>
        nodesById[n] \in nodesByConn /\ owner[nodesById[n]] = n

\* An invoke that waits was sent to its node, which is still listed, on a
\* connection that is still registered.
SentToRegistered ==
    \A r \in pendingInvokes :
        /\ nodesById[NodeOf[r]] # None
        /\ sentOn[r] \in nodesByConn /\ owner[sentOn[r]] = NodeOf[r]

IInv == LinkTypes /\ Opened /\ RegisteredIsUp /\ MapsAgree /\ SentToRegistered

LEMMA InitIInv == Init => IInv
BY Constants DEF Init, IInv, LinkTypes, Opened, RegisteredIsUp, MapsAgree, SentToRegistered

-----------------------------------------------------------------------------
(* Steps of the connections                                                 *)

LEMMA OpenStep ==
  ASSUME IInv, NEW n \in Nodes, NEW c \in Conns, Open(n, c)
  PROVE  IInv'
<1>1. /\ phase[c] = "unused"
      /\ owner' = [owner EXCEPT ![c] = n]
      /\ phase' = [phase EXCEPT ![c] = "handshake"]
      /\ UNCHANGED <<nodesById, nodesByConn, pendingInvokes, sentOn>>
  BY DEF Open, registry, calls
<1>2. c \notin nodesByConn
  BY <1>1 DEF IInv, RegisteredIsUp
<1>3. LinkTypes' /\ Opened'
  BY <1>1 DEF IInv, LinkTypes, Opened
<1>4. RegisteredIsUp'
  BY <1>1, <1>2 DEF IInv, LinkTypes, RegisteredIsUp
<1>5. MapsAgree' /\ SentToRegistered'
  BY <1>1, <1>2 DEF IInv, LinkTypes, MapsAgree, SentToRegistered
<1> QED
  BY <1>3, <1>4, <1>5 DEF IInv

LEMMA ConnectedStep ==
  ASSUME IInv, NEW c \in Conns, Connected(c)
  PROVE  IInv'
<1>1. /\ phase[c] = "handshake"
      /\ phase' = [phase EXCEPT ![c] = "up"]
      /\ nodesById' = [nodesById EXCEPT ![owner[c]] = c]
      /\ nodesByConn' = nodesByConn \cup {c}
      /\ UNCHANGED <<owner, pendingInvokes, sentOn>>
  BY DEF Connected, calls
<1>2. owner[c] \in Nodes /\ c # None
  BY <1>1, Constants DEF IInv, Opened
<1>3. LinkTypes' /\ Opened' /\ RegisteredIsUp'
  BY <1>1, <1>2 DEF IInv, LinkTypes, Opened, RegisteredIsUp
<1>4. MapsAgree'
  BY <1>1, <1>2 DEF IInv, LinkTypes, MapsAgree
<1>5. SentToRegistered'
  BY <1>1, <1>2, Constants DEF IInv, LinkTypes, SentToRegistered
<1> QED
  BY <1>3, <1>4, <1>5 DEF IInv

LEMMA RefusedStep ==
  ASSUME IInv, NEW c \in Conns, Refused(c)
  PROVE  IInv'
<1>1. /\ phase[c] = "handshake"
      /\ phase' = [phase EXCEPT ![c] = "failed"]
      /\ UNCHANGED <<owner, nodesById, nodesByConn, pendingInvokes, sentOn>>
  BY DEF Refused, registry, calls
<1> QED
  BY <1>1 DEF IInv, LinkTypes, Opened, RegisteredIsUp, MapsAgree, SentToRegistered

\* unregister takes the node and every invoke that waits for it at once, so
\* that what is left names other nodes only.
LEMMA UnregisterStep ==
  ASSUME IInv, NEW c \in nodesByConn, Unregister(c), UNCHANGED <<owner, phase>>
  PROVE  IInv'
<1>1. /\ nodesByConn' = nodesByConn \ {c}
      /\ nodesById' = [nodesById EXCEPT ![owner[c]] = None]
      /\ pendingInvokes' = {r \in pendingInvokes : NodeOf[r] # owner[c]}
      /\ \A r \in pendingInvokes' : sentOn'[r] = sentOn[r]
      /\ sentOn' \in [Reqs -> Conns \cup {None}]
  BY DEF Unregister, IInv, LinkTypes
<1>2. LinkTypes' /\ Opened' /\ RegisteredIsUp'
  BY <1>1 DEF IInv, LinkTypes, Opened, RegisteredIsUp
<1>3. MapsAgree'
  BY <1>1 DEF IInv, LinkTypes, MapsAgree
<1>4. SentToRegistered'
  BY <1>1, Constants DEF IInv, LinkTypes, SentToRegistered
<1> QED
  BY <1>2, <1>3, <1>4 DEF IInv

LEMMA CloseSeenStep ==
  ASSUME IInv, NEW c \in Conns, CloseSeen(c)
  PROVE  IInv'
<1>1. CASE c \in nodesByConn
  BY <1>1, UnregisterStep DEF CloseSeen
<1>2. CASE c \notin nodesByConn
  BY <1>2 DEF CloseSeen, registry, calls, IInv, LinkTypes, Opened, RegisteredIsUp, MapsAgree,
     SentToRegistered
<1> QED
  BY <1>1, <1>2

-----------------------------------------------------------------------------
(* Steps of the calls                                                       *)

\* A step that leaves the registry alone, except that invokes are settled.
LEMMA RegistryUntouched ==
  ASSUME IInv, UNCHANGED <<owner, phase, nodesById, nodesByConn>>,
         pendingInvokes' \subseteq pendingInvokes,
         sentOn' \in [Reqs -> Conns \cup {None}],
         \A r \in pendingInvokes' : sentOn'[r] = sentOn[r]
  PROVE  IInv'
BY DEF IInv, LinkTypes, Opened, RegisteredIsUp, MapsAgree, SentToRegistered

LEMMA DispatchStep ==
  ASSUME IInv, NEW r \in Reqs, nodesById[NodeOf[r]] # None, Dispatch(r),
         UNCHANGED <<owner, phase, nodesById, nodesByConn>>
  PROVE  IInv'
<1>1. CASE r \in banned
  BY <1>1, RegistryUntouched DEF Dispatch, IInv, LinkTypes
<1>2. CASE r \notin banned
  <2>1. /\ pendingInvokes' = pendingInvokes \cup {r}
        /\ sentOn' = [sentOn EXCEPT ![r] = nodesById[NodeOf[r]]]
    BY <1>2 DEF Dispatch
  <2>2. NodeOf[r] \in Nodes
    BY Constants
  <2>3. LinkTypes' /\ Opened' /\ RegisteredIsUp' /\ MapsAgree'
    BY <2>1, <2>2 DEF IInv, LinkTypes, Opened, RegisteredIsUp, MapsAgree
  <2>4. SentToRegistered'
    BY <2>1, <2>2 DEF IInv, LinkTypes, MapsAgree, SentToRegistered
  <2> QED
    BY <2>3, <2>4 DEF IInv
<1> QED
  BY <1>1, <1>2

LEMMA CallStep ==
  ASSUME IInv, NEW r \in Reqs,
         \/ Invoke(r) \/ Reconnected(r) \/ WakeAgain(r) \/ GiveUp(r)
         \/ InvokeTimeout(r) \/ Ban(r)
  PROVE  IInv'
<1> USE DEF link, registry
<1>1. CASE Invoke(r)
  <2>1. CASE nodesById[NodeOf[r]] # None
    BY <1>1, <2>1, DispatchStep DEF Invoke
  <2>2. CASE nodesById[NodeOf[r]] = None
    BY <1>1, <2>2, RegistryUntouched DEF Invoke, IInv, LinkTypes
  <2> QED
    BY <2>1, <2>2
<1>2. CASE Reconnected(r)
  BY <1>2, DispatchStep DEF Reconnected
<1>3. CASE WakeAgain(r)
  BY <1>3, RegistryUntouched DEF WakeAgain, IInv, LinkTypes
<1>4. CASE GiveUp(r)
  BY <1>4, RegistryUntouched DEF GiveUp, IInv, LinkTypes
<1>5. CASE InvokeTimeout(r)
  BY <1>5, RegistryUntouched DEF InvokeTimeout, IInv, LinkTypes
<1>6. CASE Ban(r)
  BY <1>6, RegistryUntouched DEF Ban, calls, IInv, LinkTypes
<1> QED
  BY <1>1, <1>2, <1>3, <1>4, <1>5, <1>6

LEMMA ResultStep ==
  ASSUME IInv, NEW f \in results, HandleResult(f)
  PROVE  IInv'
<1>1. /\ UNCHANGED <<owner, phase, nodesById, nodesByConn>>
      /\ pendingInvokes' = pendingInvokes \ {f.req}
      /\ sentOn' = sentOn \/ sentOn' = [sentOn EXCEPT ![f.req] = None]
  BY DEF HandleResult, link, calls
<1>2. sentOn' \in [Reqs -> Conns \cup {None}]
  BY <1>1 DEF IInv, LinkTypes
<1>3. \A r \in pendingInvokes' : sentOn'[r] = sentOn[r]
  BY <1>1 DEF IInv, LinkTypes
<1> QED
  BY <1>1, <1>2, <1>3, RegistryUntouched

\* Wakes, the queue of actions and the node itself never touch the registry.
LEMMA OtherStep ==
  ASSUME IInv,
         \/ \E c \in Conns : Breaks(c)
         \/ \E n \in Nodes :
               \/ WakeImpossible(n) \/ WakeSent(n) \/ WakeDone(n)
               \/ ThrottleEnds(n) \/ Expire(n)
               \/ AppMoves(n) \/ Pull(n) \/ ReplayNext(n) \/ Ack(n) \/ AckFails(n)
         \/ \E f \in requests : NodeTakes(f)
         \/ \E w \in working : NodeAnswers(w)
         \/ UNCHANGED vars
  PROVE  IInv'
<1>1. UNCHANGED <<owner, phase, nodesById, nodesByConn, pendingInvokes, sentOn>>
  BY DEF Breaks, WakeImpossible, WakeSent, WakeDone, ThrottleEnds, Expire, AppMoves, Pull,
     ReplayNext, Ack, AckFails, NodeTakes, NodeAnswers, vars, link, registry, calls
<1> QED
  BY <1>1, RegistryUntouched DEF IInv, LinkTypes

-----------------------------------------------------------------------------
(* The theorems                                                             *)

LEMMA NextIInv == IInv /\ [Next]_vars => IInv'
<1> SUFFICES ASSUME IInv, [Next]_vars PROVE IInv'
  OBVIOUS
<1>1. ASSUME NEW n \in Nodes, NEW c \in Conns, Open(n, c) PROVE IInv'
  BY <1>1, OpenStep
<1>2. ASSUME NEW c \in Conns, Connected(c) \/ Refused(c) \/ CloseSeen(c) PROVE IInv'
  BY <1>2, ConnectedStep, RefusedStep, CloseSeenStep
<1>3. ASSUME NEW r \in Reqs,
             \/ Invoke(r) \/ Reconnected(r) \/ WakeAgain(r) \/ GiveUp(r)
             \/ InvokeTimeout(r) \/ Ban(r)
      PROVE  IInv'
  BY <1>3, CallStep
<1>4. ASSUME NEW f \in results, HandleResult(f) PROVE IInv'
  BY <1>4, ResultStep
<1> QED
  BY <1>1, <1>2, <1>3, <1>4, OtherStep DEF Next

LEMMA Invariance == Spec => []IInv
BY InitIInv, NextIInv, PTL DEF Spec

\* No invoke waits for a node the registry does not know or on a connection
\* whose close event has come: unregister settles what waits for its node
\* (node-registry.ts:87).
THEOREM NoInvokeOnADeadLink == Spec => []WaitsOnLiveLink
<1>1. IInv => WaitsOnLiveLink
  BY DEF IInv, SentToRegistered, WaitsOnLiveLink, Ghost
<1> QED
  BY <1>1, Invariance, PTL

\* A node stays listed while its connection lasts, unless another connection
\* of the same node comes or goes (node-registry.ts:43, 81).
THEOREM SessionsAreKept == Spec => SessionKept
<1> DEFINE Kept ==
      \A n \in Nodes :
          LET c == nodesById[n] IN
          c # None /\ nodesById'[n] # c =>
              \/ c \notin nodesByConn'
              \/ \E d \in Conns \ {c} :
                    owner[d] = n /\ (d \in nodesByConn) # (d \in nodesByConn')
<1>1. ASSUME IInv, [Next]_vars PROVE Kept
  <2>1. ASSUME NEW c \in Conns, Connected(c) PROVE Kept
    <3>1. c \notin nodesByConn /\ owner[c] \in Nodes
      BY <1>1, <2>1 DEF IInv, RegisteredIsUp, Opened, Connected
    <3>2. /\ nodesById' = [nodesById EXCEPT ![owner[c]] = c]
          /\ nodesByConn' = nodesByConn \cup {c}
      BY <2>1 DEF Connected
    <3> QED
      BY <1>1, <3>1, <3>2 DEF IInv, LinkTypes, MapsAgree
  <2>2. ASSUME NEW c \in Conns, CloseSeen(c) PROVE Kept
    <3>1. \/ UNCHANGED nodesById
          \/ /\ c \in nodesByConn
             /\ nodesById' = [nodesById EXCEPT ![owner[c]] = None]
             /\ nodesByConn' = nodesByConn \ {c}
      BY <2>2 DEF CloseSeen, Unregister, registry
    <3> QED
      BY <1>1, <3>1 DEF IInv, LinkTypes, MapsAgree
  <2>3. CASE UNCHANGED nodesById
    BY <2>3
  <2> QED
    BY <1>1, <2>1, <2>2, <2>3 DEF Next, Open, Refused, Breaks, Invoke, Reconnected, WakeAgain,
       GiveUp, InvokeTimeout, Ban, WakeImpossible, WakeSent, WakeDone, ThrottleEnds, Expire,
       AppMoves, Pull, ReplayNext, Ack, AckFails, NodeTakes, NodeAnswers, HandleResult,
       vars, registry
<1>2. IInv /\ [Next]_vars => [Kept]_vars
  BY <1>1
<1> QED
  BY <1>2, Invariance, PTL DEF Spec, SessionKept

-----------------------------------------------------------------------------
(* The calls                                                                *)

States == {"idle", "sent", "done"} \cup Waking \cup Waiting

\* An invoke waits exactly while its call is sent, and only a call that is
\* done has an answer.
CallTypes ==
    /\ pc \in [Reqs -> States]
    /\ answer \in [Reqs -> Answers]
    /\ pendingInvokes = {r \in Reqs : pc[r] = "sent"}
    /\ \A r \in Reqs : pc[r] # "done" => answer[r] = "none"

\* The call got past the lookup and the policy.
Sent(r) ==
    \/ pc[r] \in {"sent", "queueWake"}
    \/ pc[r] = "done" /\ answer[r] \notin {"not_connected", "rejected"}

\* A step after which the calls are well formed, those that were sent still
\* count as sent, and none but those of S has begun.
CallsMove(S) ==
    /\ CallTypes'
    /\ \A r \in Reqs : Sent(r) => Sent(r)'
    /\ \A r \in Reqs \ S : pc[r] = "idle" => pc'[r] = "idle"

LEMMA CallsStay ==
  ASSUME CallTypes, UNCHANGED <<pc, answer, pendingInvokes>>
  PROVE  CallsMove({})
BY DEF CallTypes, CallsMove, Sent

\* A call is answered, or goes on to its next wait.
LEMMA CallAnswered ==
  ASSUME CallTypes, NEW r \in Reqs, NEW a \in Answers, Answered(r, a),
         pendingInvokes' = pendingInvokes \ {r},
         Sent(r) => a \notin {"not_connected", "rejected"}
  PROVE  CallsMove({r})
<1>1. pc' = [pc EXCEPT ![r] = "done"] /\ answer' = [answer EXCEPT ![r] = a]
  BY DEF Answered
<1>2. CallTypes'
  BY <1>1 DEF CallTypes, States
<1>3. ASSUME NEW q \in Reqs, Sent(q) PROVE Sent(q)'
  BY <1>1, <1>3 DEF CallTypes, Sent
<1>4. \A q \in Reqs \ {r} : pc[q] = "idle" => pc'[q] = "idle"
  BY <1>1 DEF CallTypes
<1> QED
  BY <1>2, <1>3, <1>4 DEF CallsMove

LEMMA CallWaits ==
  ASSUME CallTypes, NEW r \in Reqs, NEW p \in Waking \cup Waiting,
         ~Sent(r), pc[r] # "done",
         pc' = [pc EXCEPT ![r] = p], UNCHANGED <<answer, pendingInvokes>>
  PROVE  CallsMove({r})
<1>1. p \in States /\ p # "sent" /\ p # "done" /\ pc[r] # "sent"
  BY DEF States, Waking, Waiting, Sent
<1>2. CallTypes'
  BY <1>1 DEF CallTypes
<1>3. ASSUME NEW q \in Reqs, Sent(q) PROVE Sent(q)'
  <2>1. q # r
    BY <1>3
  <2> QED
    BY <1>3, <2>1 DEF CallTypes, Sent
<1>4. \A q \in Reqs \ {r} : pc[q] = "idle" => pc'[q] = "idle"
  BY DEF CallTypes
<1> QED
  BY <1>2, <1>3, <1>4 DEF CallsMove

\* A call that finds its node is refused by the policy or sent.
LEMMA CallDispatched ==
  ASSUME CallTypes, NEW r \in Reqs, pc[r] \in {"idle"} \cup Waiting, Dispatch(r)
  PROVE  CallsMove({r})
<1>1. ~Sent(r) /\ r \notin pendingInvokes
  BY DEF CallTypes, Sent, Waiting
<1>2. CASE r \in banned
  BY <1>1, <1>2, CallAnswered DEF Dispatch, Answers
<1>3. CASE r \notin banned
  <2>1. /\ pc' = [pc EXCEPT ![r] = "sent"] /\ answer' = answer
        /\ pendingInvokes' = pendingInvokes \cup {r}
    BY <1>3 DEF Dispatch
  <2>2. CallTypes'
    BY <2>1 DEF CallTypes, States, Waiting
  <2>3. ASSUME NEW q \in Reqs, Sent(q) PROVE Sent(q)'
    BY <2>1, <2>3 DEF CallTypes, Sent
  <2>4. \A q \in Reqs \ {r} : pc[q] = "idle" => pc'[q] = "idle"
    BY <2>1 DEF CallTypes
  <2> QED
    BY <2>2, <2>3, <2>4 DEF CallsMove
<1> QED
  BY <1>2, <1>3

\* The end of a wake moves those who wait for it, and answers those whose
\* action it was that was queued.
LEMMA CallsReleased ==
  ASSUME CallTypes, NEW n, NEW available \in BOOLEAN, FlightEnds(n, available),
         UNCHANGED pendingInvokes
  PROVE  CallsMove({})
<1>1. ASSUME NEW r \in Reqs
      PROVE  \/ pc'[r] = pc[r] /\ answer'[r] = answer[r]
             \/ pc[r] = "queueWake" /\ pc'[r] = "done" /\ answer'[r] = "queued"
             \/ /\ pc[r] \in {"wake1", "wake2"} /\ pc'[r] \in Waiting
                /\ answer'[r] = answer[r]
  BY DEF FlightEnds, Waking, Waiting
<1>2. DOMAIN pc' = Reqs /\ pc' = [r \in Reqs |-> pc'[r]] /\ answer' = [r \in Reqs |-> answer'[r]]
  BY DEF FlightEnds
<1>3. CallTypes'
  <2>1. \A r \in Reqs : pc'[r] \in States /\ answer'[r] \in Answers
    BY <1>1 DEF CallTypes, States, Waiting, Answers
  <2>2. \A r \in Reqs : (pc'[r] = "sent") <=> (pc[r] = "sent")
    BY <1>1 DEF Waiting
  <2>3. \A r \in Reqs : pc'[r] # "done" => answer'[r] = "none"
    BY <1>1 DEF CallTypes
  <2> QED
    BY <1>2, <2>1, <2>2, <2>3 DEF CallTypes
<1>4. ASSUME NEW r \in Reqs, Sent(r) PROVE Sent(r)'
  BY <1>1, <1>4 DEF Sent
<1>5. \A r \in Reqs : pc[r] = "idle" => pc'[r] = "idle"
  BY <1>1
<1> QED
  BY <1>3, <1>4, <1>5 DEF CallsMove

LEMMA CallsDisconnected ==
  ASSUME CallTypes, NEW c, Unregister(c)
  PROVE  CallsMove({})
<1> DEFINE gone == {r \in pendingInvokes : NodeOf[r] = owner[c]}
<1>1. /\ pendingInvokes' = pendingInvokes \ gone
      /\ pc' = [r \in Reqs |-> IF r \in gone THEN "done" ELSE pc[r]]
      /\ answer' = [r \in Reqs |-> IF r \in gone THEN "disconnected" ELSE answer[r]]
  BY DEF Unregister
<1>2. \A r \in gone : r \in Reqs /\ pc[r] = "sent"
  BY DEF CallTypes
<1> HIDE DEF gone
<1>3. CallTypes'
  BY <1>1, <1>2 DEF CallTypes, States, Answers
<1>4. ASSUME NEW r \in Reqs, Sent(r) PROVE Sent(r)'
  BY <1>1, <1>4 DEF Sent
<1>5. \A r \in Reqs : pc[r] = "idle" => pc'[r] = "idle"
  BY <1>1, <1>2
<1> QED
  BY <1>3, <1>4, <1>5 DEF CallsMove

-----------------------------------------------------------------------------
(* What travels, what is queued and what the app does                       *)

Outcomes == {"ok", "background"}

FrameTypes ==
    /\ requests \subseteq [req : Reqs, conn : Conns]
    /\ working \subseteq [req : Reqs, outcome : Outcomes]
    /\ results \subseteq [req : Reqs, outcome : Outcomes, conn : Conns]

LEMMA CallsAfterResult ==
  ASSUME CallTypes, FrameTypes, NEW f \in results, HandleResult(f)
  PROVE  CallsMove({})
<1> DEFINE r == f.req
<1>1. r \in Reqs /\ f.outcome \in Outcomes
  BY DEF FrameTypes
<1>2. pendingInvokes' = pendingInvokes \ {r}
  BY DEF HandleResult
<1>3. CASE r \notin pendingInvokes
  BY <1>2, <1>3, CallsStay DEF HandleResult, calls
<1>4. CASE r \in pendingInvokes
  <2>1. pc[r] = "sent" /\ Sent(r) /\ answer[r] = "none"
    BY <1>1, <1>4 DEF CallTypes, Sent
  <2>2. CASE f.outcome = "background"
    <3>1. /\ \/ pc' = [pc EXCEPT ![r] = "queueWake"]
             \/ pc' = [pc EXCEPT ![r] = "done"]
          /\ answer' = IF pc'[r] = "done" THEN [answer EXCEPT ![r] = "queued"] ELSE answer
      BY <1>4, <2>2 DEF HandleResult, WakeNode, ShouldQueue
    <3> HIDE DEF r
    <3>2. CallTypes'
      <4>1. CASE pc' = [pc EXCEPT ![r] = "queueWake"]
        <5>1. answer' = answer
          BY <1>1, <3>1, <4>1 DEF CallTypes
        <5> QED
          BY <1>1, <1>2, <2>1, <4>1, <5>1 DEF CallTypes, States, Waking
      <4>2. CASE pc' = [pc EXCEPT ![r] = "done"]
        <5>1. answer' = [answer EXCEPT ![r] = "queued"]
          BY <1>1, <3>1, <4>2 DEF CallTypes
        <5> QED
          BY <1>1, <1>2, <2>1, <4>2, <5>1 DEF CallTypes, States, Answers
      <4> QED
        BY <3>1, <4>1, <4>2
    <3>3. ASSUME NEW q \in Reqs, Sent(q) PROVE Sent(q)'
      BY <1>1, <3>1, <3>3 DEF CallTypes, Sent
    <3>4. \A q \in Reqs : pc[q] = "idle" => pc'[q] = "idle"
      BY <1>1, <2>1, <3>1 DEF CallTypes
    <3> QED
      BY <3>2, <3>3, <3>4 DEF CallsMove
  <2>3. CASE f.outcome = "ok"
    <3>1. Answered(r, "ok")
      BY <1>4, <2>3 DEF HandleResult, ShouldQueue
    <3>2. CallsMove({r})
      BY <1>1, <1>2, <3>1, CallAnswered DEF Answers
    <3> QED
      BY <2>1, <3>2 DEF CallsMove
  <2> QED
    BY <1>1, <2>2, <2>3 DEF Outcomes
<1> QED
  BY <1>3, <1>4

\* Every step moves the calls on, and begins one at most.
LEMMA CallsStep ==
  ASSUME CallTypes, FrameTypes, [Next]_vars
  PROVE  \E S : (S = {} \/ \E r \in Reqs : S = {r}) /\ CallsMove(S)
<1> DEFINE Moved == \E S : (S = {} \/ \E r \in Reqs : S = {r}) /\ CallsMove(S)
<1>a. ASSUME CallsMove({}) PROVE Moved
  BY <1>a
<1>b. ASSUME NEW r \in Reqs, CallsMove({r}) PROVE Moved
  BY <1>b
<1> HIDE DEF Moved
<1>1. ASSUME NEW c \in Conns, CloseSeen(c) PROVE Moved
  <2>1. CallsMove({})
    BY <1>1, CallsDisconnected, CallsStay DEF CloseSeen, registry, calls
  <2> QED
    BY <2>1, <1>a
<1>2. ASSUME NEW r \in Reqs, Invoke(r) \/ Reconnected(r) PROVE Moved
  <2>1. CASE Dispatch(r)
    <3>1. pc[r] \in {"idle"} \cup Waiting
      BY <1>2 DEF Invoke, Reconnected
    <3> QED
      BY <2>1, <3>1, CallDispatched, <1>b
  <2>2. CASE ~Dispatch(r)
    <3>1. /\ pc[r] = "idle" /\ UNCHANGED <<answer, pendingInvokes>>
          /\ WakeNode(r, FALSE, "wake1", "wait1")
      BY <1>2, <2>2 DEF Invoke, Reconnected
    <3>2. \E p \in Waking \cup Waiting : pc' = [pc EXCEPT ![r] = p]
      BY <3>1 DEF WakeNode, Waking, Waiting
    <3>3. ~Sent(r) /\ pc[r] # "done"
      BY <3>1 DEF Sent
    <3> QED
      BY <3>1, <3>2, <3>3, CallWaits, <1>b
  <2> QED
    BY <2>1, <2>2
<1>3. ASSUME NEW r \in Reqs, WakeAgain(r) PROVE Moved
  <2>1. /\ pc[r] = "wait1" /\ UNCHANGED <<answer, pendingInvokes>>
        /\ WakeNode(r, TRUE, "wake2", "wait2")
    BY <1>3 DEF WakeAgain, registry
  <2>2. \E p \in Waking \cup Waiting : pc' = [pc EXCEPT ![r] = p]
    BY <2>1 DEF WakeNode, Waking, Waiting
  <2>3. ~Sent(r) /\ pc[r] # "done"
    BY <2>1 DEF Sent
  <2> QED
    BY <2>1, <2>2, <2>3, CallWaits, <1>b
<1>4. ASSUME NEW r \in Reqs, GiveUp(r) \/ InvokeTimeout(r) PROVE Moved
  <2>1. \E a \in Answers : /\ Answered(r, a)
                           /\ Sent(r) => a \notin {"not_connected", "rejected"}
    BY <1>4 DEF GiveUp, InvokeTimeout, Sent, Answers
  <2>2. pendingInvokes' = pendingInvokes \ {r}
    BY <1>4 DEF GiveUp, InvokeTimeout, registry, CallTypes
  <2> QED
    BY <2>1, <2>2, CallAnswered, <1>b
<1>5. ASSUME NEW n \in Nodes, WakeImpossible(n) \/ WakeDone(n) PROVE Moved
  <2>1. \E available \in BOOLEAN : FlightEnds(n, available)
    BY <1>5 DEF WakeImpossible, WakeDone
  <2>2. UNCHANGED pendingInvokes
    BY <1>5 DEF WakeImpossible, WakeDone, registry
  <2> QED
    BY <2>1, <2>2, CallsReleased, <1>a
<1>6. ASSUME NEW f \in results, HandleResult(f) PROVE Moved
  BY <1>6, CallsAfterResult, <1>a
<1>7. ASSUME \/ \E n \in Nodes, c \in Conns : Open(n, c)
             \/ \E c \in Conns : Connected(c) \/ Refused(c) \/ Breaks(c)
             \/ \E r \in Reqs : Ban(r)
             \/ \E n \in Nodes : \/ WakeSent(n) \/ ThrottleEnds(n) \/ Expire(n) \/ AppMoves(n)
                                 \/ Pull(n) \/ ReplayNext(n) \/ Ack(n) \/ AckFails(n)
             \/ \E f \in requests : NodeTakes(f)
             \/ \E w \in working : NodeAnswers(w)
             \/ UNCHANGED vars
      PROVE  Moved
  <2>1. UNCHANGED <<pc, answer, pendingInvokes>>
    BY <1>7 DEF Open, Connected, Refused, Breaks, Ban, WakeSent, ThrottleEnds, Expire, AppMoves,
       Pull, ReplayNext, Ack, AckFails, NodeTakes, NodeAnswers, vars, calls, registry
  <2> QED
    BY <2>1, CallsStay, <1>a
<1>8. Moved
  BY <1>1, <1>2, <1>3, <1>4, <1>5, <1>6, <1>7 DEF Next
<1> QED
  BY <1>8 DEF Moved

LinkMoreTypes ==
    /\ socket \in [Conns -> {"open", "broken", "closed"}]
    /\ nodeConn \in [Nodes -> Conns \cup {None}]
    /\ flight \in [Nodes -> {"none", "loading", "sending"}]
    /\ lastWake \in [Nodes -> {"never", "recent", "old"}]

LEMMA LinkMoreTypesStep ==
  ASSUME LinkMoreTypes, [Next]_vars
  PROVE  LinkMoreTypes'
<1>1. ASSUME NEW n \in Nodes, NEW c \in Conns, Open(n, c) PROVE LinkMoreTypes'
  BY <1>1 DEF LinkMoreTypes, Open, wakes
<1>2. ASSUME NEW c \in Conns, Connected(c) \/ Refused(c) \/ Breaks(c) \/ CloseSeen(c)
      PROVE  LinkMoreTypes'
  BY <1>2 DEF LinkMoreTypes, Connected, Refused, Breaks, CloseSeen, wakes
<1>3. ASSUME NEW r \in Reqs, Invoke(r) PROVE LinkMoreTypes'
  BY <1>3 DEF LinkMoreTypes, Invoke, WakeNode, wakes, link
<1>4. ASSUME NEW r \in Reqs, WakeAgain(r) PROVE LinkMoreTypes'
  BY <1>4 DEF LinkMoreTypes, WakeAgain, WakeNode, link
<1>5. ASSUME NEW f \in results, HandleResult(f) PROVE LinkMoreTypes'
  BY <1>5 DEF LinkMoreTypes, HandleResult, WakeNode, wakes, link
<1>6. ASSUME NEW n \in Nodes,
             WakeImpossible(n) \/ WakeSent(n) \/ WakeDone(n) \/ ThrottleEnds(n)
      PROVE  LinkMoreTypes'
  BY <1>6 DEF LinkMoreTypes, WakeImpossible, WakeSent, WakeDone, ThrottleEnds, FlightEnds, link
<1>7. ASSUME \/ \E r \in Reqs : Reconnected(r) \/ GiveUp(r) \/ InvokeTimeout(r) \/ Ban(r)
             \/ \E n \in Nodes : \/ Expire(n) \/ AppMoves(n) \/ Pull(n)
                                 \/ ReplayNext(n) \/ Ack(n) \/ AckFails(n)
             \/ \E f \in requests : NodeTakes(f)
             \/ \E w \in working : NodeAnswers(w)
             \/ UNCHANGED vars
      PROVE  LinkMoreTypes'
  <2>1. UNCHANGED <<socket, nodeConn, flight, lastWake>>
    BY <1>7 DEF Reconnected, GiveUp, InvokeTimeout, Ban, Expire, AppMoves, Pull, ReplayNext, Ack,
       AckFails, NodeTakes, NodeAnswers, vars, link, wakes
  <2> QED
    BY <2>1 DEF LinkMoreTypes
<1> QED
  BY <1>1, <1>2, <1>3, <1>4, <1>5, <1>6, <1>7 DEF Next

\* What a filter leaves is a part of the queue; when nothing goes, the oldest
\* entry is the same.
LEMMA WithoutFacts ==
  ASSUME NEW q \in Seq(Reqs), IsInjective(q), NEW gone, NEW s \in Without(q, gone)
  PROVE  /\ s \in Seq(Reqs) /\ IsInjective(s)
         /\ ToSet(s) = ToSet(q) \ gone
         /\ Len(s) <= Len(q)
         /\ Len(s) = Len(q) => ToSet(s) = ToSet(q) /\ (q # <<>> => Head(s) = Head(q))
<1> DEFINE T == ToSet(q)
           kept == T \ gone
           m == Cardinality(kept)
<1>1. /\ DOMAIN q = 1 .. Len(q) /\ Len(q) \in Nat
      /\ \A x : x \in T <=> \E i \in 1 .. Len(q) : q[i] = x
      /\ T \subseteq Reqs
  BY DEF ToSet
<1>2. IsFiniteSet(T) /\ Cardinality(T) = Len(q)
  <2>1. q \in Surjection(1 .. Len(q), T) /\ q \in Injection(1 .. Len(q), T)
    BY <1>1 DEF Surjection, Injection, IsInjective
  <2>2. IsFiniteSet(1 .. Len(q)) /\ Cardinality(1 .. Len(q)) = Len(q)
    BY <1>1, FS_Interval
  <2> HIDE DEF T
  <2> QED
    BY <2>1, <2>2, FS_Surjection
<1>3. kept \subseteq T
  OBVIOUS
<1>4. IsFiniteSet(kept) /\ m \in Nat /\ m <= Len(q) /\ (m = Len(q) => kept = T)
  <2> HIDE DEF T
  <2>1. kept \in SUBSET T
    OBVIOUS
  <2> HIDE DEF kept
  <2> QED
    BY <1>2, <2>1, FS_Subset, FS_CardinalityType
<1>5. /\ s \in Injection(1 .. m, kept)
      /\ \A i, j \in DOMAIN s :
            i < j => \E a, b \in DOMAIN q : a < b /\ q[a] = s[i] /\ q[b] = s[j]
  BY DEF Without
<1>6. s \in [1 .. m -> kept] /\ IsInjective(s)
  BY <1>5 DEF Injection
<1>7. s \in Seq(Reqs) /\ Len(s) = m /\ DOMAIN s = 1 .. m
  <2>1. kept \subseteq Reqs
    BY <1>1
  <2> HIDE DEF kept, m
  <2>2. s \in [1 .. m -> Reqs]
    BY <1>6, <2>1
  <2> QED
    BY <1>4, <2>2
<1>8. ToSet(s) = kept
  <2>1. Cardinality(1 .. m) = m
    BY <1>4, FS_Interval
  <2> HIDE DEF m, kept
  <2>2. s \in Surjection(1 .. m, kept)
    BY <1>4, <1>5, <2>1, FS_Injection DEF m
  <2> QED
    BY <1>6, <1>7, <2>2 DEF ToSet, Surjection
<1>9. ASSUME Len(s) = Len(q), q # <<>>
      PROVE  Head(s) = Head(q)
  <2>1. kept = T /\ 1 \in DOMAIN q /\ 1 \in DOMAIN s
    BY <1>1, <1>4, <1>7, <1>9
  <2>2. PICK j \in DOMAIN s : s[j] = q[1]
    BY <1>1, <1>8, <2>1 DEF ToSet
  <2>3. CASE j = 1
    BY <2>1, <2>2, <2>3, <1>7, <1>9
  <2>4. CASE j > 1
    <3>1. PICK a \in DOMAIN q, b \in DOMAIN q : a < b /\ q[a] = s[1] /\ q[b] = s[j]
      BY <1>5, <2>1, <2>4
    <3>2. b = 1
      BY <2>1, <2>2, <3>1 DEF IsInjective
    <3> QED
      BY <1>1, <3>1, <3>2
  <2> QED
    BY <1>7, <2>3, <2>4
<1> QED
  BY <1>4, <1>6, <1>7, <1>8, <1>9

KeyDistinct(q) == \A i, j \in DOMAIN q : KeyOf[q[i]] = KeyOf[q[j]] => i = j

\* Filters keep the keys of a queue distinct.
LEMMA WithoutKeys ==
  ASSUME NEW q \in Seq(Reqs), KeyDistinct(q), NEW gone, NEW s \in Without(q, gone)
  PROVE  KeyDistinct(s)
<1>1. IsInjective(q)
  BY DEF KeyDistinct, IsInjective
<1>2. IsInjective(s) /\ ToSet(s) \subseteq ToSet(q)
  BY <1>1, WithoutFacts
<1>3. SUFFICES ASSUME NEW i \in DOMAIN s, NEW j \in DOMAIN s, KeyOf[s[i]] = KeyOf[s[j]]
               PROVE  i = j
  BY DEF KeyDistinct
<1>4. /\ \E a \in DOMAIN q : q[a] = s[i]
      /\ \E b \in DOMAIN q : q[b] = s[j]
  BY <1>2 DEF ToSet
<1>5. s[i] = s[j]
  BY <1>3, <1>4 DEF KeyDistinct
<1> QED
  BY <1>2, <1>5 DEF IsInjective

LEMMA Elements ==
  ASSUME NEW S, NEW q \in Seq(S), NEW x
  PROVE  x \in ToSet(q) <=> \E i \in 1 .. Len(q) : q[i] = x
BY DEF ToSet

\* An entry goes in at the end of the queue unless its key is there; nothing
\* is lost but what has expired and, when the queue is full, the oldest.
LEMMA Enqueued ==
  ASSUME NEW n \in Nodes, NEW r \in Reqs, actions \in [Nodes -> Seq(Reqs)],
         Len(actions[n]) <= MaxActions, KeyDistinct(actions[n]), Enqueue(n, r)
  PROVE  \E q \in Seq(Reqs) :
            /\ actions' = [actions EXCEPT ![n] = q]
            /\ Len(q) <= MaxActions /\ KeyDistinct(q)
            /\ ToSet(q) \subseteq ToSet(actions[n]) \cup {r}
            /\ \A x \in ToSet(actions[n]) \ ToSet(q) :
                  \/ x \in expired
                  \/ /\ Len(actions[n]) = MaxActions /\ Len(q) = MaxActions
                     /\ x = Head(actions[n])
<1> DEFINE old == actions[n]
<1>1. /\ old \in Seq(Reqs) /\ IsInjective(old)
      /\ Len(old) <= MaxActions /\ KeyDistinct(old)
  BY DEF KeyDistinct, IsInjective
<1>2. PICK live \in Without(old, expired) :
        actions' = [actions EXCEPT ![n] =
                       IF \E i \in DOMAIN live : KeyOf[live[i]] = KeyOf[r] THEN live
                       ELSE IF Len(Append(live, r)) > MaxActions THEN Tail(Append(live, r))
                       ELSE Append(live, r)]
  BY DEF Enqueue, Prune
<1> DEFINE full == Append(live, r)
<1> HIDE DEF old
<1>3. /\ live \in Seq(Reqs) /\ IsInjective(live) /\ KeyDistinct(live)
      /\ ToSet(live) = ToSet(old) \ expired /\ Len(live) <= Len(old)
      /\ Len(live) = Len(old) => ToSet(live) = ToSet(old) /\ (old # <<>> => Head(live) = Head(old))
  BY <1>1, WithoutFacts, WithoutKeys
<1>4. CASE \E i \in DOMAIN live : KeyOf[live[i]] = KeyOf[r]
  <2>1. actions' = [actions EXCEPT ![n] = live]
    BY <1>2, <1>4
  <2>2. Len(live) <= MaxActions
    BY <1>1, <1>3, Constants
  <2> QED
    BY <1>3, <2>1, <2>2 DEF old
<1>5. CASE ~ \E i \in DOMAIN live : KeyOf[live[i]] = KeyOf[r]
  <2>1. /\ full \in Seq(Reqs) /\ Len(full) = Len(live) + 1
        /\ \A i \in 1 .. Len(live) : full[i] = live[i]
        /\ full[Len(live) + 1] = r
    BY <1>3
  <2>2. KeyDistinct(full)
    <3> SUFFICES ASSUME NEW i \in 1 .. Len(live) + 1, NEW j \in 1 .. Len(live) + 1,
                        KeyOf[full[i]] = KeyOf[full[j]]
                 PROVE  i = j
      BY <2>1 DEF KeyDistinct
    <3> HIDE DEF full
    <3>1. \A k \in 1 .. Len(live) : KeyOf[full[k]] # KeyOf[r]
      BY <1>3, <1>5, <2>1
    <3>2. CASE i \in 1 .. Len(live) /\ j \in 1 .. Len(live)
      <4>1. i \in DOMAIN live /\ j \in DOMAIN live
        BY <1>3, <3>2
      <4>2. KeyOf[live[i]] = KeyOf[live[j]]
        BY <2>1, <3>2
      <4> QED
        BY <1>3, <4>1, <4>2 DEF KeyDistinct
    <3>3. CASE i = Len(live) + 1 \/ j = Len(live) + 1
      BY <1>3, <2>1, <3>1, <3>3
    <3> QED
      BY <1>3, <3>2, <3>3
  <2>3. \A x : x \in ToSet(full) <=> x \in ToSet(live) \/ x = r
    <3> HIDE DEF full
    <3>1. \A x : x \in ToSet(full) <=> \E i \in 1 .. Len(full) : full[i] = x
      BY <2>1, Elements
    <3>2. \A x : x \in ToSet(live) <=> \E i \in 1 .. Len(live) : live[i] = x
      BY <1>3, Elements
    <3>3. Len(live) \in Nat
      BY <1>3
    <3>4. ASSUME NEW i \in 1 .. Len(full)
          PROVE  full[i] \in ToSet(live) \/ full[i] = r
      <4>1. i \in 1 .. Len(live) \/ i = Len(live) + 1
        BY <2>1, <3>3
      <4> QED
        BY <2>1, <3>2, <4>1
    <3>5. ASSUME NEW i \in 1 .. Len(live)
          PROVE  live[i] \in ToSet(full)
      <4>1. i \in 1 .. Len(full) /\ full[i] = live[i]
        BY <2>1, <3>3
      <4> QED
        BY <3>1, <4>1
    <3>6. r \in ToSet(full)
      BY <2>1, <3>1, <3>3
    <3> QED
      BY <3>1, <3>2, <3>4, <3>5, <3>6
  <2>4. CASE Len(full) <= MaxActions
    <3>1. actions' = [actions EXCEPT ![n] = full]
      <4>1. ~(Len(full) > MaxActions)
        <5> HIDE DEF full
        <5> QED
          BY <1>3, <2>1, <2>4, Constants
      <4> QED
        BY <1>2, <1>5, <4>1
    <3> HIDE DEF full
    <3> QED
      BY <1>3, <2>1, <2>2, <2>3, <2>4, <3>1 DEF old
  <2>5. CASE Len(full) > MaxActions
    <3> DEFINE q == Tail(full)
    <3>1. actions' = [actions EXCEPT ![n] = q]
      BY <1>2, <1>5, <2>5
    <3>2. Len(live) = MaxActions /\ Len(old) = MaxActions /\ old # <<>>
      BY <1>1, <1>3, <2>1, <2>5, Constants
    <3> HIDE DEF full
    <3>3. /\ q \in Seq(Reqs) /\ Len(q) = MaxActions
          /\ \A i \in 1 .. MaxActions : q[i] = full[i + 1]
      BY <2>1, <3>2, Constants
    <3> HIDE DEF q
    <3>4. KeyDistinct(q)
      <4> SUFFICES ASSUME NEW i \in 1 .. MaxActions, NEW j \in 1 .. MaxActions,
                          KeyOf[q[i]] = KeyOf[q[j]]
                   PROVE  i = j
        BY <3>3 DEF KeyDistinct
      <4>1. i + 1 \in DOMAIN full /\ j + 1 \in DOMAIN full
        BY <2>1, <3>2, Constants
      <4>2. i + 1 = j + 1
        BY <2>2, <3>3, <4>1 DEF KeyDistinct
      <4> QED
        BY <4>2, Constants
    <3>5. \A x : x \in ToSet(q) <=> \E i \in 1 .. MaxActions : full[i + 1] = x
      BY <3>3, Elements
    <3>6. \A x : x \in ToSet(full) <=> \E i \in 1 .. MaxActions + 1 : full[i] = x
      BY <2>1, <3>2, Elements
    <3>7. full[1] = Head(old)
      BY <1>3, <2>1, <3>2, Constants
    <3>8. \A x \in ToSet(full) : x \in ToSet(q) \/ x = Head(old)
      <4> SUFFICES ASSUME NEW i \in 1 .. MaxActions + 1
                   PROVE  full[i] \in ToSet(q) \/ full[i] = Head(old)
        BY <3>6
      <4>1. CASE i > 1
        <5>1. i - 1 \in 1 .. MaxActions /\ (i - 1) + 1 = i
          BY <4>1, Constants
        <5> QED
          BY <3>5, <5>1
      <4> QED
        BY <3>7, <4>1, Constants
    <3>9. ToSet(q) \subseteq ToSet(full)
      <4>1. \A i \in 1 .. MaxActions : i + 1 \in 1 .. MaxActions + 1
        BY Constants
      <4> QED
        BY <3>5, <3>6, <4>1
    <3> QED
      BY <1>3, <2>3, <3>1, <3>2, <3>3, <3>4, <3>8, <3>9, Constants DEF old
  <2> QED
    BY <1>3, <2>1, <2>4, <2>5, Constants
<1> QED
  BY <1>4, <1>5

AppTypes ==
    /\ actions \in [Nodes -> Seq(Reqs)]
    /\ replay \in [Nodes -> Seq(Reqs)]
    /\ acking \in [Nodes -> BOOLEAN]
    /\ foreground \in [Nodes -> BOOLEAN]
    /\ runs \in [Keys -> Nat]
    /\ unacked \in [Keys -> Nat]

\* A queue keeps to its limit with one entry a key, and so does what the app
\* replays; it waits for an acknowledgement only of what it replays.
QueuesFit ==
    /\ \A n \in Nodes : Len(actions[n]) <= MaxActions /\ KeyDistinct(actions[n])
    /\ \A n \in Nodes : KeyDistinct(replay[n])
    /\ \A n \in Nodes : acking[n] => replay[n] # <<>>

AppInv == FrameTypes /\ AppTypes /\ QueuesFit

\* An entry that a node or the gateway takes off what it keeps in order.
LEMMA TailOf ==
  ASSUME NEW q \in Seq(Reqs), q # <<>>
  PROVE  /\ Head(q) \in Reqs /\ Head(q) \in ToSet(q) /\ Tail(q) \in Seq(Reqs)
         /\ ToSet(Tail(q)) \subseteq ToSet(q)
         /\ KeyDistinct(q) => KeyDistinct(Tail(q)) /\ Head(q) \notin ToSet(Tail(q))
<1>1. /\ Len(q) \in Nat \ {0} /\ DOMAIN q = 1 .. Len(q)
      /\ Tail(q) \in Seq(Reqs) /\ Len(Tail(q)) = Len(q) - 1
      /\ DOMAIN Tail(q) = 1 .. (Len(q) - 1)
      /\ \A i \in 1 .. (Len(q) - 1) : Tail(q)[i] = q[i + 1]
  OBVIOUS
<1>2. \A i \in 1 .. (Len(q) - 1) : i + 1 \in DOMAIN q /\ i + 1 # 1
  BY <1>1
<1>3. Head(q) = q[1] /\ 1 \in DOMAIN q
  BY <1>1
<1>4. Head(q) \in Reqs /\ Head(q) \in ToSet(q)
  BY <1>1, <1>3, Elements
<1>5. ToSet(Tail(q)) \subseteq ToSet(q)
  BY <1>1, <1>2 DEF ToSet
<1>6. ASSUME KeyDistinct(q) PROVE KeyDistinct(Tail(q))
  <2> SUFFICES ASSUME NEW i \in 1 .. (Len(q) - 1), NEW j \in 1 .. (Len(q) - 1),
                      KeyOf[Tail(q)[i]] = KeyOf[Tail(q)[j]]
               PROVE  i = j
    BY <1>1 DEF KeyDistinct
  <2>1. i + 1 = j + 1
    BY <1>1, <1>2, <1>6 DEF KeyDistinct
  <2> QED
    BY <2>1
<1>7. ASSUME KeyDistinct(q) PROVE Head(q) \notin ToSet(Tail(q))
  <2>1. SUFFICES ASSUME NEW i \in 1 .. (Len(q) - 1), Tail(q)[i] = Head(q)
                 PROVE  FALSE
    BY <1>1 DEF ToSet
  <2>2. q[i + 1] = q[1]
    BY <1>1, <1>3, <2>1
  <2> QED
    BY <1>2, <1>3, <1>7, <2>2 DEF KeyDistinct
<1> QED
  BY <1>1, <1>4, <1>5, <1>6, <1>7

LEMMA FrameTypesStep ==
  ASSUME LinkTypes, LinkMoreTypes, AppInv, [Next]_vars
  PROVE  FrameTypes'
<1>1. ASSUME NEW c \in Conns, CloseSeen(c) PROVE FrameTypes'
  BY <1>1 DEF CloseSeen, AppInv, FrameTypes
<1>2. ASSUME NEW r \in Reqs, Invoke(r) \/ Reconnected(r) PROVE FrameTypes'
  <2> DEFINE c == nodesById[NodeOf[r]]
  <2>1. /\ UNCHANGED <<working, results>>
        /\ UNCHANGED requests \/ (c # None /\ requests' = requests \cup {[req |-> r, conn |-> c]})
    BY <1>2 DEF Invoke, Reconnected, Dispatch
  <2>2. c \in Conns \cup {None}
    BY Constants DEF LinkTypes
  <2> HIDE DEF c
  <2> QED
    BY <2>1, <2>2 DEF AppInv, FrameTypes
<1>3. ASSUME NEW f \in results, HandleResult(f) PROVE FrameTypes'
  BY <1>3 DEF HandleResult, AppInv, FrameTypes
<1>4. ASSUME NEW f \in requests, NodeTakes(f) PROVE FrameTypes'
  <2>1. PICK o \in Outcomes : /\ requests' = requests \ {f} /\ UNCHANGED results
                              /\ working' = working \cup {[req |-> f.req, outcome |-> o]}
    BY <1>4 DEF NodeTakes, Outcomes
  <2>2. f.req \in Reqs
    BY DEF AppInv, FrameTypes
  <2> QED
    BY <2>1, <2>2 DEF AppInv, FrameTypes
<1>5. ASSUME NEW w \in working, NodeAnswers(w) PROVE FrameTypes'
  <2> DEFINE c == nodeConn[NodeOf[w.req]]
  <2>1. /\ working' = working \ {w} /\ UNCHANGED requests
        /\ \/ UNCHANGED results
           \/ /\ c # None
              /\ results' = results \cup {[req |-> w.req, outcome |-> w.outcome, conn |-> c]}
    BY <1>5 DEF NodeAnswers, LinkUp
  <2>2. w.req \in Reqs /\ w.outcome \in Outcomes
    BY DEF AppInv, FrameTypes
  <2>3. c \in Conns \cup {None}
    BY <2>2, Constants DEF LinkMoreTypes
  <2> HIDE DEF c
  <2> QED
    BY <2>1, <2>2, <2>3 DEF AppInv, FrameTypes
<1>6. ASSUME \/ \E n \in Nodes, c \in Conns : Open(n, c)
             \/ \E c \in Conns : Connected(c) \/ Refused(c) \/ Breaks(c)
             \/ \E r \in Reqs : WakeAgain(r) \/ GiveUp(r) \/ InvokeTimeout(r) \/ Ban(r)
             \/ \E n \in Nodes :
                   \/ WakeImpossible(n) \/ WakeSent(n) \/ WakeDone(n)
                   \/ ThrottleEnds(n) \/ Expire(n)
                   \/ AppMoves(n) \/ Pull(n) \/ ReplayNext(n) \/ Ack(n) \/ AckFails(n)
             \/ UNCHANGED vars
      PROVE  FrameTypes'
  <2>1. UNCHANGED <<requests, working, results>>
    BY <1>6 DEF Open, Connected, Refused, Breaks, WakeAgain, GiveUp, InvokeTimeout, Ban,
       WakeImpossible, WakeSent, WakeDone, ThrottleEnds, Expire, AppMoves, Pull, ReplayNext, Ack,
       AckFails, vars, app
  <2> QED
    BY <2>1 DEF AppInv, FrameTypes
<1> QED
  BY <1>1, <1>2, <1>3, <1>4, <1>5, <1>6 DEF Next

LEMMA Counted ==
  ASSUME NEW count \in [Keys -> Nat], NEW k \in Keys
  PROVE  [count EXCEPT ![k] = @ + 1] \in [Keys -> Nat]
<1>1. count[k] + 1 \in Nat
  OBVIOUS
<1> QED
  BY <1>1

\* The queues, replays and counts of a step that does not touch them.
LEMMA QueuesStay ==
  ASSUME AppInv, UNCHANGED <<actions, replay, acking, foreground, runs, unacked>>
  PROVE  AppTypes' /\ QueuesFit'
BY DEF AppInv, AppTypes, QueuesFit

LEMMA QueuesStep ==
  ASSUME CallTypes, AppInv, [Next]_vars
  PROVE  AppTypes' /\ QueuesFit'
<1>1. ASSUME NEW f \in results, HandleResult(f) PROVE AppTypes' /\ QueuesFit'
  <2>1. /\ UNCHANGED <<replay, acking, foreground, runs, unacked>>
        /\ UNCHANGED actions \/ Enqueue(NodeOf[f.req], f.req)
    BY <1>1 DEF HandleResult
  <2>2. CASE UNCHANGED actions
    BY <2>1, <2>2, QueuesStay
  <2>3. CASE Enqueue(NodeOf[f.req], f.req)
    <3> DEFINE r == f.req
               n == NodeOf[r]
    <3>1. r \in Reqs /\ n \in Nodes
      BY Constants DEF AppInv, FrameTypes
    <3> HIDE DEF n, r
    <3>2. PICK q \in Seq(Reqs) : /\ actions' = [actions EXCEPT ![n] = q]
                                 /\ Len(q) <= MaxActions /\ KeyDistinct(q)
      BY <2>3, <3>1, Enqueued DEF AppInv, AppTypes, QueuesFit, n, r
    <3>3. AppTypes'
      BY <2>1, <3>1, <3>2 DEF AppInv, AppTypes
    <3>4. QueuesFit'
      BY <2>1, <3>1, <3>2 DEF AppInv, AppTypes, QueuesFit
    <3> QED
      BY <3>3, <3>4
  <2> QED
    BY <2>1, <2>2, <2>3
<1>2. ASSUME NEW n \in Nodes, Pull(n) PROVE AppTypes' /\ QueuesFit'
  <2>1. /\ actions[n] \in Seq(Reqs) /\ KeyDistinct(actions[n]) /\ Len(actions[n]) <= MaxActions
        /\ IsInjective(actions[n])
    BY DEF AppInv, AppTypes, QueuesFit, KeyDistinct, IsInjective
  <2>2. PICK q \in Without(actions[n], expired \cup banned) :
               /\ actions' = [actions EXCEPT ![n] = q]
               /\ replay' = [replay EXCEPT ![n] = q]
    BY <1>2 DEF Pull
  <2>3. /\ replay[n] = <<>> /\ UNCHANGED <<acking, foreground, runs, unacked>>
    BY <1>2 DEF Pull
  <2>4. q \in Seq(Reqs) /\ KeyDistinct(q) /\ Len(q) <= Len(actions[n])
    BY <2>1, <2>2, WithoutFacts, WithoutKeys
  <2>5. Len(q) <= MaxActions
    BY <2>1, <2>4, Constants
  <2>6. AppTypes'
    BY <2>2, <2>3, <2>4 DEF AppInv, AppTypes
  <2>7. QueuesFit'
    BY <2>2, <2>3, <2>4, <2>5 DEF AppInv, AppTypes, QueuesFit
  <2> QED
    BY <2>6, <2>7
<1>3. ASSUME NEW n \in Nodes, Ack(n) PROVE AppTypes' /\ QueuesFit'
  <2>1. /\ actions[n] \in Seq(Reqs) /\ KeyDistinct(actions[n]) /\ Len(actions[n]) <= MaxActions
        /\ IsInjective(actions[n])
    BY DEF AppInv, AppTypes, QueuesFit, KeyDistinct, IsInjective
  <2>2. PICK q \in Without(actions[n], expired \cup {Head(replay[n])}) :
               actions' = [actions EXCEPT ![n] = q]
    BY <1>3 DEF Ack
  <2>3. /\ acking[n] /\ acking' = [acking EXCEPT ![n] = FALSE]
        /\ UNCHANGED <<foreground, runs, unacked>>
    BY <1>3 DEF Ack
  <2>a. PICK rest \in {Tail(replay[n]), <<>>} : replay' = [replay EXCEPT ![n] = rest]
    BY <1>3 DEF Ack
  <2>4. q \in Seq(Reqs) /\ KeyDistinct(q) /\ Len(q) <= Len(actions[n])
    BY <2>1, <2>2, WithoutFacts, WithoutKeys
  <2>5. Len(q) <= MaxActions
    BY <2>1, <2>4, Constants
  <2>6. replay[n] \in Seq(Reqs) /\ replay[n] # <<>> /\ KeyDistinct(replay[n])
    BY <2>3 DEF AppInv, AppTypes, QueuesFit
  <2>7. rest \in Seq(Reqs) /\ KeyDistinct(rest)
    <3>1. CASE rest = Tail(replay[n])
      BY <2>6, <3>1, TailOf
    <3>2. CASE rest = <<>>
      BY <3>2 DEF KeyDistinct
    <3> QED
      BY <3>1, <3>2
  <2>8. AppTypes'
    BY <2>a, <2>2, <2>3, <2>4, <2>7 DEF AppInv, AppTypes
  <2>9. QueuesFit'
    BY <2>a, <2>2, <2>3, <2>4, <2>5, <2>7 DEF AppInv, AppTypes, QueuesFit
  <2> QED
    BY <2>8, <2>9
<1>4. ASSUME NEW n \in Nodes, ReplayNext(n) \/ AckFails(n) PROVE AppTypes' /\ QueuesFit'
  <2> DEFINE k == KeyOf[Head(replay[n])]
  <2>1. replay[n] \in Seq(Reqs) /\ replay[n] # <<>>
    BY <1>4 DEF ReplayNext, AckFails, AppInv, AppTypes, QueuesFit
  <2>2. k \in Keys
    BY <2>1, TailOf DEF Keys
  <2>3. UNCHANGED <<actions, foreground>>
    BY <1>4 DEF ReplayNext, AckFails, queue
  <2>4. KeyDistinct(<<>>)
    BY DEF KeyDistinct
  <2>5. CASE ReplayNext(n)
    <3>1. /\ ~acking[n]
          /\ \/ runs' = [runs EXCEPT ![k] = @ + 1]
             \/ UNCHANGED runs
          /\ \/ unacked' = [unacked EXCEPT ![k] = @ + 1]
             \/ UNCHANGED unacked
          /\ \/ acking' = [acking EXCEPT ![n] = TRUE] /\ UNCHANGED replay
             \/ replay' = [replay EXCEPT ![n] = <<>>] /\ UNCHANGED acking
      BY <2>5 DEF ReplayNext
    <3> HIDE DEF k
    <3>a. /\ runs \in [Keys -> Nat] /\ unacked \in [Keys -> Nat]
          /\ acking \in [Nodes -> BOOLEAN] /\ replay \in [Nodes -> Seq(Reqs)]
      BY DEF AppInv, AppTypes
    <3>2. /\ runs' \in [Keys -> Nat] /\ unacked' \in [Keys -> Nat]
          /\ acking' \in [Nodes -> BOOLEAN] /\ replay' \in [Nodes -> Seq(Reqs)]
      <4>1. runs' \in [Keys -> Nat]
        BY <2>2, <3>a, <3>1, Counted
      <4>2. unacked' \in [Keys -> Nat]
        <5>1. CASE unacked' = [unacked EXCEPT ![k] = @ + 1]
          BY <2>2, <3>a, <5>1, Counted
        <5> QED
          BY <3>a, <3>1, <5>1
      <4>3. acking' \in [Nodes -> BOOLEAN] /\ replay' \in [Nodes -> Seq(Reqs)]
        <5>1. CASE acking' = [acking EXCEPT ![n] = TRUE] /\ UNCHANGED replay
          BY <3>a, <5>1
        <5>2. CASE replay' = [replay EXCEPT ![n] = <<>>] /\ UNCHANGED acking
          BY <3>a, <5>2
        <5> QED
          BY <3>1, <5>1, <5>2
      <4> QED
        BY <4>1, <4>2, <4>3
    <3>3. AppTypes'
      BY <2>3, <3>2 DEF AppInv, AppTypes
    <3>4. QueuesFit'
      BY <2>1, <2>3, <2>4, <3>1 DEF AppInv, AppTypes, QueuesFit
    <3> QED
      BY <3>3, <3>4
  <2>6. CASE AckFails(n)
    <3>1. /\ unacked' = [unacked EXCEPT ![k] = @ + 1]
          /\ replay' = [replay EXCEPT ![n] = <<>>]
          /\ acking' = [acking EXCEPT ![n] = FALSE]
          /\ UNCHANGED runs
      BY <2>6 DEF AckFails
    <3> HIDE DEF k
    <3>2. unacked' \in [Keys -> Nat]
      BY <2>2, <3>1, Counted DEF AppInv, AppTypes
    <3>3. AppTypes'
      BY <2>3, <3>1, <3>2 DEF AppInv, AppTypes
    <3>4. QueuesFit'
      BY <2>3, <2>4, <3>1 DEF AppInv, AppTypes, QueuesFit
    <3> QED
      BY <3>3, <3>4
  <2> QED
    BY <1>4, <2>5, <2>6
<1>5. ASSUME NEW f \in requests, NodeTakes(f) PROVE AppTypes' /\ QueuesFit'
  <2>1. KeyOf[f.req] \in Keys
    BY DEF AppInv, FrameTypes, Keys
  <2>2. /\ UNCHANGED <<actions, replay, acking, foreground, unacked>>
        /\ UNCHANGED runs \/ runs' = [runs EXCEPT ![KeyOf[f.req]] = @ + 1]
    BY <1>5 DEF NodeTakes, queue
  <2>3. runs' \in [Keys -> Nat]
    BY <2>1, <2>2, Counted DEF AppInv, AppTypes
  <2>4. AppTypes' /\ QueuesFit'
    BY <2>2, <2>3 DEF AppInv, AppTypes, QueuesFit
  <2> QED
    BY <2>4
<1>6. ASSUME NEW n \in Nodes, AppMoves(n) PROVE AppTypes' /\ QueuesFit'
  BY <1>6 DEF AppMoves, AppInv, AppTypes, QueuesFit, queue
<1>7. ASSUME \/ \E n \in Nodes, c \in Conns : Open(n, c)
             \/ \E c \in Conns : Connected(c) \/ Refused(c) \/ Breaks(c) \/ CloseSeen(c)
             \/ \E r \in Reqs : \/ Invoke(r) \/ Reconnected(r) \/ WakeAgain(r) \/ GiveUp(r)
                                \/ InvokeTimeout(r) \/ Ban(r)
             \/ \E n \in Nodes : \/ WakeImpossible(n) \/ WakeSent(n) \/ WakeDone(n)
                                 \/ ThrottleEnds(n) \/ Expire(n)
             \/ \E w \in working : NodeAnswers(w)
             \/ UNCHANGED vars
      PROVE  AppTypes' /\ QueuesFit'
  <2>1. UNCHANGED <<actions, replay, acking, foreground, runs, unacked>>
    BY <1>7 DEF Open, Connected, Refused, Breaks, CloseSeen, Invoke, Reconnected, WakeAgain,
       GiveUp, InvokeTimeout, Ban, WakeImpossible, WakeSent, WakeDone, ThrottleEnds, Expire,
       NodeAnswers, vars, app, queue
  <2> QED
    BY <2>1, QueuesStay
<1> QED
  BY <1>1, <1>2, <1>3, <1>4, <1>5, <1>6, <1>7 DEF Next

-----------------------------------------------------------------------------
(* Runs of a command                                                        *)

ReqsOf(F) == {f.req : f \in F}
Distinct(F) == \A f, g \in F : f.req = g.req => f = g

\* What node n has queued at the gateway or replays, and the part of it that is
\* still to run: all but the action that waits for its acknowledgement.
Stored(n) == ToSet(actions[n]) \cup ToSet(replay[n])
ToRun(n) == {r \in Stored(n) : ~(acking[n] /\ r = Head(replay[n]))}

\* A call has one frame, or one entry in a queue and its replay, or none.
Places ==
    /\ Distinct(requests) /\ Distinct(working) /\ Distinct(results)
    /\ ReqsOf(requests) \cap ReqsOf(working) = {}
    /\ ReqsOf(requests) \cap ReqsOf(results) = {}
    /\ ReqsOf(working) \cap ReqsOf(results) = {}
    /\ \A r \in ReqsOf(requests) \cup ReqsOf(working) \cup ReqsOf(results) : Sent(r)
    /\ \A n \in Nodes : \A r \in Stored(n) :
          /\ NodeOf[r] = n /\ Sent(r)
          /\ r \notin ReqsOf(requests) \cup ReqsOf(working) \cup ReqsOf(results)

\* Call r may still make its command run; call r has done so, or never will.
Unrun(r) ==
    \/ \E f \in requests : f.req = r
    \/ \E w \in working : w.req = r /\ w.outcome = "background"
    \/ \E f \in results : f.req = r /\ f.outcome = "background"
    \/ r \in ToRun(NodeOf[r])
Spent(k) == {r \in Reqs : KeyOf[r] = k /\ Sent(r) /\ ~Unrun(r)}

Begun == {r \in Reqs : pc[r] # "idle"}

Accounted == \A k \in Keys : runs[k] <= unacked[k] + Cardinality(Spent(k))

SentGrows == \A r \in Reqs : Sent(r) => Sent(r)'
UnrunShrinks == \A r \in Reqs : Sent(r) /\ Unrun(r)' => Unrun(r)

LEMMA SpentFinite ==
  ASSUME IsFiniteSet(Begun), NEW k
  PROVE  IsFiniteSet(Spent(k)) /\ Cardinality(Spent(k)) \in Nat
<1>1. Spent(k) \in SUBSET Begun
  BY DEF Spent, Sent, Begun
<1> QED
  BY <1>1, FS_Subset, FS_CardinalityType

LEMMA SpentFiniteNext ==
  ASSUME IsFiniteSet(Begun'), NEW CONSTANT k
  PROVE  IsFiniteSet(Spent(k)') /\ Cardinality(Spent(k)') \in Nat
<1>1. Spent(k)' \in SUBSET Begun'
  BY DEF Spent, Sent, Begun
<1> QED
  BY <1>1, FS_Subset, FS_CardinalityType

\* A step without a run or a failed acknowledgement.
LEMMA AccountedKept ==
  ASSUME AppTypes, Accounted, IsFiniteSet(Begun), IsFiniteSet(Begun'),
         SentGrows, UnrunShrinks, UNCHANGED <<runs, unacked>>
  PROVE  Accounted'
<1> SUFFICES ASSUME NEW k \in Keys
             PROVE  runs'[k] <= unacked'[k] + Cardinality(Spent(k)')
  BY DEF Accounted
<1>1. Spent(k) \in SUBSET Spent(k)'
  BY DEF Spent, SentGrows, UnrunShrinks
<1>2. Cardinality(Spent(k)) <= Cardinality(Spent(k)')
  BY <1>1, SpentFiniteNext, FS_Subset
<1>3. Cardinality(Spent(k)) \in Nat /\ Cardinality(Spent(k)') \in Nat
  BY SpentFinite, SpentFiniteNext
<1>4. runs[k] \in Nat /\ unacked[k] \in Nat /\ runs[k] <= unacked[k] + Cardinality(Spent(k))
  BY DEF AppTypes, Accounted
<1> QED
  BY <1>2, <1>3, <1>4

\* The command of r runs: r is spent.
LEMMA AccountedRun ==
  ASSUME AppTypes, Accounted, IsFiniteSet(Begun), IsFiniteSet(Begun'),
         SentGrows, UnrunShrinks, NEW r \in Reqs, Sent(r), Unrun(r), ~Unrun(r)',
         runs' = [runs EXCEPT ![KeyOf[r]] = @ + 1], UNCHANGED unacked
  PROVE  Accounted'
<1> SUFFICES ASSUME NEW k \in Keys
             PROVE  runs'[k] <= unacked'[k] + Cardinality(Spent(k)')
  BY DEF Accounted
<1>1. Spent(k) \in SUBSET Spent(k)'
  BY DEF Spent, SentGrows, UnrunShrinks
<1>2. Cardinality(Spent(k)) <= Cardinality(Spent(k)')
  BY <1>1, SpentFiniteNext, FS_Subset
<1>3. Cardinality(Spent(k)) \in Nat /\ Cardinality(Spent(k)') \in Nat
  BY SpentFinite, SpentFiniteNext
<1>4. runs[k] \in Nat /\ unacked[k] \in Nat /\ runs[k] <= unacked[k] + Cardinality(Spent(k))
  BY DEF AppTypes, Accounted
<1>5. CASE k = KeyOf[r]
  <2>1. r \notin Spent(k) /\ Spent(k) \cup {r} \in SUBSET Spent(k)'
    BY <1>1, <1>5 DEF Spent, SentGrows
  <2>2. Cardinality(Spent(k) \cup {r}) = Cardinality(Spent(k)) + 1
    BY <2>1, SpentFinite, FS_AddElement
  <2>3. Cardinality(Spent(k) \cup {r}) <= Cardinality(Spent(k)')
    BY <2>1, SpentFiniteNext, FS_Subset
  <2>4. runs'[k] = runs[k] + 1 /\ unacked'[k] = unacked[k]
    BY <1>5 DEF AppTypes
  <2> QED
    BY <1>3, <1>4, <2>2, <2>3, <2>4
<1>6. CASE k # KeyOf[r]
  <2>1. runs'[k] = runs[k] /\ unacked'[k] = unacked[k]
    BY <1>6 DEF AppTypes
  <2> QED
    BY <1>2, <1>3, <1>4, <2>1
<1> QED
  BY <1>5, <1>6

\* The acknowledgement of r fails: r may run once more.
LEMMA AccountedLost ==
  ASSUME AppTypes, Accounted, IsFiniteSet(Begun), IsFiniteSet(Begun'),
         SentGrows, NEW r \in Reqs,
         \A q \in Reqs \ {r} : Sent(q) /\ Unrun(q)' => Unrun(q),
         unacked' = [unacked EXCEPT ![KeyOf[r]] = @ + 1], UNCHANGED runs
  PROVE  Accounted'
<1> SUFFICES ASSUME NEW k \in Keys
             PROVE  runs'[k] <= unacked'[k] + Cardinality(Spent(k)')
  BY DEF Accounted
<1>3. Cardinality(Spent(k)) \in Nat /\ Cardinality(Spent(k)') \in Nat
  BY SpentFinite, SpentFiniteNext
<1>4. runs[k] \in Nat /\ unacked[k] \in Nat /\ runs[k] <= unacked[k] + Cardinality(Spent(k))
  BY DEF AppTypes, Accounted
<1>5. CASE k = KeyOf[r]
  <2>1. Spent(k) \ {r} \in SUBSET Spent(k)'
    BY DEF Spent, SentGrows
  <2>2. /\ Cardinality(Spent(k) \ {r}) >= Cardinality(Spent(k)) - 1
        /\ Cardinality(Spent(k) \ {r}) \in Int
    <3>1. IsFiniteSet(Spent(k))
      BY SpentFinite
    <3>2. Cardinality(Spent(k) \ {r})
            = IF r \in Spent(k) THEN Cardinality(Spent(k)) - 1 ELSE Cardinality(Spent(k))
      BY <3>1, FS_RemoveElement
    <3> QED
      BY <1>3, <3>2
  <2>3. Cardinality(Spent(k) \ {r}) <= Cardinality(Spent(k)')
    BY <2>1, SpentFiniteNext, FS_Subset
  <2>4. runs'[k] = runs[k] /\ unacked'[k] = unacked[k] + 1
    BY <1>5 DEF AppTypes
  <2> QED
    BY <1>3, <1>4, <2>2, <2>3, <2>4
<1>6. CASE k # KeyOf[r]
  <2>1. Spent(k) \in SUBSET Spent(k)'
    BY <1>6 DEF Spent, SentGrows
  <2>2. Cardinality(Spent(k)) <= Cardinality(Spent(k)')
    BY <2>1, SpentFiniteNext, FS_Subset
  <2>3. runs'[k] = runs[k] /\ unacked'[k] = unacked[k]
    BY <1>6 DEF AppTypes
  <2> QED
    BY <1>3, <1>4, <2>2, <2>3
<1> QED
  BY <1>5, <1>6

\* The command of r runs and r is not acknowledged: both sides count it.
LEMMA AccountedFailure ==
  ASSUME AppTypes, Accounted, IsFiniteSet(Begun), IsFiniteSet(Begun'),
         SentGrows, UnrunShrinks, NEW r \in Reqs,
         runs' = [runs EXCEPT ![KeyOf[r]] = @ + 1],
         unacked' = [unacked EXCEPT ![KeyOf[r]] = @ + 1]
  PROVE  Accounted'
<1> SUFFICES ASSUME NEW k \in Keys
             PROVE  runs'[k] <= unacked'[k] + Cardinality(Spent(k)')
  BY DEF Accounted
<1>1. Spent(k) \in SUBSET Spent(k)'
  BY DEF Spent, SentGrows, UnrunShrinks
<1>2. Cardinality(Spent(k)) <= Cardinality(Spent(k)')
  BY <1>1, SpentFiniteNext, FS_Subset
<1>3. Cardinality(Spent(k)) \in Nat /\ Cardinality(Spent(k)') \in Nat
  BY SpentFinite, SpentFiniteNext
<1>4. runs[k] \in Nat /\ unacked[k] \in Nat /\ runs[k] <= unacked[k] + Cardinality(Spent(k))
  BY DEF AppTypes, Accounted
<1>5. \/ runs'[k] = runs[k] + 1 /\ unacked'[k] = unacked[k] + 1
      \/ runs'[k] = runs[k] /\ unacked'[k] = unacked[k]
  BY DEF AppTypes
<1> QED
  BY <1>2, <1>3, <1>4, <1>5

\* A step that only takes frames and entries away.
LEMMA PlacesShrink ==
  ASSUME FrameTypes, Places, SentGrows,
         requests' \subseteq requests, working' \subseteq working, results' \subseteq results,
         \A n \in Nodes : Stored(n)' \subseteq Stored(n), \A n \in Nodes : Stored(n) \subseteq Reqs
  PROVE  Places'
<1>1. /\ ReqsOf(requests)' \subseteq ReqsOf(requests)
      /\ ReqsOf(working)' \subseteq ReqsOf(working)
      /\ ReqsOf(results)' \subseteq ReqsOf(results)
  BY DEF ReqsOf
<1>2. ReqsOf(requests) \cup ReqsOf(working) \cup ReqsOf(results) \subseteq Reqs
  BY DEF ReqsOf, FrameTypes
<1>3. Distinct(requests)' /\ Distinct(working)' /\ Distinct(results)'
  BY DEF Places, Distinct
<1>4. \A r \in (ReqsOf(requests) \cup ReqsOf(working) \cup ReqsOf(results))' : Sent(r)'
  BY <1>1, <1>2 DEF Places, SentGrows
<1>5. ASSUME NEW n \in Nodes, NEW r \in Stored(n)'
      PROVE  /\ NodeOf[r] = n /\ Sent(r)'
             /\ r \notin (ReqsOf(requests) \cup ReqsOf(working) \cup ReqsOf(results))'
  <2>1. r \in Stored(n) /\ r \in Reqs
    OBVIOUS
  <2> QED
    BY <1>1, <2>1 DEF Places, SentGrows
<1> QED
  BY <1>1, <1>3, <1>4, <1>5 DEF Places

LEMMA UnrunShrink ==
  ASSUME requests' \subseteq requests, working' \subseteq working, results' \subseteq results,
         \A n \in Nodes : ToRun(n)' \subseteq ToRun(n)
  PROVE  UnrunShrinks
<1> SUFFICES ASSUME NEW r \in Reqs, Unrun(r)' PROVE Unrun(r)
  BY DEF UnrunShrinks
<1>1. NodeOf[r] \in Nodes
  BY Constants
<1> QED
  BY <1>1 DEF Unrun

LEMMA FrameGone ==
  ASSUME NEW F, Distinct(F), NEW f \in F
  PROVE  Distinct(F \ {f}) /\ ReqsOf(F \ {f}) = ReqsOf(F) \ {f.req}
BY DEF Distinct, ReqsOf

LEMMA FrameCome ==
  ASSUME NEW F, Distinct(F), NEW f, f.req \notin ReqsOf(F)
  PROVE  Distinct(F \cup {f}) /\ ReqsOf(F \cup {f}) = ReqsOf(F) \cup {f.req}
BY DEF Distinct, ReqsOf

\* A step that moves call r from one place to another.
LEMMA PlacesMove ==
  ASSUME FrameTypes, Places, SentGrows, \A n \in Nodes : Stored(n) \subseteq Reqs,
         NEW r \in Reqs, Sent(r)',
         Distinct(requests)' /\ Distinct(working)' /\ Distinct(results)',
         ReqsOf(requests)' \subseteq ReqsOf(requests) \cup {r},
         ReqsOf(working)' \subseteq ReqsOf(working) \cup {r},
         ReqsOf(results)' \subseteq ReqsOf(results) \cup {r},
         \A n \in Nodes : \A q \in Stored(n)' : q \in Stored(n) \/ (q = r /\ n = NodeOf[r]),
         r \in ReqsOf(requests)' => r \notin ReqsOf(working)' \cup ReqsOf(results)',
         r \notin ReqsOf(working)' \cap ReqsOf(results)',
         \A n \in Nodes : r \in Stored(n)' =>
            r \notin ReqsOf(requests)' \cup ReqsOf(working)' \cup ReqsOf(results)'
  PROVE  Places'
<1>2. ReqsOf(requests) \cup ReqsOf(working) \cup ReqsOf(results) \subseteq Reqs
  BY DEF ReqsOf, FrameTypes
<1>3. /\ ReqsOf(requests)' \cap ReqsOf(working)' = {}
      /\ ReqsOf(requests)' \cap ReqsOf(results)' = {}
      /\ ReqsOf(working)' \cap ReqsOf(results)' = {}
  BY DEF Places
<1>4. \A q \in (ReqsOf(requests) \cup ReqsOf(working) \cup ReqsOf(results))' : Sent(q)'
  BY <1>2 DEF Places, SentGrows
<1>5. ASSUME NEW n \in Nodes, NEW q \in Stored(n)'
      PROVE  /\ NodeOf[q] = n /\ Sent(q)'
             /\ q \notin (ReqsOf(requests) \cup ReqsOf(working) \cup ReqsOf(results))'
  <2>1. CASE q = r
    BY <2>1 DEF Places
  <2>2. CASE q # r
    <3>1. q \in Stored(n) /\ q \in Reqs
      BY <2>2
    <3> QED
      BY <2>2, <3>1 DEF Places, SentGrows
  <2> QED
    BY <2>1, <2>2
<1> QED
  BY <1>3, <1>4, <1>5 DEF Places

NodeInv ==
    /\ LinkTypes /\ LinkMoreTypes /\ CallTypes /\ AppInv
    /\ Places /\ Accounted /\ IsFiniteSet(Begun)

LEMMA StoredReqs ==
  ASSUME NodeInv
  PROVE  \A n \in Nodes : Stored(n) \subseteq Reqs
<1>1. ASSUME NEW q \in Seq(Reqs) PROVE ToSet(q) \subseteq Reqs
  BY DEF ToSet
<1> QED
  BY <1>1 DEF NodeInv, AppInv, AppTypes, Stored

\* A step that leaves alone what is queued and what ran, and adds no frame.
LEMMA QuietStep ==
  ASSUME NodeInv, SentGrows, IsFiniteSet(Begun'),
         requests' \subseteq requests, working' \subseteq working, results' \subseteq results,
         UNCHANGED <<actions, replay, acking, runs, unacked>>
  PROVE  Places' /\ Accounted'
<1>1. \A n \in Nodes : Stored(n)' = Stored(n) /\ ToRun(n)' = ToRun(n)
  BY DEF Stored, ToRun
<1>2. Places'
  BY <1>1, StoredReqs, PlacesShrink DEF NodeInv, AppInv
<1>3. UnrunShrinks
  BY <1>1, UnrunShrink
<1> QED
  BY <1>2, <1>3, AccountedKept DEF NodeInv, AppInv

\* A call is sent for the first time.
LEMMA DispatchPlaces ==
  ASSUME NodeInv, SentGrows, IsFiniteSet(Begun'), NEW r \in Reqs, ~Sent(r), Dispatch(r),
         UNCHANGED <<working, results, actions, replay, acking, runs, unacked>>
  PROVE  Places' /\ Accounted'
<1>1. CASE UNCHANGED requests
  BY <1>1, QuietStep
<1>2. CASE ~UNCHANGED requests
  <2> DEFINE f == [req |-> r, conn |-> nodesById[NodeOf[r]]]
  <2>1. requests' = requests \cup {f} /\ pc' = [pc EXCEPT ![r] = "sent"]
    BY <1>2 DEF Dispatch
  <2>2. Sent(r)'
    BY <2>1 DEF Sent, NodeInv, CallTypes
  <2>3. /\ r \notin ReqsOf(requests) \cup ReqsOf(working) \cup ReqsOf(results)
        /\ \A n \in Nodes : r \notin Stored(n)
    BY DEF NodeInv, Places
  <2>4. f.req = r
    OBVIOUS
  <2> HIDE DEF f
  <2>5. Distinct(requests)' /\ ReqsOf(requests)' = ReqsOf(requests) \cup {r}
    <3>1. Distinct(requests \cup {f}) /\ ReqsOf(requests \cup {f}) = ReqsOf(requests) \cup {f.req}
      BY <2>3, <2>4, FrameCome DEF NodeInv, Places
    <3> QED
      BY <2>1, <2>4, <3>1 DEF Distinct, ReqsOf
  <2>6. /\ Distinct(working)' /\ Distinct(results)'
        /\ ReqsOf(working)' = ReqsOf(working) /\ ReqsOf(results)' = ReqsOf(results)
    BY DEF NodeInv, Places, Distinct, ReqsOf
  <2>7. \A n \in Nodes : Stored(n)' = Stored(n) /\ ToRun(n)' = ToRun(n)
    BY DEF Stored, ToRun
  <2>8. Places'
    BY <2>2, <2>3, <2>5, <2>6, <2>7, StoredReqs, PlacesMove DEF NodeInv, AppInv
  <2>9. UnrunShrinks
    <3> SUFFICES ASSUME NEW q \in Reqs, Sent(q), Unrun(q)' PROVE Unrun(q)
      BY DEF UnrunShrinks
    <3>1. q # r /\ NodeOf[q] \in Nodes
      BY Constants
    <3> QED
      BY <2>1, <2>4, <2>7, <3>1 DEF Unrun
  <2> QED
    BY <2>8, <2>9, AccountedKept DEF NodeInv, AppInv
<1> QED
  BY <1>1, <1>2

\* The node takes an invoke: it runs it at once or refuses it.
LEMMA TakesPlaces ==
  ASSUME NodeInv, SentGrows, IsFiniteSet(Begun'), NEW f \in requests, NodeTakes(f)
  PROVE  Places' /\ Accounted'
<1> DEFINE r == f.req
<1>1. r \in Reqs /\ NodeOf[r] \in Nodes
  BY Constants DEF NodeInv, AppInv, FrameTypes
<1>2. /\ r \in ReqsOf(requests) /\ r \notin ReqsOf(working) \cup ReqsOf(results) /\ Sent(r)
      /\ \A n \in Nodes : r \notin Stored(n)
  BY DEF NodeInv, Places, ReqsOf
<1>3. Unrun(r) /\ Sent(r)'
  BY <1>1, <1>2 DEF Unrun, SentGrows
<1>4. PICK w : /\ w = [req |-> r, outcome |-> "ok"] \/ w = [req |-> r, outcome |-> "background"]
               /\ requests' = requests \ {f} /\ working' = working \cup {w}
               /\ \/ /\ w.outcome = "ok"
                     /\ runs' = [runs EXCEPT ![KeyOf[r]] = @ + 1]
                  \/ w.outcome = "background" /\ UNCHANGED runs
               /\ UNCHANGED <<results, actions, replay, acking, unacked>>
  <2>1. CASE foreground[NodeOf[r]]
    <3> DEFINE w == [req |-> r, outcome |-> "ok"]
    <3>1. /\ requests' = requests \ {f} /\ working' = working \cup {w}
          /\ runs' = [runs EXCEPT ![KeyOf[r]] = @ + 1]
          /\ UNCHANGED <<results, actions, replay, acking, unacked>>
      BY <2>1 DEF NodeTakes, queue
    <3>2. w.outcome = "ok"
      OBVIOUS
    <3> QED
      BY <3>1, <3>2
  <2>2. CASE ~foreground[NodeOf[r]]
    <3> DEFINE w == [req |-> r, outcome |-> "background"]
    <3>1. /\ requests' = requests \ {f} /\ working' = working \cup {w}
          /\ UNCHANGED <<runs, results, actions, replay, acking, unacked>>
      BY <2>2 DEF NodeTakes, queue
    <3>2. w.outcome = "background"
      OBVIOUS
    <3> QED
      BY <3>1, <3>2
  <2> QED
    BY <2>1, <2>2
<1>5. w.req = r /\ w.outcome \in {"ok", "background"}
  BY <1>4
<1> HIDE DEF r
<1>6. \A n \in Nodes : Stored(n)' = Stored(n) /\ ToRun(n)' = ToRun(n)
  BY <1>4 DEF Stored, ToRun
<1>7. /\ Distinct(requests)' /\ ReqsOf(requests)' = ReqsOf(requests) \ {r}
  <2>1. Distinct(requests \ {f}) /\ ReqsOf(requests \ {f}) = ReqsOf(requests) \ {f.req}
    BY FrameGone DEF NodeInv, Places
  <2> QED
    BY <1>4, <2>1 DEF Distinct, ReqsOf, r
<1>8. /\ Distinct(working)' /\ ReqsOf(working)' = ReqsOf(working) \cup {r}
  <2>1. Distinct(working \cup {w}) /\ ReqsOf(working \cup {w}) = ReqsOf(working) \cup {w.req}
    BY <1>2, <1>5, FrameCome DEF NodeInv, Places
  <2> QED
    BY <1>4, <1>5, <2>1 DEF Distinct, ReqsOf
<1>9. Distinct(results)' /\ ReqsOf(results)' = ReqsOf(results)
  BY <1>4 DEF NodeInv, Places, Distinct, ReqsOf
<1>10. Places'
  BY <1>1, <1>2, <1>3, <1>6, <1>7, <1>8, <1>9, StoredReqs, PlacesMove DEF NodeInv, AppInv
<1>11. UnrunShrinks
  <2> SUFFICES ASSUME NEW q \in Reqs, Sent(q), Unrun(q)' PROVE Unrun(q)
    BY DEF UnrunShrinks
  <2>1. CASE q = r
    BY <1>3, <2>1
  <2>2. CASE q # r
    <3>1. NodeOf[q] \in Nodes
      BY Constants
    <3> QED
      BY <1>4, <1>5, <1>6, <2>2, <3>1 DEF Unrun
  <2> QED
    BY <2>1, <2>2
<1>12. CASE UNCHANGED runs
  BY <1>4, <1>10, <1>11, <1>12, AccountedKept DEF NodeInv, AppInv
<1>13. CASE w.outcome = "ok" /\ runs' = [runs EXCEPT ![KeyOf[r]] = @ + 1]
  <2>1. ~Unrun(r)'
    <3>1. r \notin ToRun(NodeOf[r])'
      BY <1>1, <1>2, <1>6 DEF ToRun
    <3>2. \A v \in working' : v.req = r => v = w
      BY <1>2, <1>4 DEF ReqsOf
    <3>3. ~\E v \in working' : v.req = r /\ v.outcome = "background"
      BY <1>13, <3>2
    <3>4. ~\E v \in requests' : v.req = r
      BY <1>7 DEF ReqsOf
    <3>5. ~\E v \in results' : v.req = r
      BY <1>2, <1>9 DEF ReqsOf
    <3> QED
      BY <3>1, <3>3, <3>4, <3>5 DEF Unrun
  <2> QED
    BY <1>1, <1>2, <1>3, <1>4, <1>10, <1>11, <1>13, <2>1, AccountedRun DEF NodeInv, AppInv
<1> QED
  BY <1>4, <1>12, <1>13

LEMMA AnswersPlaces ==
  ASSUME NodeInv, SentGrows, IsFiniteSet(Begun'), NEW w \in working, NodeAnswers(w)
  PROVE  Places' /\ Accounted'
<1>1. /\ working' = working \ {w}
      /\ UNCHANGED <<requests, actions, replay, acking, runs, unacked>>
  BY DEF NodeAnswers, queue
<1>2. CASE UNCHANGED results
  BY <1>1, <1>2, QuietStep
<1>3. CASE ~UNCHANGED results
  <2> DEFINE f == [req |-> w.req, outcome |-> w.outcome, conn |-> nodeConn[NodeOf[w.req]]]
             r == w.req
  <2>1. results' = results \cup {f}
    BY <1>3 DEF NodeAnswers
  <2>2. f.req = r /\ f.outcome = w.outcome
    OBVIOUS
  <2> HIDE DEF f
  <2>3. r \in Reqs /\ NodeOf[r] \in Nodes
    BY Constants DEF NodeInv, AppInv, FrameTypes
  <2>4. /\ r \in ReqsOf(working) /\ r \notin ReqsOf(requests) \cup ReqsOf(results) /\ Sent(r)
        /\ \A n \in Nodes : r \notin Stored(n)
    BY DEF NodeInv, Places, ReqsOf
  <2>5. Sent(r)'
    BY <2>3, <2>4 DEF SentGrows
  <2>6. \A n \in Nodes : Stored(n)' = Stored(n) /\ ToRun(n)' = ToRun(n)
    BY <1>1 DEF Stored, ToRun
  <2>7. Distinct(working)' /\ ReqsOf(working)' = ReqsOf(working) \ {r}
    <3>1. Distinct(working \ {w}) /\ ReqsOf(working \ {w}) = ReqsOf(working) \ {w.req}
      BY FrameGone DEF NodeInv, Places
    <3> QED
      BY <1>1, <3>1 DEF Distinct, ReqsOf
  <2> HIDE DEF r
  <2>8. Distinct(results)' /\ ReqsOf(results)' = ReqsOf(results) \cup {r}
    <3>1. Distinct(results \cup {f}) /\ ReqsOf(results \cup {f}) = ReqsOf(results) \cup {f.req}
      BY <2>2, <2>4, FrameCome DEF NodeInv, Places
    <3> QED
      BY <2>1, <2>2, <3>1 DEF Distinct, ReqsOf
  <2>9. Distinct(requests)' /\ ReqsOf(requests)' = ReqsOf(requests)
    BY <1>1 DEF NodeInv, Places, Distinct, ReqsOf
  <2>10. Places'
    BY <2>3, <2>4, <2>5, <2>6, <2>7, <2>8, <2>9, StoredReqs, PlacesMove DEF NodeInv, AppInv
  <2>11. UnrunShrinks
    <3> SUFFICES ASSUME NEW q \in Reqs, Sent(q), Unrun(q)' PROVE Unrun(q)
      BY DEF UnrunShrinks
    <3>1. NodeOf[q] \in Nodes
      BY Constants
    <3>2. ASSUME NEW g \in results', g.req = q, g.outcome = "background" PROVE Unrun(q)
      <4>1. CASE g = f
        BY <2>2, <3>2, <4>1 DEF Unrun, r
      <4>2. CASE g \in results
        BY <3>2, <4>2 DEF Unrun
      <4> QED
        BY <2>1, <4>1, <4>2
    <3>3. ASSUME NEW v \in working', v.req = q, v.outcome = "background" PROVE Unrun(q)
      BY <1>1, <3>3 DEF Unrun
    <3> QED
      BY <1>1, <2>6, <3>1, <3>2, <3>3 DEF Unrun
  <2> QED
    BY <1>1, <2>10, <2>11, AccountedKept DEF NodeInv, AppInv
<1> QED
  BY <1>2, <1>3

\* A result is dropped, settles its call, or queues the action once.
LEMMA ResultPlaces ==
  ASSUME NodeInv, SentGrows, IsFiniteSet(Begun'), NEW f \in results, HandleResult(f)
  PROVE  Places' /\ Accounted'
<1> DEFINE r == f.req
           n == NodeOf[r]
<1>1. /\ results' = results \ {f}
      /\ UNCHANGED <<requests, working, replay, acking, runs, unacked>>
  BY DEF HandleResult
<1>2. CASE UNCHANGED actions
  BY <1>1, <1>2, QuietStep
<1>3. CASE ~UNCHANGED actions
  <2>1. f.outcome = "background" /\ Enqueue(n, r)
    BY <1>3 DEF HandleResult, ShouldQueue
  <2>2. r \in Reqs /\ n \in Nodes
    BY Constants DEF NodeInv, AppInv, FrameTypes
  <2>3. /\ r \in ReqsOf(results) /\ r \notin ReqsOf(requests) \cup ReqsOf(working) /\ Sent(r)
        /\ \A m \in Nodes : r \notin Stored(m)
    BY DEF NodeInv, Places, ReqsOf
  <2>4. Sent(r)' /\ Unrun(r)
    BY <2>1, <2>2, <2>3 DEF SentGrows, Unrun
  <2>5. Distinct(results)' /\ ReqsOf(results)' = ReqsOf(results) \ {r}
    <3>1. Distinct(results \ {f}) /\ ReqsOf(results \ {f}) = ReqsOf(results) \ {f.req}
      BY FrameGone DEF NodeInv, Places
    <3> QED
      BY <1>1, <3>1 DEF Distinct, ReqsOf
  <2> HIDE DEF n, r
  <2>6. PICK q \in Seq(Reqs) : /\ actions' = [actions EXCEPT ![n] = q]
                               /\ ToSet(q) \subseteq ToSet(actions[n]) \cup {r}
    BY <2>1, <2>2, Enqueued DEF NodeInv, AppInv, AppTypes, QueuesFit
  <2>7. ASSUME NEW m \in Nodes
        PROVE  /\ \A x \in Stored(m)' : x \in Stored(m) \/ (x = r /\ m = n)
               /\ \A x \in ToRun(m)' : x \in ToRun(m) \/ x = r
    <3>1. ToSet(actions'[m]) \subseteq ToSet(actions[m]) \cup (IF m = n THEN {r} ELSE {})
      BY <2>2, <2>6 DEF NodeInv, AppInv, AppTypes
    <3> QED
      BY <1>1, <3>1 DEF Stored, ToRun
  <2>8. /\ Distinct(requests)' /\ ReqsOf(requests)' = ReqsOf(requests)
        /\ Distinct(working)' /\ ReqsOf(working)' = ReqsOf(working)
    BY <1>1 DEF NodeInv, Places, Distinct, ReqsOf
  <2>9. Places'
    BY <2>2, <2>3, <2>4, <2>5, <2>7, <2>8, StoredReqs, PlacesMove DEF NodeInv, AppInv, n
  <2>10. UnrunShrinks
    <3> SUFFICES ASSUME NEW x \in Reqs, Sent(x), Unrun(x)', x # r PROVE Unrun(x)
      BY <2>4 DEF UnrunShrinks
    <3>1. NodeOf[x] \in Nodes
      BY Constants
    <3> QED
      BY <1>1, <2>7, <3>1 DEF Unrun
  <2> QED
    BY <1>1, <2>9, <2>10, AccountedKept DEF NodeInv, AppInv
<1> QED
  BY <1>2, <1>3

\* What the app takes from the queue was in it, and is still to run.
LEMMA PullPlaces ==
  ASSUME NodeInv, SentGrows, IsFiniteSet(Begun'), NEW n \in Nodes, Pull(n)
  PROVE  Places' /\ Accounted'
<1>1. PICK q \in Without(actions[n], expired \cup banned) :
          /\ actions' = [actions EXCEPT ![n] = q]
          /\ replay' = [replay EXCEPT ![n] = q]
  BY DEF Pull
<1>2. /\ replay[n] = <<>>
      /\ UNCHANGED <<requests, working, results, acking, runs, unacked>>
  BY DEF Pull
<1>3. ~acking[n]
  BY <1>2 DEF NodeInv, AppInv, QueuesFit
<1>4. actions[n] \in Seq(Reqs) /\ IsInjective(actions[n])
  BY DEF NodeInv, AppInv, AppTypes, QueuesFit, KeyDistinct, IsInjective
<1>5. ToSet(q) \subseteq ToSet(actions[n])
  BY <1>1, <1>4, WithoutFacts
<1>6. ASSUME NEW m \in Nodes
      PROVE  Stored(m)' \subseteq Stored(m) /\ ToRun(m)' \subseteq ToRun(m)
  <2>1. CASE m = n
    <3>1. actions'[n] = q /\ replay'[n] = q
      BY <1>1 DEF NodeInv, AppInv, AppTypes
    <3>2. Stored(n)' \subseteq ToSet(actions[n])
      BY <1>5, <3>1 DEF Stored
    <3> QED
      BY <1>3, <2>1, <3>2 DEF Stored, ToRun
  <2>2. CASE m # n
    <3>1. actions'[m] = actions[m] /\ replay'[m] = replay[m]
      BY <1>1, <2>2
    <3> QED
      BY <1>2, <3>1 DEF Stored, ToRun
  <2> QED
    BY <2>1, <2>2
<1>7. Places'
  BY <1>2, <1>6, StoredReqs, PlacesShrink DEF NodeInv, AppInv
<1>8. UnrunShrinks
  BY <1>2, <1>6, UnrunShrink
<1> QED
  BY <1>2, <1>7, <1>8, AccountedKept DEF NodeInv, AppInv

LEMMA HeadStored ==
  ASSUME NodeInv, NEW n \in Nodes, replay[n] # <<>>
  PROVE  /\ Head(replay[n]) \in Reqs /\ Head(replay[n]) \in Stored(n)
         /\ NodeOf[Head(replay[n])] = n /\ Sent(Head(replay[n]))
<1>1. replay[n] \in Seq(Reqs)
  BY DEF NodeInv, AppInv, AppTypes
<1>2. Head(replay[n]) \in Reqs /\ Head(replay[n]) \in Stored(n)
  BY <1>1, TailOf DEF Stored
<1> QED
  BY <1>2 DEF NodeInv, Places

LEMMA ReplayPlaces ==
  ASSUME NodeInv, SentGrows, IsFiniteSet(Begun'), NEW n \in Nodes, ReplayNext(n)
  PROVE  Places' /\ Accounted'
<1>1. /\ replay[n] # <<>> /\ ~acking[n]
      /\ UNCHANGED <<requests, working, results, actions>>
  BY DEF ReplayNext, queue
<1>2. PICK r \in Reqs : /\ r = Head(replay[n])
                       /\ r \in Stored(n) /\ NodeOf[r] = n /\ Sent(r)
  BY <1>1, HeadStored
<1>3. CASE /\ runs' = [runs EXCEPT ![KeyOf[r]] = @ + 1]
           /\ acking' = [acking EXCEPT ![n] = TRUE]
           /\ UNCHANGED <<replay, unacked>>
  <2>1. acking'[n] /\ \A m \in Nodes \ {n} : acking'[m] = acking[m]
    BY <1>3 DEF NodeInv, AppInv, AppTypes
  <2>2. \A m \in Nodes : Stored(m)' = Stored(m)
    BY <1>1, <1>3 DEF Stored
  <2>3. \A m \in Nodes : ToRun(m)' \subseteq ToRun(m)
    BY <1>1, <1>3, <2>1, <2>2 DEF ToRun
  <2>4. Unrun(r) /\ ~Unrun(r)'
    <3>1. r \in ToRun(n) /\ r \notin ToRun(n)'
      BY <1>1, <1>2, <1>3, <2>1 DEF ToRun
    <3>2. r \notin ReqsOf(requests) \cup ReqsOf(working) \cup ReqsOf(results)
      BY <1>2 DEF NodeInv, Places
    <3> QED
      BY <1>1, <1>2, <3>1, <3>2 DEF Unrun, ReqsOf
  <2>5. Places'
    BY <1>1, <2>2, StoredReqs, PlacesShrink DEF NodeInv, AppInv
  <2>6. UnrunShrinks
    BY <1>1, <2>3, UnrunShrink
  <2> QED
    BY <1>1, <1>2, <1>3, <2>4, <2>5, <2>6, AccountedRun DEF NodeInv, AppInv
<1>4. CASE replay' = [replay EXCEPT ![n] = <<>>] /\ UNCHANGED acking
  <2>1. ASSUME NEW m \in Nodes
        PROVE  Stored(m)' \subseteq Stored(m) /\ ToRun(m)' \subseteq ToRun(m)
    <3>1. CASE m = n
      <4>1. replay'[n] = <<>> /\ ToSet(<<>>) = {}
        BY <1>4 DEF NodeInv, AppInv, AppTypes, ToSet
      <4> QED
        BY <1>1, <1>4, <3>1, <4>1 DEF Stored, ToRun
    <3>2. CASE m # n
      <4>1. replay'[m] = replay[m]
        BY <1>4, <3>2
      <4> QED
        BY <1>1, <1>4, <4>1 DEF Stored, ToRun
    <3> QED
      BY <3>1, <3>2
  <2>2. Places'
    BY <1>1, <2>1, StoredReqs, PlacesShrink DEF NodeInv, AppInv
  <2>3. UnrunShrinks
    BY <1>1, <2>1, UnrunShrink
  <2>4. CASE UNCHANGED <<runs, unacked>>
    BY <2>2, <2>3, <2>4, AccountedKept DEF NodeInv, AppInv
  <2>5. CASE /\ runs' = [runs EXCEPT ![KeyOf[r]] = @ + 1]
             /\ unacked' = [unacked EXCEPT ![KeyOf[r]] = @ + 1]
    BY <2>2, <2>3, <2>5, AccountedFailure DEF NodeInv, AppInv
  <2>6. \/ UNCHANGED <<runs, unacked>>
        \/ /\ runs' = [runs EXCEPT ![KeyOf[r]] = @ + 1]
           /\ unacked' = [unacked EXCEPT ![KeyOf[r]] = @ + 1]
        \/ acking' = [acking EXCEPT ![n] = TRUE]
    BY <1>2 DEF ReplayNext
  <2>7. acking' # [acking EXCEPT ![n] = TRUE]
    BY <1>1, <1>4 DEF NodeInv, AppInv, AppTypes
  <2> QED
    BY <2>4, <2>5, <2>6, <2>7
<1> QED
  BY <1>2, <1>3, <1>4 DEF ReplayNext

\* An acknowledged action is in no queue and in no replay any more.
LEMMA AckPlaces ==
  ASSUME NodeInv, SentGrows, IsFiniteSet(Begun'), NEW n \in Nodes, Ack(n)
  PROVE  Places' /\ Accounted'
<1> DEFINE r == Head(replay[n])
<1>1. /\ acking[n] /\ acking' = [acking EXCEPT ![n] = FALSE]
      /\ UNCHANGED <<requests, working, results, runs, unacked>>
  BY DEF Ack
<1>a. PICK rest \in {Tail(replay[n]), <<>>} : replay' = [replay EXCEPT ![n] = rest]
  BY DEF Ack
<1>2. PICK q \in Without(actions[n], expired \cup {r}) :
        actions' = [actions EXCEPT ![n] = q]
  BY DEF Ack
<1>3. /\ actions[n] \in Seq(Reqs) /\ IsInjective(actions[n])
      /\ replay[n] \in Seq(Reqs) /\ replay[n] # <<>> /\ KeyDistinct(replay[n])
  BY <1>1 DEF NodeInv, AppInv, AppTypes, QueuesFit, KeyDistinct, IsInjective
<1>4. ToSet(q) \subseteq ToSet(actions[n]) \ {r}
  BY <1>2, <1>3, WithoutFacts
<1>5. ToSet(rest) \subseteq ToSet(replay[n]) \ {r}
  <2>1. ToSet(<<>>) = {}
    BY DEF ToSet
  <2> QED
    BY <1>3, <2>1, TailOf
<1>6. ASSUME NEW m \in Nodes
      PROVE  Stored(m)' \subseteq Stored(m) /\ ToRun(m)' \subseteq ToRun(m)
  <2>1. CASE m = n
    <3>1. actions'[n] = q /\ replay'[n] = rest
      BY <1>a, <1>2 DEF NodeInv, AppInv, AppTypes
    <3>2. Stored(n)' \subseteq Stored(n) \ {r}
      BY <1>4, <1>5, <3>1 DEF Stored
    <3> QED
      BY <2>1, <3>2 DEF ToRun
  <2>2. CASE m # n
    <3>1. actions'[m] = actions[m] /\ replay'[m] = replay[m] /\ acking'[m] = acking[m]
      BY <1>a, <1>1, <1>2, <2>2
    <3> QED
      BY <3>1 DEF Stored, ToRun
  <2> QED
    BY <2>1, <2>2
<1>7. Places'
  BY <1>1, <1>6, StoredReqs, PlacesShrink DEF NodeInv, AppInv
<1>8. UnrunShrinks
  BY <1>1, <1>6, UnrunShrink
<1> QED
  BY <1>1, <1>7, <1>8, AccountedKept DEF NodeInv, AppInv

\* An action whose acknowledgement fails is still queued: it may run again.
LEMMA AckFailsPlaces ==
  ASSUME NodeInv, SentGrows, IsFiniteSet(Begun'), NEW n \in Nodes, AckFails(n)
  PROVE  Places' /\ Accounted'
<1> DEFINE r == Head(replay[n])
<1>1. /\ acking[n] /\ replay' = [replay EXCEPT ![n] = <<>>]
      /\ acking' = [acking EXCEPT ![n] = FALSE]
      /\ unacked' = [unacked EXCEPT ![KeyOf[r]] = @ + 1]
      /\ UNCHANGED <<requests, working, results, actions, runs>>
  BY DEF AckFails, queue
<1>2. r \in Reqs /\ NodeOf[r] = n
  <2>1. replay[n] # <<>>
    BY <1>1 DEF NodeInv, AppInv, QueuesFit
  <2> QED
    BY <2>1, HeadStored
<1>3. ASSUME NEW m \in Nodes
      PROVE  Stored(m)' \subseteq Stored(m) /\ ToRun(m)' \subseteq ToRun(m) \cup {r}
  <2>1. CASE m = n
    <3>1. replay'[n] = <<>> /\ ToSet(<<>>) = {}
      BY <1>1 DEF NodeInv, AppInv, AppTypes, ToSet
    <3> QED
      BY <1>1, <2>1, <3>1 DEF Stored, ToRun
  <2>2. CASE m # n
    <3>1. replay'[m] = replay[m] /\ acking'[m] = acking[m]
      BY <1>1, <2>2
    <3> QED
      BY <1>1, <3>1 DEF Stored, ToRun
  <2> QED
    BY <2>1, <2>2
<1>4. Places'
  BY <1>1, <1>3, StoredReqs, PlacesShrink DEF NodeInv, AppInv
<1> HIDE DEF r
<1>5. ASSUME NEW q \in Reqs \ {r}, Sent(q), Unrun(q)' PROVE Unrun(q)
  <2>1. NodeOf[q] \in Nodes
    BY Constants
  <2> QED
    BY <1>1, <1>3, <1>5, <2>1 DEF Unrun
<1> QED
  BY <1>1, <1>2, <1>4, <1>5, AccountedLost DEF NodeInv, AppInv

LEMMA PlacesStep ==
  ASSUME NodeInv, SentGrows, IsFiniteSet(Begun'), [Next]_vars
  PROVE  Places' /\ Accounted'
<1>1. ASSUME NEW r \in Reqs, Invoke(r) \/ Reconnected(r) PROVE Places' /\ Accounted'
  <2>1. UNCHANGED <<working, results, actions, replay, acking, runs, unacked>>
    BY <1>1 DEF Invoke, Reconnected, queue
  <2>2. CASE Dispatch(r)
    <3>1. ~Sent(r)
      BY <1>1 DEF Invoke, Reconnected, Sent, Waiting
    <3> QED
      BY <2>1, <2>2, <3>1, DispatchPlaces
  <2>3. CASE ~Dispatch(r)
    <3>1. UNCHANGED requests
      BY <1>1, <2>3 DEF Invoke, Reconnected
    <3> QED
      BY <2>1, <3>1, QuietStep
  <2> QED
    BY <2>2, <2>3
<1>2. ASSUME NEW c \in Conns, CloseSeen(c) PROVE Places' /\ Accounted'
  <2>1. /\ requests' \subseteq requests /\ results' \subseteq results
        /\ UNCHANGED <<working, actions, replay, acking, runs, unacked>>
    BY <1>2 DEF CloseSeen, queue
  <2> QED
    BY <2>1, QuietStep
<1>3. ASSUME NEW f \in requests, NodeTakes(f) PROVE Places' /\ Accounted'
  BY <1>3, TakesPlaces
<1>4. ASSUME NEW w \in working, NodeAnswers(w) PROVE Places' /\ Accounted'
  BY <1>4, AnswersPlaces
<1>5. ASSUME NEW f \in results, HandleResult(f) PROVE Places' /\ Accounted'
  BY <1>5, ResultPlaces
<1>6. ASSUME NEW n \in Nodes, Pull(n) \/ ReplayNext(n) \/ Ack(n) \/ AckFails(n)
      PROVE  Places' /\ Accounted'
  BY <1>6, PullPlaces, ReplayPlaces, AckPlaces, AckFailsPlaces
<1>7. ASSUME \/ \E n \in Nodes, c \in Conns : Open(n, c)
             \/ \E c \in Conns : Connected(c) \/ Refused(c) \/ Breaks(c)
             \/ \E r \in Reqs : WakeAgain(r) \/ GiveUp(r) \/ InvokeTimeout(r) \/ Ban(r)
             \/ \E n \in Nodes : \/ WakeImpossible(n) \/ WakeSent(n) \/ WakeDone(n)
                                 \/ ThrottleEnds(n) \/ Expire(n) \/ AppMoves(n)
             \/ UNCHANGED vars
      PROVE  Places' /\ Accounted'
  <2>1. UNCHANGED <<requests, working, results, actions, replay, acking, runs, unacked>>
    BY <1>7 DEF Open, Connected, Refused, Breaks, WakeAgain, GiveUp, InvokeTimeout, Ban,
       WakeImpossible, WakeSent, WakeDone, ThrottleEnds, Expire, AppMoves, vars, app, queue
  <2> QED
    BY <2>1, QuietStep
<1> QED
  BY <1>1, <1>2, <1>3, <1>4, <1>5, <1>6, <1>7 DEF Next

FullInv == IInv /\ NodeInv

LEMMA InitFullInv == Init => FullInv
<1> SUFFICES ASSUME Init PROVE FullInv
  OBVIOUS
<1>1. IInv
  BY InitIInv
<1>2. LinkMoreTypes /\ CallTypes
  BY DEF Init, LinkMoreTypes, CallTypes, States, Answers
<1>3. KeyDistinct(<<>>) /\ ToSet(<<>>) = {}
  BY DEF KeyDistinct, ToSet
<1>4. FrameTypes /\ AppTypes
  BY DEF Init, FrameTypes, AppTypes
<1>5. QueuesFit
  BY <1>3, Constants DEF Init, QueuesFit
<1>6. \A n \in Nodes : Stored(n) = {}
  BY <1>3 DEF Init, Stored
<1>7. Places
  BY <1>6 DEF Init, Places, Distinct, ReqsOf
<1>8. Begun = {}
  BY DEF Init, Begun
<1>9. IsFiniteSet(Begun)
  BY <1>8, FS_EmptySet
<1>10. Accounted
  <2>1. \A k \in Keys : runs[k] = 0 /\ unacked[k] = 0
    BY DEF Init
  <2>2. \A k \in Keys : Cardinality(Spent(k)) \in Nat
    BY <1>9, SpentFinite
  <2> QED
    BY <2>1, <2>2 DEF Accounted
<1> QED
  BY <1>1, <1>2, <1>4, <1>5, <1>7, <1>9, <1>10 DEF FullInv, NodeInv, AppInv, IInv

LEMMA NextFullInv == FullInv /\ [Next]_vars => FullInv'
<1> SUFFICES ASSUME FullInv, [Next]_vars PROVE FullInv'
  OBVIOUS
<1>1. IInv'
  BY NextIInv DEF FullInv
<1>2. LinkMoreTypes'
  BY LinkMoreTypesStep DEF FullInv, NodeInv
<1>3. PICK S : (S = {} \/ \E r \in Reqs : S = {r}) /\ CallsMove(S)
  BY CallsStep DEF FullInv, NodeInv, AppInv
<1>4. CallTypes' /\ SentGrows
  BY <1>3 DEF CallsMove, SentGrows
<1>5. IsFiniteSet(Begun')
  <2>1. IsFiniteSet(Begun) /\ Begun' \subseteq Begun \cup S
    BY <1>3 DEF CallsMove, Begun, FullInv, NodeInv
  <2>2. IsFiniteSet(Begun \cup S)
    <3>1. CASE S = {}
      <4>1. Begun \cup S = Begun
        BY <3>1
      <4> QED
        BY <2>1, <4>1
    <3>2. ASSUME NEW r \in Reqs, S = {r} PROVE IsFiniteSet(Begun \cup S)
      BY <2>1, <3>2, FS_AddElement
    <3> QED
      BY <1>3, <3>1, <3>2
  <2> QED
    BY <2>1, <2>2, FS_Subset
<1>6. FrameTypes' /\ AppTypes' /\ QueuesFit'
  BY FrameTypesStep, QueuesStep DEF FullInv, NodeInv
<1>7. Places' /\ Accounted'
  BY <1>4, <1>5, PlacesStep DEF FullInv
<1> QED
  BY <1>1, <1>2, <1>4, <1>5, <1>6, <1>7 DEF FullInv, NodeInv, AppInv, IInv

LEMMA FullInvariance == Spec => []FullInv
BY InitFullInv, NextFullInv, PTL DEF Spec

LEMMA RunsExplained == FullInv => RunsAccountedFor
<1> SUFFICES ASSUME FullInv, NEW k \in Keys
             PROVE  runs[k] <= unacked[k] +
                       Cardinality({r \in Reqs : KeyOf[r] = k /\ pc[r] # "idle"
                                       /\ answer[r] \notin {"not_connected", "rejected"}})
  BY DEF RunsAccountedFor
<1> DEFINE E == {r \in Reqs : KeyOf[r] = k /\ pc[r] # "idle"
                              /\ answer[r] \notin {"not_connected", "rejected"}}
<1>1. Spent(k) \in SUBSET E
  BY DEF Spent, Sent, FullInv, NodeInv, CallTypes
<1>2. E \in SUBSET Begun /\ IsFiniteSet(Begun)
  BY DEF Begun, FullInv, NodeInv
<1> HIDE DEF E
<1>3. IsFiniteSet(E) /\ Cardinality(E) \in Nat
  BY <1>2, FS_Subset, FS_CardinalityType
<1>4. Cardinality(Spent(k)) <= Cardinality(E)
  BY <1>1, <1>3, FS_Subset
<1>5. Cardinality(Spent(k)) \in Nat
  BY <1>2, SpentFinite
<1>6. runs[k] \in Nat /\ unacked[k] \in Nat /\ runs[k] <= unacked[k] + Cardinality(Spent(k))
  BY DEF FullInv, NodeInv, Accounted, AppInv, AppTypes
<1>7. runs[k] <= unacked[k] + Cardinality(E)
  BY <1>3, <1>4, <1>5, <1>6
<1> QED
  BY <1>7 DEF E

\* The state is well formed; no invoke waits on a dead link; and a command
\* never runs more often than there are calls that got past the lookup and the
\* policy, and runs of a replay that were left without an acknowledgement: results
\* that are late, retries under the same key, commands that fail after their
\* effects, pulls, replays and broken links included (nodes.ts:190, 222, 254, 1048;
\* NodeAppModel.swift:2294, 2311).
THEOREM RunsAreAccountedFor == Spec => []Inv
<1>1. FullInv => TypeOK
  BY DEF FullInv, NodeInv, AppInv, LinkTypes, LinkMoreTypes, CallTypes, States, QueuesFit,
     KeyDistinct, TypeOK
<1>2. FullInv => WaitsOnLiveLink
  BY DEF FullInv, IInv, SentToRegistered, WaitsOnLiveLink, Ghost
<1> QED
  BY <1>1, <1>2, RunsExplained, FullInvariance, PTL DEF Inv

\* An action that the caller was told is queued leaves the queue only when it
\* is acknowledged, has expired, is not allowed any more or is the oldest of a
\* full queue; no other handler drops it (nodes.ts:178, 190, 222, 254).
THEOREM QueuedIsKept == Spec => KeptUntilAcked
<1> DEFINE Kept ==
      \A n \in Nodes : \A r \in ToSet(actions[n]) \ ToSet(actions'[n]) :
          \/ r \in expired \cup banned
          \/ acking[n] /\ r = Head(replay[n]) /\ LinkUp(n)
          \/ /\ Len(actions[n]) = MaxActions /\ Len(actions'[n]) = MaxActions
             /\ r = Head(actions[n])
<1>1. ASSUME FullInv, [Next]_vars PROVE Kept
  <2>1. /\ actions \in [Nodes -> Seq(Reqs)]
        /\ \A n \in Nodes : /\ Len(actions[n]) <= MaxActions
                            /\ KeyDistinct(actions[n]) /\ IsInjective(actions[n])
    BY <1>1 DEF FullInv, NodeInv, AppInv, AppTypes, QueuesFit, KeyDistinct, IsInjective
  <2>2. ASSUME NEW f \in results, HandleResult(f), ~UNCHANGED actions PROVE Kept
    <3> DEFINE q == f.req
               m == NodeOf[q]
    <3>1. q \in Reqs /\ m \in Nodes
      BY <1>1, Constants DEF FullInv, NodeInv, AppInv, FrameTypes
    <3>2. Enqueue(m, q)
      BY <2>2 DEF HandleResult
    <3> HIDE DEF m, q
    <3>3. PICK s \in Seq(Reqs) :
            /\ actions' = [actions EXCEPT ![m] = s]
            /\ \A x \in ToSet(actions[m]) \ ToSet(s) :
                  \/ x \in expired
                  \/ /\ Len(actions[m]) = MaxActions /\ Len(s) = MaxActions
                     /\ x = Head(actions[m])
      BY <2>1, <3>1, <3>2, Enqueued
    <3>4. actions'[m] = s /\ \A n \in Nodes \ {m} : actions'[n] = actions[n]
      BY <2>1, <3>1, <3>3
    <3> QED
      BY <3>3, <3>4
  <2>3. ASSUME NEW m \in Nodes, Pull(m) PROVE Kept
    <3>1. PICK q \in Without(actions[m], expired \cup banned) :
            actions' = [actions EXCEPT ![m] = q]
      BY <2>3 DEF Pull
    <3>2. ToSet(q) = ToSet(actions[m]) \ (expired \cup banned)
      BY <2>1, <3>1, WithoutFacts
    <3> QED
      BY <2>1, <3>1, <3>2
  <2>4. ASSUME NEW m \in Nodes, Ack(m) PROVE Kept
    <3>1. PICK q \in Without(actions[m], expired \cup {Head(replay[m])}) :
            actions' = [actions EXCEPT ![m] = q]
      BY <2>4 DEF Ack
    <3>2. acking[m] /\ LinkUp(m)
      BY <2>4 DEF Ack
    <3>3. ToSet(q) = ToSet(actions[m]) \ (expired \cup {Head(replay[m])})
      BY <2>1, <3>1, WithoutFacts
    <3> QED
      BY <2>1, <3>1, <3>2, <3>3
  <2>5. CASE UNCHANGED actions
    BY <2>5
  <2>6. \/ \E f \in results : HandleResult(f)
        \/ \E m \in Nodes : Pull(m) \/ Ack(m)
        \/ UNCHANGED actions
    BY <1>1 DEF Next, Open, Connected, Refused, Breaks, CloseSeen, Invoke, Reconnected,
       WakeAgain, GiveUp, InvokeTimeout, Ban, WakeImpossible, WakeSent, WakeDone, ThrottleEnds,
       Expire, AppMoves, ReplayNext, AckFails, NodeTakes, NodeAnswers, vars, queue
  <2> HIDE DEF Kept
  <2> QED
    BY <2>2, <2>3, <2>4, <2>5, <2>6
<1>2. FullInv /\ [Next]_vars => [Kept]_vars
  BY <1>1
<1> QED
  BY <1>2, FullInvariance, PTL DEF Spec, KeptUntilAcked
=============================================================================
