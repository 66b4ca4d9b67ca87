---------------------------- MODULE HeartbeatsProofs ----------------------------
(***************************************************************************)
(* Proofs about Heartbeats, for any finite set of agents and any number of  *)
(* runners, requests and changes.                                           *)
(***************************************************************************)
EXTENDS Heartbeats, FiniteSetTheorems, SequenceTheorems, TLAPS

Batches == [wakes : Seq(Wakes), next : Nat, by : Nat, current : BOOLEAN, agents : Seq(Agents)]

\* No two wakes have the same target.
Once(s) == \A i, j \in 1 .. Len(s) : s[i].target = s[j].target => i = j

Types ==
  /\ pending \in Seq(Wakes) /\ Once(pending)
  /\ timer \in BOOLEAN /\ scheduled \in BOOLEAN /\ running \in BOOLEAN
  /\ runners \in 0 .. MaxRunners /\ handler \in 0 .. runners
  /\ batch \in [Slots -> Batches]
  /\ enabled \in BOOLEAN /\ configured \in BOOLEAN /\ armed \in BOOLEAN
  /\ due \subseteq Agents
  /\ requests \in 0 .. MaxRequests /\ changes \in 0 .. MaxChanges
  /\ owed \subseteq Agents /\ mishaps \subseteq Mishaps

\* A batch is at one of its wakes; the agents it runs are those of this wake.
BatchFits(b) ==
  /\ batch[b].next <= Len(batch[b].wakes) /\ batch[b].by <= runners
  /\ InRun(b) => Executing(b)
  /\ (InRun(b) /\ Requested(Wake(b))) => ToSet(batch[b].agents) \subseteq Targets(Wake(b))

\* Unless a runner has started during a batch, there is one, and it is running.
Alone ==
  "restartInBatch" \in mishaps \/
    \A b \in Slots : Executing(b) => /\ running = TRUE
                                     /\ \A c \in Slots : Executing(c) => b = c

BaseInv == Types /\ (\A b \in Slots : BatchFits(b)) /\ NeverStalled /\ Alone

-----------------------------------------------------------------------------
(* Wakes and lists                                                          *)

LEMMA Constants ==
  /\ MaxRunners \in Nat \ {0} /\ MaxRequests \in Nat /\ MaxChanges \in Nat
  /\ All \notin Agents /\ IsFiniteSet(Agents) /\ Reasons \subseteq Interval .. Action
  /\ Mishaps = {"restartInBatch", "intervalDropped"}
BY HeartbeatsAssumption DEF Interval, Action, Mishaps

LEMMA Elements ==
  ASSUME NEW S, NEW s \in Seq(S)
  PROVE  /\ Len(s) \in Nat
         /\ \A x : x \in ToSet(s) <=> \E i \in 1 .. Len(s) : s[i] = x
         /\ ToSet(s) \subseteq S
BY DEF ToSet

LEMMA WakeFields ==
  /\ \A w \in Wakes : w.target \in Agents \cup {All} /\ w.priority \in Nat
  /\ \A t \in Agents \cup {All}, p \in Interval .. Action :
       /\ [target |-> t, priority |-> p] \in Wakes
       /\ [target |-> t, priority |-> p].target = t
       /\ [target |-> t, priority |-> p].priority = p
BY DEF Wakes, Interval, Action

\* An order of S lists its elements.
LEMMA OrdersList ==
  ASSUME NEW S, IsFiniteSet(S), NEW s \in Orders(S), S # {}
  PROVE  s \in Seq(S) /\ ToSet(s) = S /\ s # <<>>
<1> DEFINE n == Cardinality(S)
<1>1. n \in Nat
  BY FS_CardinalityType
<1>2. s \in [1 .. n -> S] /\ s \in Injection(1 .. n, S)
  BY DEF Orders, Injection
<1>3. s \in Seq(S) /\ Len(s) = n
  BY <1>1, <1>2
<1>4. s \in Surjection(1 .. n, S)
  <2>1. Cardinality(1 .. n) = n
    BY <1>1, FS_Interval
  <2> HIDE DEF n
  <2> QED
    BY <1>2, <2>1, FS_Injection DEF n
<1>5. ToSet(s) = S
  BY <1>2, <1>3, <1>4 DEF ToSet, Surjection
<1>6. s # <<>>
  <2> SUFFICES ASSUME s = <<>> PROVE FALSE
    OBVIOUS
  <2>1. ToSet(<<>>) = {}
    BY DEF ToSet
  <2> QED
    BY <1>5, <2>1
<1> QED
  BY <1>3, <1>5, <1>6

\* A wake that is queued stays, with what urgency it has or more, and so do
\* those that were queued before.
LEMMA QueueKeeps ==
  ASSUME NEW s \in Seq(Wakes), Once(s), NEW w \in Wakes
  PROVE  /\ Queue(s, w) \in Seq(Wakes) /\ Once(Queue(s, w)) /\ Queue(s, w) # <<>>
         /\ \A x \in ToSet(s) \cup {w} : \E y \in ToSet(Queue(s, w)) :
              y.target = x.target /\ y.priority >= x.priority
<1> DEFINE q == Queue(s, w)
<1>1. /\ \A i \in 1 .. Len(s) : s[i] \in Wakes /\ s[i].priority \in Nat
      /\ w.priority \in Nat /\ Len(s) \in Nat
  BY WakeFields
<1>2. DOMAIN s = 1 .. Len(s)
  OBVIOUS
<1>3. CASE \A i \in 1 .. Len(s) : s[i].target # w.target
  <2>1. q = Append(s, w)
    BY <1>2, <1>3 DEF Queue
  <2>2. /\ q \in Seq(Wakes) /\ Len(q) = Len(s) + 1 /\ q # <<>>
        /\ q[Len(s) + 1] = w /\ \A i \in 1 .. Len(s) : q[i] = s[i]
    BY <2>1
  <2> HIDE DEF q
  <2>3. Once(q)
    <3> SUFFICES ASSUME NEW i \in 1 .. Len(q), NEW j \in 1 .. Len(q), q[i].target = q[j].target
                 PROVE  i = j
      BY DEF Once
    <3>1. /\ i \in 1 .. Len(s) \/ i = Len(s) + 1
          /\ j \in 1 .. Len(s) \/ j = Len(s) + 1
      BY <1>1, <2>2
    <3> QED
      BY <1>3, <2>2, <3>1 DEF Once
  <2>4. ASSUME NEW x \in ToSet(s) \cup {w}
        PROVE  \E y \in ToSet(q) : y.target = x.target /\ y.priority >= x.priority
    <3>1. PICK i \in 1 .. Len(q) : q[i] = x
      <4>1. CASE x = w
        <5>1. Len(s) + 1 \in 1 .. Len(q)
          BY <1>1, <2>2
        <5> QED
          BY <2>2, <4>1, <5>1
      <4>2. CASE x \in ToSet(s)
        <5>1. PICK i \in 1 .. Len(s) : s[i] = x
          BY <4>2, Elements
        <5>2. i \in 1 .. Len(q)
          BY <1>1, <2>2
        <5> QED
          BY <2>2, <5>1, <5>2
      <4> QED
        BY <4>1, <4>2
    <3>2. x \in ToSet(q)
      BY <2>2, <3>1, Elements
    <3>3. x.priority \in Nat
      BY <1>1, <2>2, <3>1, WakeFields
    <3> QED
      BY <3>2, <3>3
  <2> QED
    BY <2>2, <2>3, <2>4 DEF q
<1>4. CASE ~(\A i \in 1 .. Len(s) : s[i].target # w.target)
  <2> DEFINE new(i) == IF s[i].target = w.target /\ w.priority >= s[i].priority THEN w ELSE s[i]
  <2>1. q = [i \in 1 .. Len(s) |-> new(i)]
    BY <1>2, <1>4 DEF Queue
  <2>2. \A i \in 1 .. Len(s) : /\ new(i) \in Wakes /\ new(i).target = s[i].target
                               /\ new(i).priority >= s[i].priority
                               /\ s[i].target = w.target => new(i).priority >= w.priority
    BY <1>1
  <2> HIDE DEF new
  <2>3. /\ q \in Seq(Wakes) /\ Len(q) = Len(s) /\ \A i \in 1 .. Len(s) : q[i] = new(i)
    BY <1>1, <2>1, <2>2
  <2> HIDE DEF q
  <2>4. Once(q)
    BY <2>2, <2>3 DEF Once
  <2>5. PICK k \in 1 .. Len(s) : s[k].target = w.target
    BY <1>4
  <2>6. ASSUME NEW x \in ToSet(s) \cup {w}
        PROVE  \E y \in ToSet(q) : y.target = x.target /\ y.priority >= x.priority
    <3>1. PICK i \in 1 .. Len(s) : s[i] = x \/ (x = w /\ i = k)
      BY <2>5, Elements
    <3>2. q[i].target = x.target /\ q[i].priority >= x.priority
      BY <2>2, <2>3, <2>5, <3>1
    <3>3. q[i] \in ToSet(q)
      BY <2>3, Elements
    <3> QED
      BY <3>2, <3>3
  <2>7. q # <<>>
    BY <2>3, <2>5
  <2> QED
    BY <2>3, <2>4, <2>6, <2>7 DEF q
<1> QED
  BY <1>3, <1>4

-----------------------------------------------------------------------------
(* What happens to a batch                                                  *)

LEMMA BatchRecords ==
  ASSUME NEW r \in Batches
  PROVE  /\ \A n \in Nat : LET q == [r EXCEPT !.next = n, !.agents = <<>>] IN
              q \in Batches /\ q.wakes = r.wakes /\ q.by = r.by /\ q.next = n /\ q.agents = <<>>
         /\ \A s \in Seq(Agents) : LET q == [r EXCEPT !.agents = s, !.current = TRUE] IN
              /\ q \in Batches /\ q.wakes = r.wakes /\ q.by = r.by
              /\ q.next = r.next /\ q.agents = s
         /\ \A s \in Seq(Agents) : LET q == [r EXCEPT !.agents = s] IN
              /\ q \in Batches /\ q.wakes = r.wakes /\ q.by = r.by
              /\ q.next = r.next /\ q.agents = s
         /\ LET q == [r EXCEPT !.current = FALSE] IN
              /\ q \in Batches /\ q.wakes = r.wakes /\ q.by = r.by
              /\ q.next = r.next /\ q.agents = r.agents
<1>1. <<>> \in Seq(Agents)
  OBVIOUS
<1> QED
  BY <1>1 DEF Batches

LEMMA NoBatchRecord ==
  /\ NoBatch \in Batches /\ NoBatch.next = 0 /\ NoBatch.wakes = <<>> /\ NoBatch.by = 0
  /\ NoBatch.agents = <<>>
  /\ \A s \in Seq(Wakes), n \in Nat :
       LET q == [NoBatch EXCEPT !.wakes = s, !.next = 1, !.by = n] IN
       q \in Batches /\ q.wakes = s /\ q.next = 1 /\ q.by = n /\ q.agents = <<>>
<1>1. NoBatch = [wakes |-> <<>>, next |-> 0, by |-> 0, current |-> FALSE, agents |-> <<>>]
  BY DEF NoBatch
<1>2. NoBatch \in Batches
  <2>1. <<>> \in Seq(Wakes) /\ <<>> \in Seq(Agents) /\ 0 \in Nat /\ FALSE \in BOOLEAN
    OBVIOUS
  <2> QED
    BY <1>1, <2>1, Zenon DEF Batches
<1>3. ASSUME NEW s \in Seq(Wakes), NEW n \in Nat
      PROVE  LET q == [NoBatch EXCEPT !.wakes = s, !.next = 1, !.by = n] IN
             q \in Batches /\ q.wakes = s /\ q.next = 1 /\ q.by = n /\ q.agents = <<>>
  BY <1>1, <1>2 DEF Batches
<1> QED
  BY <1>1, <1>2, <1>3

\* The batch of slot b changes and no other.
Alters(b) ==
  /\ batch' \in [Slots -> Batches]
  /\ \A c \in Slots : c # b => batch'[c] = batch[c]

\* Its next wake is at hand, and wakes are pending.
Advances(b, wakes, t) ==
  /\ Alters(b)
  /\ batch[b].next < Len(batch[b].wakes)
  /\ batch'[b].next = batch[b].next + 1 /\ batch'[b].agents = <<>>
  /\ batch'[b].wakes = batch[b].wakes /\ batch'[b].by = batch[b].by
  /\ pending' = wakes /\ timer' = t /\ UNCHANGED <<scheduled, running>>

\* It is over.
Ends(b, wakes, t) ==
  /\ Alters(b)
  /\ ~(batch[b].next < Len(batch[b].wakes))
  /\ batch'[b] = NoBatch
  /\ pending' = wakes /\ UNCHANGED scheduled
  /\ running' = FALSE /\ timer' = (t \/ wakes # <<>> \/ scheduled)

\* It has agents to run for its wake.
RunsAgents(b, s) ==
  /\ Alters(b)
  /\ batch'[b].agents = s /\ batch'[b].wakes = batch[b].wakes
  /\ batch'[b].next = batch[b].next /\ batch'[b].by = batch[b].by
  /\ UNCHANGED <<pending, timer, scheduled, running>>

LEMMA GoOnEffect ==
  ASSUME Types, NEW b \in Slots, NEW wakes, NEW t, GoOn(b, wakes, t)
  PROVE  Advances(b, wakes, t) \/ Ends(b, wakes, t)
<1>1. batch \in [Slots -> Batches] /\ batch[b] \in Batches /\ batch[b].next + 1 \in Nat
  BY DEF Types, Batches
<1>2. CASE batch[b].next < Len(batch[b].wakes)
  <2> DEFINE new == [batch[b] EXCEPT !.next = batch[b].next + 1, !.agents = <<>>]
  <2>1. batch' = [batch EXCEPT ![b] = new]
    BY <1>1, <1>2 DEF GoOn
  <2>2. /\ new \in Batches /\ new.wakes = batch[b].wakes /\ new.by = batch[b].by
        /\ new.next = batch[b].next + 1 /\ new.agents = <<>>
    BY <1>1, BatchRecords
  <2> HIDE DEF new
  <2> QED
    BY <1>1, <1>2, <2>1, <2>2 DEF GoOn, Advances, Alters
<1>3. CASE ~(batch[b].next < Len(batch[b].wakes))
  BY <1>1, <1>3, NoBatchRecord DEF GoOn, Ends, Alters
<1> QED
  BY <1>2, <1>3

LEMMA RunsAgentsEffect ==
  ASSUME Types, NEW b \in Slots, NEW s \in Seq(Agents),
         \/ batch' = [batch EXCEPT ![b].agents = s, ![b].current = TRUE]
         \/ batch' = [batch EXCEPT ![b].agents = s],
         UNCHANGED <<pending, timer, scheduled, running>>
  PROVE  RunsAgents(b, s)
<1>1. batch \in [Slots -> Batches] /\ batch[b] \in Batches
  BY DEF Types
<1>2. CASE batch' = [batch EXCEPT ![b].agents = s, ![b].current = TRUE]
  <2> DEFINE new == [batch[b] EXCEPT !.agents = s, !.current = TRUE]
  <2>1. batch' = [batch EXCEPT ![b] = new]
    BY <1>1, <1>2
  <2>2. /\ new \in Batches /\ new.wakes = batch[b].wakes /\ new.by = batch[b].by
        /\ new.next = batch[b].next /\ new.agents = s
    BY <1>1, BatchRecords
  <2> HIDE DEF new
  <2> QED
    BY <1>1, <2>1, <2>2 DEF RunsAgents, Alters
<1>3. CASE batch' = [batch EXCEPT ![b].agents = s]
  <2> DEFINE new == [batch[b] EXCEPT !.agents = s]
  <2>1. batch' = [batch EXCEPT ![b] = new]
    BY <1>1, <1>3
  <2>2. /\ new \in Batches /\ new.wakes = batch[b].wakes /\ new.by = batch[b].by
        /\ new.next = batch[b].next /\ new.agents = s
    BY <1>1, BatchRecords
  <2> HIDE DEF new
  <2> QED
    BY <1>1, <2>1, <2>2 DEF RunsAgents, Alters
<1> QED
  BY <1>2, <1>3

\* Steps of a batch that is being executed: the others stay as they are.
LEMMA BatchStep ==
  ASSUME BaseInv, NEW b \in Slots, Executing(b),
         UNCHANGED <<runners, handler>>, mishaps \subseteq mishaps',
         \/ Advances(b, pending, timer) \/ Ends(b, pending, timer)
         \/ Advances(b, Queue(pending, Wake(b)), TRUE) \/ Ends(b, Queue(pending, Wake(b)), TRUE)
         \/ \E s \in Seq(Agents) :
              /\ RunsAgents(b, s)
              /\ Requested(Wake(b)) => ToSet(s) \subseteq Targets(Wake(b))
  PROVE  /\ pending' \in Seq(Wakes) /\ Once(pending)'
         /\ timer' \in BOOLEAN /\ scheduled' \in BOOLEAN /\ running' \in BOOLEAN
         /\ batch' \in [Slots -> Batches]
         /\ (\A c \in Slots : BatchFits(c))' /\ NeverStalled' /\ Alone'
<1>1. /\ pending \in Seq(Wakes) /\ Once(pending) /\ batch[b] \in Batches
      /\ timer \in BOOLEAN /\ scheduled \in BOOLEAN /\ running \in BOOLEAN
      /\ batch[b].next > 0 /\ batch[b].next \in 1 .. Len(batch[b].wakes)
      /\ Wake(b) \in Wakes
  BY DEF BaseInv, Types, BatchFits, Executing, Batches, Wake
<1>2. /\ Queue(pending, Wake(b)) \in Seq(Wakes) /\ Once(Queue(pending, Wake(b)))
      /\ Queue(pending, Wake(b)) # <<>>
  BY <1>1, QueueKeeps
<1>3. /\ Alters(b) /\ pending' \in Seq(Wakes) /\ Once(pending)'
      /\ scheduled' = scheduled
  BY <1>1, <1>2 DEF Advances, Ends, RunsAgents, Once
<1>4. timer' \in BOOLEAN /\ running' \in BOOLEAN
  BY <1>1, Zenon DEF Advances, Ends, RunsAgents
<1>5. NeverStalled'
  <2>1. CASE timer' = TRUE
    BY <2>1 DEF NeverStalled
  <2>2. CASE pending' = pending /\ timer' = timer
    BY <2>2 DEF BaseInv, NeverStalled
  <2>3. CASE \E s, t : Ends(b, s, t) /\ pending' = s
    BY <2>3 DEF Ends, NeverStalled
  <2> QED
    BY <2>1, <2>2, <2>3 DEF Advances, Ends, RunsAgents
<1>6. ASSUME NEW c \in Slots
      PROVE  BatchFits(c)'
  <2>1. CASE c # b
    BY <1>3, <2>1 DEF BaseInv, BatchFits, Alters, InRun, Executing, Wake
  <2>2. CASE c = b
    <3>1. CASE \E s \in Seq(Agents) :
                 /\ RunsAgents(b, s)
                 /\ Requested(Wake(b)) => ToSet(s) \subseteq Targets(Wake(b))
      BY <1>1, <2>2, <3>1 DEF BaseInv, BatchFits, RunsAgents, InRun, Executing, Wake
    <3>2. CASE batch'[b] = NoBatch
      <4>1. batch'[b].next = 0 /\ batch'[b].wakes = <<>> /\ batch'[b].by = 0 /\ ~InRun(b)'
        BY <3>2, NoBatchRecord DEF InRun
      <4>2. runners' \in Nat /\ Len(<<>>) = 0
        BY Constants DEF BaseInv, Types
      <4> QED
        BY <2>2, <4>1, <4>2 DEF BatchFits
    <3>3. CASE /\ batch'[b].next = batch[b].next + 1 /\ batch'[b].agents = <<>>
               /\ batch'[b].wakes = batch[b].wakes /\ batch'[b].by = batch[b].by
               /\ batch[b].next < Len(batch[b].wakes)
      BY <1>1, <2>2, <3>3 DEF BaseInv, BatchFits, InRun, Executing
    <3> QED
      BY <3>1, <3>2, <3>3 DEF Advances, Ends
  <2> QED
    BY <2>1, <2>2
<1>7. Alone'
  <2>1. \A c \in Slots : Executing(c)' => Executing(c)
    BY <1>3 DEF Alters, Executing
  <2>2. running' = running \/ ~Executing(b)'
    <3>1. ASSUME batch'[b] = NoBatch PROVE ~Executing(b)'
      <4>1. batch'[b].next = 0
        BY <3>1, NoBatchRecord
      <4> QED
        BY <4>1 DEF Executing
    <3> QED
      BY <3>1, Zenon DEF Advances, Ends, RunsAgents
  <2> QED
    BY <2>1, <2>2 DEF BaseInv, Alone
<1> QED
  BY <1>3, <1>4, <1>5, <1>6, <1>7, <1>1 DEF Alters

-----------------------------------------------------------------------------
(* What the handler does with a wake                                        *)

GoesOn(b, wakes, t) == Advances(b, wakes, t) \/ Ends(b, wakes, t)

\* The rest of the state, when a batch goes on.
HandlerFrame(b) ==
  /\ UNCHANGED <<handler, runners, configured, enabled, requests, changes>>
  /\ due' \subseteq Agents /\ armed' \in BOOLEAN /\ owed' \subseteq Agents
  /\ mishaps \subseteq mishaps' /\ mishaps' \subseteq Mishaps

LEMMA ScheduleNextType ==
  ASSUME Types, NEW b \in Slots, ScheduleNext(b)
  PROVE  armed' \in BOOLEAN
BY Zenon DEF ScheduleNext, Types

\* run is called: it drops the wake, or has nothing to run, or starts with the
\* first agent.
LEMMA CallEffect ==
  ASSUME BaseInv, NEW b \in Slots, Call(b)
  PROVE  /\ Executing(b) /\ ~InRun(b) /\ HandlerFrame(b)
         /\ owed' \subseteq owed
         /\ Requested(Wake(b)) => owed' \cap Targets(Wake(b)) = {}
         /\ \/ GoesOn(b, pending, timer)
            \/ \E s \in Seq(Agents) :
                 /\ RunsAgents(b, s) /\ s # <<>>
                 /\ Requested(Wake(b)) => ToSet(s) \subseteq Targets(Wake(b))
<1> DEFINE w == Wake(b)
           first == IF w.priority = Interval THEN due ELSE Targets(w)
<1>1. /\ Executing(b) /\ ~InRun(b)
      /\ UNCHANGED <<handler, runners, configured, due, enabled, requests, changes>>
  BY DEF Call
<1>2. /\ Types /\ due \subseteq Agents /\ owed \subseteq Agents /\ mishaps \subseteq Mishaps
      /\ armed \in BOOLEAN
  BY DEF BaseInv, Types
<1>3. w \in Wakes /\ Targets(w) \subseteq Agents /\ first \subseteq Agents
  <2>1. w \in Wakes
    BY <1>1 DEF BaseInv, Types, BatchFits, Executing, Batches, Wake
  <2>2. Targets(w) \subseteq Agents
    BY <2>1, WakeFields DEF Targets
  <2> QED
    BY <1>2, <2>1, <2>2
<1>4. Requested(w) => first = Targets(w)
  BY <1>3, WakeFields DEF Requested, Interval
<1>5. CASE /\ GoOn(b, pending, timer)
           /\ owed' = IF Requested(w) THEN owed \ Targets(w) ELSE owed
           /\ mishaps' = mishaps \cup {x \in {"intervalDropped"} : InCharge(b) /\ ~enabled}
           /\ UNCHANGED armed
  <2>1. GoesOn(b, pending, timer)
    BY <1>2, <1>5, GoOnEffect DEF GoesOn
  <2>2. owed' \subseteq owed /\ (Requested(w) => owed' \cap Targets(w) = {})
    BY <1>5
  <2>3. mishaps \subseteq mishaps' /\ mishaps' \subseteq Mishaps
    BY <1>2, <1>5 DEF Mishaps
  <2> QED
    BY <1>1, <1>2, <1>5, <2>1, <2>2, <2>3 DEF HandlerFrame
<1>6. CASE /\ \/ /\ first # {}
                 /\ \E order \in Orders(first) :
                      batch' = [batch EXCEPT ![b].agents = order, ![b].current = TRUE]
                 /\ UNCHANGED <<pending, timer, scheduled, running, armed>>
              \/ /\ first = {}
                 /\ ScheduleNext(b)
                 /\ GoOn(b, pending, timer)
           /\ owed' = IF Requested(w) THEN owed \ first ELSE owed
           /\ UNCHANGED mishaps
  <2>1. owed' \subseteq owed /\ (Requested(w) => owed' \cap Targets(w) = {})
    BY <1>4, <1>6
  <2>2. CASE first = {} /\ ScheduleNext(b) /\ GoOn(b, pending, timer)
    <3>1. GoesOn(b, pending, timer) /\ armed' \in BOOLEAN
      BY <1>2, <2>2, GoOnEffect, ScheduleNextType DEF GoesOn
    <3> QED
      BY <1>1, <1>2, <1>6, <2>1, <3>1 DEF HandlerFrame
  <2>3. CASE /\ first # {}
             /\ \E order \in Orders(first) :
                  batch' = [batch EXCEPT ![b].agents = order, ![b].current = TRUE]
             /\ UNCHANGED <<pending, timer, scheduled, running, armed>>
    <3>1. PICK s \in Orders(first) :
            batch' = [batch EXCEPT ![b].agents = s, ![b].current = TRUE]
      BY <2>3
    <3>2. s \in Seq(Agents) /\ ToSet(s) = first /\ s # <<>>
      <4>1. IsFiniteSet(first)
        BY <1>3, Constants, FS_Subset
      <4> HIDE DEF first
      <4>2. s \in Seq(first) /\ ToSet(s) = first /\ s # <<>>
        BY <2>3, <4>1, OrdersList
      <4> QED
        BY <1>3, <4>2
    <3>3. RunsAgents(b, s)
      BY <1>2, <2>3, <3>1, <3>2, RunsAgentsEffect
    <3>4. HandlerFrame(b)
      BY <1>1, <1>2, <1>6, <2>1, <2>3 DEF HandlerFrame
    <3>5. Requested(w) => ToSet(s) \subseteq Targets(w)
      BY <1>4, <3>2
    <3> HIDE DEF w, first
    <3> QED
      BY <1>1, <2>1, <3>2, <3>3, <3>4, <3>5 DEF w
  <2> QED
    BY <1>6, <2>2, <2>3
<1> QED
  BY <1>5, <1>6 DEF Call

LEMMA RunEffect ==
  ASSUME BaseInv, NEW b \in Slots, NEW a \in Agents, RunEnds(b, a) \/ RunDisabled(b, a)
  PROVE  /\ Executing(b) /\ InRun(b) /\ HandlerFrame(b) /\ owed' = owed
         /\ \/ GoesOn(b, pending, timer)
            \/ \E s \in Seq(Agents) :
                 /\ RunsAgents(b, s) /\ s # <<>>
                 /\ Requested(Wake(b)) => ToSet(s) \subseteq Targets(Wake(b))
<1>1. /\ InRun(b) /\ Executing(b) /\ AgentDone(b)
      /\ UNCHANGED <<handler, runners, configured, enabled, requests, changes, owed, mishaps>>
  BY DEF RunEnds, RunDisabled, Runs, BaseInv, BatchFits
<1>2. /\ Types /\ due \subseteq Agents /\ owed \subseteq Agents /\ mishaps \subseteq Mishaps
      /\ armed \in BOOLEAN /\ batch[b].agents \in Seq(Agents)
  BY DEF BaseInv, Types, Batches
<1>3. due' \subseteq Agents
  BY <1>2 DEF RunEnds, RunDisabled, Advance
<1>4. CASE ScheduleNext(b) /\ GoOn(b, pending, timer)
  <2>1. GoesOn(b, pending, timer) /\ armed' \in BOOLEAN
    BY <1>2, <1>4, GoOnEffect, ScheduleNextType DEF GoesOn
  <2> QED
    BY <1>1, <1>2, <1>3, <2>1 DEF HandlerFrame
<1>5. CASE /\ Len(batch[b].agents) > 1
           /\ batch' = [batch EXCEPT ![b].agents = Tail(@)]
           /\ UNCHANGED <<pending, timer, scheduled, running, armed>>
  <2> DEFINE s == Tail(batch[b].agents)
  <2>1. batch[b].agents # <<>> /\ Len(batch[b].agents) \in Nat
    BY <1>2, <1>5
  <2>2. /\ s \in Seq(Agents) /\ Len(s) = Len(batch[b].agents) - 1
        /\ \A i \in 1 .. Len(s) : /\ i + 1 \in 1 .. Len(batch[b].agents)
                                  /\ s[i] = batch[b].agents[i + 1]
    BY <1>2, <2>1, HeadTailProperties
  <2>3. batch' = [batch EXCEPT ![b].agents = s]
    BY <1>2, <1>5 DEF Types
  <2> HIDE DEF s
  <2>4. ToSet(s) \subseteq ToSet(batch[b].agents)
    BY <1>2, <2>2, Elements
  <2>5. s # <<>>
    BY <1>5, <2>1, <2>2
  <2>6. RunsAgents(b, s)
    BY <1>2, <1>5, <2>2, <2>3, RunsAgentsEffect
  <2>7. Requested(Wake(b)) => ToSet(s) \subseteq Targets(Wake(b))
    BY <1>1, <2>4 DEF BaseInv, BatchFits
  <2>8. HandlerFrame(b)
    BY <1>1, <1>2, <1>3, <1>5 DEF HandlerFrame
  <2> QED
    BY <1>1, <2>2, <2>5, <2>6, <2>7, <2>8
<1> QED
  BY <1>1, <1>4, <1>5 DEF AgentDone

LEMMA BusyEffect ==
  ASSUME BaseInv, NEW b \in Slots, NEW a \in Agents, RunBusy(b, a)
  PROVE  /\ Executing(b) /\ InRun(b) /\ HandlerFrame(b) /\ owed' = Again(b)
         /\ GoesOn(b, Queue(pending, Wake(b)), TRUE)
<1>1. /\ InRun(b) /\ Executing(b) /\ owed' = Again(b)
      /\ GoOn(b, Queue(pending, Wake(b)), TRUE)
      /\ UNCHANGED <<handler, runners, configured, enabled, requests, changes, mishaps>>
  BY DEF RunBusy, Retry, Runs, BaseInv, BatchFits
<1>2. /\ Types /\ due \subseteq Agents /\ owed \subseteq Agents /\ mishaps \subseteq Mishaps
      /\ armed \in BOOLEAN /\ batch[b].agents \in Seq(Agents)
  BY DEF BaseInv, Types, Batches
<1>3. owed' \subseteq Agents
  BY <1>1, <1>2, Elements DEF Again
<1>4. due' \subseteq Agents /\ armed' \in BOOLEAN
  BY <1>2, ScheduleNextType DEF RunBusy, Advance
<1> QED
  BY <1>1, <1>2, <1>3, <1>4, GoOnEffect DEF GoesOn, HandlerFrame

LEMMA BaseHandler ==
  ASSUME BaseInv, NEW b \in Slots,
         Call(b) \/ \E a \in Agents : RunEnds(b, a) \/ RunDisabled(b, a) \/ RunBusy(b, a)
  PROVE  BaseInv'
<1>1. /\ Executing(b) /\ HandlerFrame(b)
      /\ \/ GoesOn(b, pending, timer) \/ GoesOn(b, Queue(pending, Wake(b)), TRUE)
         \/ \E s \in Seq(Agents) :
              /\ RunsAgents(b, s)
              /\ Requested(Wake(b)) => ToSet(s) \subseteq Targets(Wake(b))
  BY CallEffect, RunEffect, BusyEffect
<1>2. /\ pending' \in Seq(Wakes) /\ Once(pending)'
      /\ timer' \in BOOLEAN /\ scheduled' \in BOOLEAN /\ running' \in BOOLEAN
      /\ batch' \in [Slots -> Batches]
      /\ (\A c \in Slots : BatchFits(c))' /\ NeverStalled' /\ Alone'
  BY <1>1, BatchStep DEF GoesOn, HandlerFrame
<1>3. Types'
  BY <1>1, <1>2 DEF BaseInv, Types, HandlerFrame
<1> QED
  BY <1>2, <1>3 DEF BaseInv

-----------------------------------------------------------------------------
(* The other steps                                                          *)

\* A request, or the interval, queues a wake and sets a timer.
LEMMA BaseAsk ==
  ASSUME BaseInv, NEW w \in Wakes, Ask(w),
         UNCHANGED <<scheduled, running, handler, batch, runners, configured, due, enabled,
                     changes, mishaps>>,
         armed' \in BOOLEAN, requests' \in 0 .. MaxRequests, owed' \subseteq Agents
  PROVE  BaseInv'
<1>1. /\ pending' \in Seq(Wakes) /\ Once(pending)' /\ timer' = TRUE
  BY QueueKeeps DEF Ask, BaseInv, Types, Once
<1>2. Types'
  BY <1>1 DEF BaseInv, Types
<1>3. \A b \in Slots : BatchFits(b)'
  BY DEF BaseInv, BatchFits, InRun, Executing, Wake
<1>4. NeverStalled' /\ Alone'
  BY <1>1 DEF BaseInv, NeverStalled, Alone, Executing
<1> QED
  BY <1>2, <1>3, <1>4 DEF BaseInv

LEMMA BaseRequest ==
  ASSUME BaseInv, NEW t \in Agents \cup {All}, NEW p \in Reasons, Request(t, p)
  PROVE  BaseInv'
<1> DEFINE w == [target |-> t, priority |-> p]
<1>1. w \in Wakes /\ w.target = t
  BY WakeFields, Constants
<1>2. /\ Ask(w) /\ owed' = owed \cup Targets(w)
      /\ requests < MaxRequests /\ requests' = requests + 1
      /\ UNCHANGED <<scheduled, running, handler, batch, runners, configured, armed, due,
                     enabled, changes, mishaps>>
  BY DEF Request, runner
<1>3. owed' \subseteq Agents
  BY <1>1, <1>2 DEF Targets, BaseInv, Types
<1>4. requests' \in 0 .. MaxRequests /\ armed' \in BOOLEAN
  BY <1>2, Constants DEF BaseInv, Types
<1> HIDE DEF w
<1> QED
  BY <1>1, <1>2, <1>3, <1>4, BaseAsk

LEMMA BaseInterval ==
  ASSUME BaseInv, IntervalFires
  PROVE  BaseInv'
<1> DEFINE w == [target |-> All, priority |-> Interval]
<1>1. w \in Wakes
  <2>1. Interval \in Interval .. Action
    BY DEF Interval, Action
  <2> QED
    BY <2>1, WakeFields
<1>2. /\ Ask(w) /\ armed' = FALSE
      /\ UNCHANGED <<scheduled, running, handler, batch, runners, configured, due, enabled,
                     requests, changes, owed, mishaps>>
  BY DEF IntervalFires
<1>3. requests' \in 0 .. MaxRequests /\ owed' \subseteq Agents
  BY <1>2 DEF BaseInv, Types
<1> HIDE DEF w
<1> QED
  BY <1>1, <1>2, <1>3, BaseAsk

\* A batch has all the wakes that are pending.
LEMMA WakeTimerEffect ==
  ASSUME BaseInv, WakeTimer
  PROVE  /\ UNCHANGED <<handler, runner, enabled, requests, changes, owed, mishaps>>
         /\ timer' \in BOOLEAN /\ scheduled' \in BOOLEAN
         /\ \/ UNCHANGED <<pending, running, batch>> /\ (handler = 0 \/ timer' = timer \/ pending = <<>>)
            \/ /\ ~running /\ running' = TRUE /\ pending' = <<>> /\ pending # <<>>
               /\ \E b \in Slots :
                    /\ ~Executing(b) /\ Alters(b)
                    /\ batch'[b].wakes = pending /\ batch'[b].next = 1
                    /\ batch'[b].by = handler /\ batch'[b].agents = <<>>
<1>1. /\ UNCHANGED <<handler, runner, enabled, requests, changes, owed, mishaps>>
      /\ pending \in Seq(Wakes) /\ handler \in Nat /\ batch \in [Slots -> Batches]
      /\ timer \in BOOLEAN /\ scheduled \in BOOLEAN
  BY Constants DEF WakeTimer, BaseInv, Types
<1>2. timer' \in BOOLEAN /\ scheduled' \in BOOLEAN
  BY <1>1, Zenon DEF WakeTimer
<1>3. CASE handler # 0 /\ ~running /\ pending # <<>>
  <2>1. running' = TRUE /\ pending' = <<>>
    BY <1>3 DEF WakeTimer
  <2>2. PICK b \in Slots : /\ ~Executing(b)
                           /\ batch' = [batch EXCEPT ![b] =
                                [NoBatch EXCEPT !.wakes = pending, !.next = 1, !.by = handler]]
    BY <1>3 DEF WakeTimer
  <2> DEFINE new == [NoBatch EXCEPT !.wakes = pending, !.next = 1, !.by = handler]
  <2>3. /\ new \in Batches /\ new.wakes = pending /\ new.next = 1 /\ new.by = handler
        /\ new.agents = <<>>
    BY <1>1, NoBatchRecord
  <2>4. batch' = [batch EXCEPT ![b] = new]
    BY <2>2
  <2> HIDE DEF new
  <2>5. /\ Alters(b) /\ batch'[b].wakes = pending /\ batch'[b].next = 1
        /\ batch'[b].by = handler /\ batch'[b].agents = <<>>
    BY <1>1, <2>3, <2>4 DEF Alters
  <2> QED
    BY <1>1, <1>2, <1>3, <2>1, <2>2, <2>5
<1>4. CASE ~(handler # 0 /\ ~running /\ pending # <<>>)
  <2>1. UNCHANGED <<pending, running, batch>> /\ (handler = 0 \/ timer' = timer \/ pending = <<>>)
    BY <1>4, Zenon DEF WakeTimer
  <2> QED
    BY <1>1, <1>2, <2>1
<1> QED
  BY <1>3, <1>4

LEMMA BaseWakeTimer ==
  ASSUME BaseInv, WakeTimer
  PROVE  BaseInv'
<1>1. /\ UNCHANGED <<handler, runners, configured, armed, due, enabled, requests, changes,
                     owed, mishaps>>
      /\ timer' \in BOOLEAN /\ scheduled' \in BOOLEAN
  BY WakeTimerEffect DEF runner
<1>2. CASE UNCHANGED <<pending, running, batch>> /\ (handler = 0 \/ timer' = timer \/ pending = <<>>)
  <2>1. Types'
    BY <1>1, <1>2 DEF BaseInv, Types, Once
  <2>2. \A b \in Slots : BatchFits(b)'
    BY <1>1, <1>2 DEF BaseInv, BatchFits, InRun, Executing, Wake
  <2>3. NeverStalled' /\ Alone'
    BY <1>1, <1>2 DEF BaseInv, NeverStalled, Alone, Executing
  <2> QED
    BY <2>1, <2>2, <2>3 DEF BaseInv
<1>3. ASSUME ~running, running' = TRUE, pending' = <<>>, pending # <<>>, NEW b \in Slots,
             Alters(b), batch'[b].wakes = pending, batch'[b].next = 1,
             batch'[b].by = handler, batch'[b].agents = <<>>
      PROVE  BaseInv'
  <2>1. <<>> \in Seq(Wakes) /\ Once(<<>>)
    BY DEF Once
  <2>2. Types'
    BY <1>1, <1>3, <2>1 DEF BaseInv, Types, Alters, Once
  <2>3. \A c \in Slots : BatchFits(c)'
    <3> SUFFICES ASSUME NEW c \in Slots PROVE BatchFits(c)'
      OBVIOUS
    <3>1. CASE c # b
      BY <1>1, <1>3, <3>1 DEF BaseInv, BatchFits, Alters, InRun, Executing, Wake
    <3>2. CASE c = b
      <4>1. Len(pending) >= 1 /\ handler <= runners
        BY <1>3, Constants DEF BaseInv, Types
      <4> QED
        BY <1>1, <1>3, <3>2, <4>1 DEF BatchFits, InRun
    <3> QED
      BY <3>1, <3>2
  <2>4. NeverStalled'
    BY <1>3 DEF NeverStalled
  <2>5. Alone'
    <3>1. "restartInBatch" \in mishaps \/ \A c \in Slots : ~Executing(c)
      BY <1>3 DEF BaseInv, Alone
    <3>2. \A c \in Slots : c # b => (Executing(c)' <=> Executing(c))
      BY <1>3 DEF Alters, Executing
    <3> QED
      BY <1>1, <1>3, <3>1, <3>2 DEF Alone
  <2> QED
    BY <2>2, <2>3, <2>4, <2>5 DEF BaseInv
<1> QED
  BY <1>2, <1>3, WakeTimerEffect

\* Whoever replaces the map of agents leaves the batches as they are.
LEMMA NewMapEffect ==
  ASSUME Types, NewMap
  PROVE  /\ batch' \in [Slots -> Batches]
         /\ \A b \in Slots : /\ batch'[b].wakes = batch[b].wakes /\ batch'[b].next = batch[b].next
                             /\ batch'[b].by = batch[b].by /\ batch'[b].agents = batch[b].agents
<1>1. \A b \in Slots : batch[b] \in Batches
  BY DEF Types
<1> DEFINE new(b) == [batch[b] EXCEPT !.current = FALSE]
<1>2. batch' = [b \in Slots |-> new(b)]
  BY DEF NewMap
<1>3. \A b \in Slots : /\ new(b) \in Batches
                       /\ new(b).wakes = batch[b].wakes /\ new(b).next = batch[b].next
                       /\ new(b).by = batch[b].by /\ new(b).agents = batch[b].agents
  BY <1>1, BatchRecords
<1> HIDE DEF new
<1> QED
  BY <1>2, <1>3

LEMMA BaseMap ==
  ASSUME BaseInv, NewMap, UNCHANGED <<pending, enabled, requests, owed>>,
         timer' \in BOOLEAN, scheduled' \in BOOLEAN, running' \in BOOLEAN,
         runners' \in 0 .. MaxRunners, runners <= runners', handler' \in 0 .. runners',
         configured' \in BOOLEAN, armed' \in BOOLEAN, due' \subseteq Agents,
         changes' \in 0 .. MaxChanges, mishaps \subseteq mishaps', mishaps' \subseteq Mishaps,
         NeverStalled',
         running' = running \/ "restartInBatch" \in mishaps' \/ \A b \in Slots : ~Executing(b)
  PROVE  BaseInv'
<1>1. /\ batch' \in [Slots -> Batches]
      /\ \A b \in Slots : /\ batch'[b].wakes = batch[b].wakes /\ batch'[b].next = batch[b].next
                          /\ batch'[b].by = batch[b].by /\ batch'[b].agents = batch[b].agents
  BY NewMapEffect DEF BaseInv
<1>2. Types'
  BY <1>1 DEF BaseInv, Types, Once
<1>3. ASSUME NEW b \in Slots PROVE BatchFits(b)'
  <2>1. batch[b].by <= runners'
    BY Constants DEF BaseInv, Types, Batches, BatchFits
  <2> QED
    BY <1>1, <2>1 DEF BaseInv, BatchFits, InRun, Executing, Wake
<1>4. Alone'
  <2>1. \A b \in Slots : Executing(b)' <=> Executing(b)
    BY <1>1 DEF Executing
  <2> QED
    BY <2>1 DEF BaseInv, Alone
<1> QED
  BY <1>2, <1>3, <1>4 DEF BaseInv

LEMMA BaseStart ==
  ASSUME BaseInv, NEW c \in BOOLEAN, StartRunner(c)
  PROVE  BaseInv'
<1>1. /\ handler = 0 /\ runners < MaxRunners /\ runners' = runners + 1 /\ handler' = runners + 1
      /\ running' = FALSE /\ scheduled' = FALSE /\ NewMap
      /\ configured' = c /\ armed' = c /\ due' = {}
      /\ UNCHANGED <<pending, enabled, requests, changes, owed>>
  BY DEF StartRunner, Reset
<1>2. timer' = (pending # <<>>)
  BY DEF StartRunner, Reset
<1>3. timer' \in BOOLEAN
  BY <1>2
<1>4. /\ runners' \in 0 .. MaxRunners /\ runners <= runners' /\ handler' \in 0 .. runners'
  BY <1>1, Constants DEF BaseInv, Types
<1>5. /\ mishaps \subseteq mishaps' /\ mishaps' \subseteq Mishaps
      /\ "restartInBatch" \in mishaps' \/ \A b \in Slots : ~Executing(b)
  <2>1. mishaps' = mishaps \cup {x \in {"restartInBatch"} : \E b \in Slots : Executing(b)}
    BY DEF StartRunner
  <2> QED
    BY <2>1 DEF BaseInv, Types, Mishaps
<1>6. NeverStalled'
  BY <1>1, <1>2 DEF NeverStalled
<1>7. changes' \in 0 .. MaxChanges
  BY <1>1 DEF BaseInv, Types
<1> QED
  BY <1>1, <1>3, <1>4, <1>5, <1>6, <1>7, BaseMap

LEMMA BaseUpdate ==
  ASSUME BaseInv, NEW c \in BOOLEAN, UpdateConfig(c)
  PROVE  BaseInv'
<1>1. /\ changes < MaxChanges /\ changes' = changes + 1 /\ NewMap
      /\ configured' = c /\ armed' = c
      /\ UNCHANGED <<pending, timer, scheduled, running, handler, runners, enabled,
                     requests, owed, mishaps>>
  BY DEF UpdateConfig
<1>2. due' \subseteq Agents
  BY DEF UpdateConfig, BaseInv, Types
<1>3. /\ timer' \in BOOLEAN /\ scheduled' \in BOOLEAN /\ running' \in BOOLEAN
      /\ runners' \in 0 .. MaxRunners /\ handler' \in 0 .. runners' /\ runners <= runners'
      /\ mishaps' \subseteq Mishaps
  BY <1>1, Constants DEF BaseInv, Types
<1>4. changes' \in 0 .. MaxChanges
  BY <1>1, Constants DEF BaseInv, Types
<1>5. NeverStalled'
  BY <1>1 DEF BaseInv, NeverStalled
<1> QED
  BY <1>1, <1>2, <1>3, <1>4, <1>5, BaseMap

\* Steps that no batch and no wake takes part in.
LEMMA BaseRest ==
  ASSUME BaseInv, (\E a \in Agents : Due(a)) \/ StopRunner \/ SetEnabled \/ UNCHANGED vars
  PROVE  BaseInv'
<1>1. /\ UNCHANGED <<pending, timer, scheduled, running, batch, runners, configured, requests,
                     owed, mishaps>>
      /\ handler' = handler \/ handler' = 0
  BY DEF Due, StopRunner, SetEnabled, vars, wakeLayer, runner
<1>2. /\ enabled' \in BOOLEAN /\ armed' \in BOOLEAN
  BY Zenon DEF Due, StopRunner, SetEnabled, vars, wakeLayer, runner, BaseInv, Types
<1>3. due' \subseteq Agents /\ changes' \in 0 .. MaxChanges
  BY Constants DEF Due, StopRunner, SetEnabled, vars, wakeLayer, runner, BaseInv, Types
<1>4. handler' \in 0 .. runners
  BY <1>1, Constants DEF BaseInv, Types
<1>5. Types'
  BY <1>1, <1>2, <1>3, <1>4 DEF BaseInv, Types, Once
<1>6. \A b \in Slots : BatchFits(b)'
  BY <1>1 DEF BaseInv, BatchFits, InRun, Executing, Wake
<1>7. NeverStalled' /\ Alone'
  BY <1>1 DEF BaseInv, NeverStalled, Alone, Executing
<1> QED
  BY <1>5, <1>6, <1>7 DEF BaseInv

LEMMA BaseInit == Init => BaseInv
<1> SUFFICES ASSUME Init PROVE BaseInv
  OBVIOUS
<1>1. /\ pending = <<>> /\ timer = FALSE /\ scheduled = FALSE /\ running = FALSE
      /\ handler = 0 /\ runners = 0 /\ batch = [b \in Slots |-> NoBatch]
      /\ enabled = TRUE /\ configured = FALSE /\ armed = FALSE /\ due = {}
      /\ requests = 0 /\ changes = 0 /\ owed = {} /\ mishaps = {}
  BY DEF Init
<1>2. <<>> \in Seq(Wakes) /\ Once(<<>>)
  BY DEF Once
<1>3. Types
  <2>1. batch \in [Slots -> Batches]
    BY <1>1, NoBatchRecord
  <2>2. /\ runners \in 0 .. MaxRunners /\ handler \in 0 .. runners
        /\ requests \in 0 .. MaxRequests /\ changes \in 0 .. MaxChanges
    BY <1>1, Constants
  <2>3. /\ timer \in BOOLEAN /\ scheduled \in BOOLEAN /\ running \in BOOLEAN
        /\ enabled \in BOOLEAN /\ configured \in BOOLEAN /\ armed \in BOOLEAN
    BY <1>1
  <2> QED
    BY <1>1, <1>2, <2>1, <2>2, <2>3 DEF Types
<1>4. \A b \in Slots : BatchFits(b) /\ ~Executing(b)
  <2>1. \A b \in Slots : batch[b] = NoBatch
    BY <1>1
  <2>2. Len(<<>>) = 0
    OBVIOUS
  <2> SUFFICES ASSUME NEW b \in Slots PROVE BatchFits(b) /\ ~Executing(b)
    OBVIOUS
  <2>3. /\ batch[b].next = 0 /\ batch[b].wakes = <<>> /\ batch[b].by = 0
        /\ batch[b].agents = <<>>
    BY <2>1, NoBatchRecord
  <2> QED
    BY <1>1, <2>2, <2>3 DEF BatchFits, Executing, InRun
<1>5. NeverStalled /\ Alone
  BY <1>1, <1>4 DEF NeverStalled, Alone
<1> QED
  BY <1>3, <1>4, <1>5 DEF BaseInv

LEMMA BaseNext ==
  ASSUME BaseInv, [Next]_vars
  PROVE  BaseInv'
BY BaseRequest, BaseInterval, BaseWakeTimer, BaseHandler, BaseStart, BaseUpdate, BaseRest DEF Next

LEMMA BaseImpliesInv ==
  ASSUME BaseInv
  PROVE  Inv
<1>1. TypeOK
  <2>1. IsInjective([i \in DOMAIN pending |-> pending[i].target])
    <3>1. DOMAIN pending = 1 .. Len(pending)
      BY DEF BaseInv, Types
    <3> QED
      BY <3>1 DEF BaseInv, Types, Once, IsInjective
  <2>2. \A b \in Slots :
          /\ batch[b].wakes \in Seq(Wakes) /\ batch[b].current \in BOOLEAN
          /\ batch[b].agents \in Seq(Agents) /\ batch[b].next \in Nat /\ batch[b].by \in Nat
    BY DEF BaseInv, Types, Batches
  <2>3. \A b \in Slots : /\ batch[b].next \in 0 .. Len(batch[b].wakes)
                         /\ batch[b].by \in 0 .. runners /\ (InRun(b) => Executing(b))
    BY <2>2, Constants DEF BaseInv, BatchFits, Types
  <2> QED
    BY <2>1, <2>2, <2>3 DEF TypeOK, BaseInv, Types
<1>2. OneBatch
  <2> SUFFICES ASSUME "restartInBatch" \notin mishaps
               PROVE  Cardinality({b \in Slots : Executing(b)}) <= 1
    BY DEF OneBatch
  <2> DEFINE E == {b \in Slots : Executing(b)}
  <2>1. CASE E = {}
    BY <2>1, FS_EmptySet
  <2>2. CASE E # {}
    <3>1. PICK b \in Slots : Executing(b)
      BY <2>2
    <3>2. E = {b}
      BY <3>1 DEF BaseInv, Alone
    <3> QED
      BY <3>2, FS_Singleton
  <2> QED
    BY <2>1, <2>2
<1> QED
  BY <1>1, <1>2 DEF Inv, BaseInv

\* The wake layer is one timer and one batch: a wake that is pending is on its way,
\* and batches follow each other unless a runner has started during one
\* (schedule, setHeartbeatWakeHandler).
THEOREM OneTimerOneBatch == Spec => []Inv
<1>1. BaseInv /\ [Next]_vars => BaseInv'
  BY BaseNext
<1>2. BaseInv => Inv
  BY BaseImpliesInv
<1> QED
  BY <1>1, <1>2, BaseInit, PTL DEF Spec

-----------------------------------------------------------------------------
(* No wake is lost                                                          *)

\* The first wake of a batch that is not called yet.
From(b) == IF InRun(b) THEN batch[b].next + 1 ELSE batch[b].next

PendingFor(a) == \E w \in ToSet(pending) : Covers(w, a)
BatchFor(b, a) ==
  Executing(b) /\ \E i \in From(b) .. Len(batch[b].wakes) : Covers(batch[b].wakes[i], a)

\* Who is owed a run waits for a wake that is not called yet: the one that is
\* being executed has paid its debts.
Served ==
  "restartInBatch" \in mishaps \/
    \A a \in owed : PendingFor(a) \/ \E b \in Slots : BatchFor(b, a)

\* What is queued covers what it covered.
LEMMA QueueCovers ==
  ASSUME Types, NEW w \in Wakes, pending' = Queue(pending, w), NEW a,
         PendingFor(a) \/ Covers(w, a)
  PROVE  PendingFor(a)'
<1>1. pending \in Seq(Wakes) /\ Once(pending)
  BY DEF Types
<1>2. PICK x \in ToSet(pending) \cup {w} : Covers(x, a)
  BY DEF PendingFor
<1>3. PICK y \in ToSet(pending') : y.target = x.target /\ y.priority >= x.priority
  BY <1>1, QueueKeeps
<1>4. x \in Wakes /\ y \in Wakes
  <2>1. pending' \in Seq(Wakes)
    BY <1>1, QueueKeeps
  <2> QED
    BY <1>1, <2>1, Elements
<1>5. Covers(y, a)
  BY <1>2, <1>3, <1>4, WakeFields DEF Covers, Requested, Targets, Interval
<1> QED
  BY <1>5 DEF PendingFor

\* The handler gives up the wake at hand and no other.
LEMMA BatchKeeps ==
  ASSUME BaseInv, NEW b \in Slots, Executing(b), NEW wakes, NEW t,
         \/ GoesOn(b, wakes, t)
         \/ \E s \in Seq(Agents) : RunsAgents(b, s) /\ s # <<>>,
         NEW c \in Slots, NEW a, BatchFor(c, a),
         (c = b /\ ~InRun(b)) => ~Covers(Wake(b), a)
  PROVE  BatchFor(c, a)'
<1>1. Alters(b) /\ batch[b].next \in Nat /\ Len(batch[b].wakes) \in Nat /\ batch[b].next > 0
  BY DEF GoesOn, Advances, Ends, RunsAgents, BaseInv, Types, Batches, Executing
<1>2. CASE c # b
  <2>1. batch'[c] = batch[c]
    BY <1>1, <1>2 DEF Alters
  <2> QED
    BY <2>1 DEF BatchFor, From, Executing, InRun
<1>3. CASE c = b
  <2>1. PICK i \in From(b) .. Len(batch[b].wakes) : Covers(batch[b].wakes[i], a)
    BY <1>3 DEF BatchFor
  <2>2. i \in batch[b].next + 1 .. Len(batch[b].wakes)
    <3>1. ~InRun(b) => i # batch[b].next
      BY <1>3, <2>1 DEF Wake
    <3> QED
      BY <1>1, <2>1, <3>1 DEF From
  <2>3. ~Ends(b, wakes, t)
    BY <1>1, <2>2 DEF Ends
  <2>4. CASE Advances(b, wakes, t)
    <3>1. From(b)' = batch[b].next + 1 /\ Executing(b)' /\ batch'[b].wakes = batch[b].wakes
      BY <1>1, <2>4 DEF Advances, From, InRun, Executing
    <3> QED
      BY <1>3, <2>1, <2>2, <3>1 DEF BatchFor
  <2>5. CASE \E s \in Seq(Agents) : RunsAgents(b, s) /\ s # <<>>
    <3>1. From(b)' = batch[b].next + 1 /\ Executing(b)' /\ batch'[b].wakes = batch[b].wakes
      BY <1>1, <2>5 DEF RunsAgents, From, InRun, Executing
    <3> QED
      BY <1>3, <2>1, <2>2, <3>1 DEF BatchFor
  <2> QED
    BY <2>3, <2>4, <2>5 DEF GoesOn
<1> QED
  BY <1>2, <1>3

LEMMA ServedHandler ==
  ASSUME BaseInv, Served, NEW b \in Slots,
         Call(b) \/ \E a \in Agents : RunEnds(b, a) \/ RunDisabled(b, a) \/ RunBusy(b, a)
  PROVE  Served'
<1>1. mishaps \subseteq mishaps' /\ Types
  BY CallEffect, RunEffect, BusyEffect DEF HandlerFrame, BaseInv
<1> SUFFICES ASSUME "restartInBatch" \notin mishaps, NEW a \in owed'
             PROVE  PendingFor(a)' \/ \E c \in Slots : BatchFor(c, a)'
  BY <1>1 DEF Served
<1>2. CASE Call(b)
  <2>1. /\ Executing(b) /\ ~InRun(b) /\ a \in owed
        /\ ~Covers(Wake(b), a)
        /\ \/ GoesOn(b, pending, timer)
           \/ \E s \in Seq(Agents) : RunsAgents(b, s) /\ s # <<>>
    BY <1>2, CallEffect DEF Covers
  <2>2. pending' = pending
    BY <2>1 DEF GoesOn, Advances, Ends, RunsAgents
  <2>3. PendingFor(a) => PendingFor(a)'
    BY <2>2 DEF PendingFor
  <2>4. \A c \in Slots : BatchFor(c, a) => BatchFor(c, a)'
    BY <2>1, BatchKeeps
  <2> QED
    BY <2>1, <2>3, <2>4 DEF Served
<1>3. CASE \E x \in Agents : RunEnds(b, x) \/ RunDisabled(b, x)
  <2>1. /\ Executing(b) /\ InRun(b) /\ a \in owed
        /\ \/ GoesOn(b, pending, timer)
           \/ \E s \in Seq(Agents) : RunsAgents(b, s) /\ s # <<>>
    BY <1>3, RunEffect
  <2>2. pending' = pending
    BY <2>1 DEF GoesOn, Advances, Ends, RunsAgents
  <2>3. PendingFor(a) => PendingFor(a)'
    BY <2>2 DEF PendingFor
  <2>4. \A c \in Slots : BatchFor(c, a) => BatchFor(c, a)'
    BY <2>1, BatchKeeps
  <2> QED
    BY <2>1, <2>3, <2>4 DEF Served
<1>4. CASE \E x \in Agents : RunBusy(b, x)
  <2>1. /\ Executing(b) /\ InRun(b) /\ owed' = Again(b)
        /\ GoesOn(b, Queue(pending, Wake(b)), TRUE)
    BY <1>4, BusyEffect
  <2>2. pending' = Queue(pending, Wake(b)) /\ Wake(b) \in Wakes
    BY <1>1, <2>1 DEF GoesOn, Advances, Ends, BaseInv, Types, BatchFits, Executing, Batches, Wake
  <2>3. PendingFor(a) => PendingFor(a)'
    BY <1>1, <2>2, QueueCovers
  <2>4. \A c \in Slots : BatchFor(c, a) => BatchFor(c, a)'
    BY <2>1, BatchKeeps
  <2>5. CASE a \in owed
    BY <2>3, <2>4, <2>5 DEF Served
  <2>6. CASE a \notin owed
    <3>1. a \in ToSet(batch[b].agents) /\ Requested(Wake(b))
      BY <2>1, <2>6 DEF Again
    <3>2. Covers(Wake(b), a)
      BY <2>1, <3>1 DEF Covers, BaseInv, BatchFits
    <3> QED
      BY <1>1, <2>2, <3>2, QueueCovers
  <2> QED
    BY <2>5, <2>6
<1> QED
  BY <1>2, <1>3, <1>4

\* When batches stay, so does what they cover.
LEMMA BatchForStays ==
  ASSUME NEW b \in Slots, NEW a, BatchFor(b, a),
         batch'[b].wakes = batch[b].wakes, batch'[b].next = batch[b].next,
         batch'[b].agents = batch[b].agents
  PROVE  BatchFor(b, a)'
BY DEF BatchFor, From, Executing, InRun

LEMMA ServedAsk ==
  ASSUME BaseInv, Served, NEW w \in Wakes, pending' = Queue(pending, w),
         owed' \subseteq owed \cup {a \in Agents : Covers(w, a)}, UNCHANGED <<batch, mishaps>>
  PROVE  Served'
<1> SUFFICES ASSUME "restartInBatch" \notin mishaps, NEW a \in owed'
             PROVE  PendingFor(a)' \/ \E c \in Slots : BatchFor(c, a)'
  BY DEF Served
<1>1. Types
  BY DEF BaseInv
<1>2. PendingFor(a) \/ Covers(w, a) => PendingFor(a)'
  BY <1>1, QueueCovers
<1>3. \A c \in Slots : BatchFor(c, a) => BatchFor(c, a)'
  BY BatchForStays
<1> QED
  BY <1>2, <1>3 DEF Served

LEMMA ServedWakeTimer ==
  ASSUME BaseInv, Served, WakeTimer
  PROVE  Served'
<1>1. UNCHANGED <<owed, mishaps>>
  BY WakeTimerEffect
<1> SUFFICES ASSUME "restartInBatch" \notin mishaps, NEW a \in owed
             PROVE  PendingFor(a)' \/ \E c \in Slots : BatchFor(c, a)'
  BY <1>1 DEF Served
<1>2. PendingFor(a) \/ \E c \in Slots : BatchFor(c, a)
  BY DEF Served
<1>3. CASE UNCHANGED <<pending, batch>>
  BY <1>2, <1>3, BatchForStays DEF PendingFor
<1>4. ASSUME NEW b \in Slots, ~Executing(b), Alters(b),
             batch'[b].wakes = pending, batch'[b].next = 1, batch'[b].agents = <<>>
      PROVE  \E c \in Slots : BatchFor(c, a)'
  <2>1. CASE PendingFor(a)
    <3>1. pending \in Seq(Wakes)
      BY DEF BaseInv, Types
    <3>2. PICK i \in 1 .. Len(pending) : Covers(pending[i], a)
      BY <2>1, <3>1, Elements DEF PendingFor
    <3>3. From(b)' = 1 /\ Executing(b)'
      BY <1>4 DEF From, InRun, Executing
    <3> QED
      BY <1>4, <3>2, <3>3 DEF BatchFor
  <2>2. ASSUME NEW c \in Slots, BatchFor(c, a)
        PROVE  BatchFor(c, a)'
    <3>1. batch'[c] = batch[c]
      BY <1>4, <2>2 DEF BatchFor, Alters
    <3> QED
      BY <2>2, <3>1, BatchForStays
  <2> QED
    BY <1>2, <2>1, <2>2
<1> QED
  BY <1>3, <1>4, WakeTimerEffect

LEMMA ServedOthers ==
  ASSUME BaseInv, Served,
         \/ \E c \in BOOLEAN : StartRunner(c) \/ UpdateConfig(c)
         \/ \E a \in Agents : Due(a)
         \/ StopRunner \/ SetEnabled \/ UNCHANGED vars
  PROVE  Served'
<1>1. UNCHANGED <<pending, owed>> /\ mishaps \subseteq mishaps'
  BY DEF StartRunner, UpdateConfig, Due, StopRunner, SetEnabled, vars, wakeLayer
<1>2. \A b \in Slots : /\ batch'[b].wakes = batch[b].wakes /\ batch'[b].next = batch[b].next
                       /\ batch'[b].agents = batch[b].agents
  <2>1. NewMap \/ batch' = batch
    BY DEF StartRunner, UpdateConfig, Due, StopRunner, SetEnabled, vars, wakeLayer
  <2> QED
    BY <2>1, NewMapEffect DEF BaseInv
<1>3. \A b \in Slots, a \in owed : BatchFor(b, a) => BatchFor(b, a)'
  BY <1>2, BatchForStays
<1> QED
  BY <1>1, <1>3 DEF Served, PendingFor

\* Every agent that a request has not reached yet is covered by a wake of that
\* urgency, pending or still to be called in a batch: requests that coalesce, are
\* retried or fail lose nobody (queuePendingWakeReason, schedule, run).
THEOREM NoWakeIsLost == Spec => []NoWakeLost
<1>1. Init => Served
  BY DEF Init, Served
<1>2. BaseInv /\ Served /\ [Next]_vars => Served'
  <2> SUFFICES ASSUME BaseInv, Served, [Next]_vars PROVE Served'
    OBVIOUS
  <2>1. ASSUME NEW t \in Agents \cup {All}, NEW p \in Reasons, Request(t, p)
        PROVE  Served'
    <3> DEFINE w == [target |-> t, priority |-> p]
    <3>1. w \in Wakes /\ w.target = t /\ w.priority = p
      BY WakeFields, Constants
    <3>2. /\ pending' = Queue(pending, w) /\ owed' = owed \cup Targets(w)
          /\ UNCHANGED <<batch, mishaps>>
      BY <2>1 DEF Request, Ask
    <3> HIDE DEF w
    <3>3. Requested(w)
      BY <3>1, HeartbeatsAssumption DEF Requested, Interval
    <3>4. Targets(w) \subseteq {a \in Agents : Covers(w, a)}
      BY <3>1, <3>3 DEF Covers, Targets
    <3> QED
      BY <3>1, <3>2, <3>4, ServedAsk
  <2>2. CASE IntervalFires
    <3> DEFINE w == [target |-> All, priority |-> Interval]
    <3>1. w \in Wakes
      <4>1. Interval \in Interval .. Action
        BY DEF Interval, Action
      <4> QED
        BY <4>1, WakeFields
    <3>2. pending' = Queue(pending, w) /\ UNCHANGED <<batch, mishaps, owed>>
      BY <2>2 DEF IntervalFires, Ask
    <3> HIDE DEF w
    <3> QED
      BY <3>1, <3>2, ServedAsk
  <2> QED
    BY <2>1, <2>2, ServedWakeTimer, ServedHandler, ServedOthers DEF Next
<1>3. BaseInv /\ Served => NoWakeLost
  <2> SUFFICES ASSUME BaseInv, Served, "restartInBatch" \notin mishaps, NEW a \in owed
               PROVE  \/ \E w \in ToSet(pending) : Covers(w, a)
                      \/ \E b \in Slots : \E i \in batch[b].next .. Len(batch[b].wakes) :
                           Executing(b) /\ Covers(batch[b].wakes[i], a)
    BY DEF NoWakeLost
  <2>1. CASE PendingFor(a)
    BY <2>1 DEF PendingFor
  <2>2. ASSUME NEW b \in Slots, BatchFor(b, a)
        PROVE  \E i \in batch[b].next .. Len(batch[b].wakes) :
                 Executing(b) /\ Covers(batch[b].wakes[i], a)
    <3>1. batch[b].next \in Nat /\ Len(batch[b].wakes) \in Nat
      BY DEF BaseInv, Types, Batches
    <3>2. From(b) .. Len(batch[b].wakes) \subseteq batch[b].next .. Len(batch[b].wakes)
      BY <3>1 DEF From
    <3> QED
      BY <2>2, <3>2 DEF BatchFor
  <2> QED
    BY <2>1, <2>2 DEF Served
<1>4. BaseInv /\ [Next]_vars => BaseInv'
  BY BaseNext
<1> QED
  BY <1>1, <1>2, <1>3, <1>4, BaseInit, PTL DEF Spec
=============================================================================
