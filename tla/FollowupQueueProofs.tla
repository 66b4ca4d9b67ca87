-------------------------- MODULE FollowupQueueProofs --------------------------
(***************************************************************************)
(* Proofs about FollowupQueue, for any messages, cap, settings and resets.  *)
(***************************************************************************)
EXTENDS FollowupQueue, FiniteSetTheorems, SequenceTheorems, TLAPS

Cleared == "clearedInDrain" \in mishaps
Disturbed == mishaps \cap {"overflowInTurn", "settingsChanged", "clearedInDrain"} # {}

QueueObjects == [items : Seq(Messages), dropped : SUBSET Messages, lastRun : BOOLEAN,
                 mode : {"collect", "followup"}, policy : {"summarize", "old", "new"}]
DrainStates == [at : {"idle", "debounce", "turn", "spinning"}, forced : BOOLEAN,
                kind : {"none", "one", "batch", "summary"}, turn : Seq(Messages),
                summary : SUBSET Messages]

ObjectTypes == /\ queue \in [Queues -> QueueObjects]
               /\ \A q \in Queues : Len(queue[q].items) <= Cap
DrainTypes == drain \in [Queues -> DrainStates]
KeyTypes == created \in 0 .. MaxQueues /\ current \in 0 .. created /\ callback \in BOOLEAN
HistoryTypes == /\ recent \subseteq Messages /\ clears \in 0 .. MaxClears
                /\ delivered \cup twice \cup told \cup discarded \subseteq Messages
                /\ mishaps \subseteq Mishaps
Types == ObjectTypes /\ DrainTypes /\ KeyTypes /\ HistoryTypes

\* What a drain does is told by its kind.
TurnHasKind == \A q \in Queues : drain[q].at = "turn" => drain[q].kind # "none"

\* Nobody drains but the drain of the key ...
DrainOfKey == Cleared \/ \A q \in Queues : drain[q].at # "idle" => current = q

\* ... and an object that is still to be created is empty.
UnusedIsEmpty ==
  \A q \in Queues : q > created => queue[q].items = <<>> /\ queue[q].dropped = {}

\* An object with work knows whom to run.
RunIsKnown == \A q \in Queues : HasWork(queue[q]) => queue[q].lastRun

\* Dropped messages wait for a summary, which in mode "followup" needs an item.
DroppedHasItem ==
  Disturbed \/ \A q \in Queues : queue[q].dropped # {} =>
    /\ queue[q].policy = "summarize"
    /\ queue[q].items # <<>> \/ queue[q].mode = "collect"

\* A drain has work before its turn; during the turn of a single message, or
\* of all of them without a summary, nothing is dropped.
DrainInv ==
  Disturbed \/ \A q \in Queues :
    /\ drain[q].at # "spinning"
    /\ drain[q].at = "debounce" => HasWork(queue[q])
    /\ drain[q].at = "turn" =>
         /\ drain[q].turn # <<>> \/ drain[q].summary # {}
         /\ drain[q].kind = "one" => queue[q].dropped = {} \/ queue[q].mode = "collect"
         /\ drain[q].kind = "batch" => queue[q].dropped = {} \/ drain[q].summary # {}

IInv == /\ Types /\ TurnHasKind /\ DrainOfKey /\ UnusedIsEmpty /\ RunIsKnown
        /\ DroppedHasItem /\ DrainInv /\ NeverStranded

-----------------------------------------------------------------------------
(* What becomes of an object                                                *)

\* Changed fields of an object.
LEMMA NewItems ==
  ASSUME NEW Q \in QueueObjects, NEW i \in Seq(Messages), NEW R, R = [Q EXCEPT !.items = i]
  PROVE  /\ R \in QueueObjects /\ R.items = i /\ R.dropped = Q.dropped
         /\ R.lastRun = Q.lastRun /\ R.mode = Q.mode /\ R.policy = Q.policy
BY DEF QueueObjects

\* Room is made for one more item; what is dropped is counted for a summary.
LEMMA TrimObject ==
  ASSUME NEW Q \in QueueObjects, Len(Q.items) <= Cap
  PROVE  /\ Trim(Q) \in QueueObjects
         /\ Len(Trim(Q).items) < Cap
         /\ Trim(Q).mode = Q.mode /\ Trim(Q).policy = Q.policy
         /\ \/ Trim(Q).dropped = Q.dropped
            \/ (Len(Q.items) >= Cap /\ Q.policy = "summarize")
<1>1. Cap \in Nat \ {0} /\ Q.items \in Seq(Messages)
  BY FollowupAssumption DEF QueueObjects
<1>2. CASE Len(Q.items) < Cap
  BY <1>2 DEF Trim
<1>3. CASE Len(Q.items) >= Cap
  <2>1. /\ Head(Q.items) \in Messages
        /\ Tail(Q.items) \in Seq(Messages) /\ Len(Tail(Q.items)) = Len(Q.items) - 1
    BY <1>1, <1>3
  <2> DEFINE d == IF Q.policy = "summarize" THEN Q.dropped \cup {Head(Q.items)} ELSE Q.dropped
  <2>2. Trim(Q) = [Q EXCEPT !.items = Tail(Q.items), !.dropped = d]
    BY <1>1, <1>3 DEF Trim
  <2>3. d \in SUBSET Messages
    BY <2>1 DEF QueueObjects
  <2>4. d = Q.dropped \/ Q.policy = "summarize"
    OBVIOUS
  <2> HIDE DEF d
  <2>5. /\ Trim(Q) \in QueueObjects
        /\ Trim(Q).items = Tail(Q.items) /\ Trim(Q).dropped = d
        /\ Trim(Q).mode = Q.mode /\ Trim(Q).policy = Q.policy
    BY <2>1, <2>2, <2>3 DEF QueueObjects
  <2>6. Len(Tail(Q.items)) < Cap
    BY <1>1, <2>1
  <2> QED
    BY <1>3, <2>4, <2>5, <2>6
<1> QED
  BY <1>1, <1>2, <1>3

\* The object after a message was accepted.
Accepted(Q, m) == [Trim(Q) EXCEPT !.items = Append(@, m), !.lastRun = TRUE]

LEMMA AcceptedObject ==
  ASSUME NEW Q \in QueueObjects, Len(Q.items) <= Cap, NEW m \in Messages
  PROVE  /\ Accepted(Q, m) \in QueueObjects
         /\ Len(Accepted(Q, m).items) <= Cap /\ Accepted(Q, m).items # <<>>
         /\ Accepted(Q, m).lastRun = TRUE
         /\ Accepted(Q, m).mode = Q.mode /\ Accepted(Q, m).policy = Q.policy
         /\ \/ Accepted(Q, m).dropped = Q.dropped
            \/ (Len(Q.items) >= Cap /\ Q.policy = "summarize")
<1> DEFINE T == Trim(Q)
<1>1. /\ T \in QueueObjects /\ Len(T.items) < Cap
      /\ T.mode = Q.mode /\ T.policy = Q.policy
      /\ T.dropped = Q.dropped \/ (Len(Q.items) >= Cap /\ Q.policy = "summarize")
  BY TrimObject
<1>2. Accepted(Q, m) = [T EXCEPT !.items = Append(T.items, m), !.lastRun = TRUE]
  BY DEF Accepted
<1> HIDE DEF T
<1>3. /\ T.items \in Seq(Messages) /\ Append(T.items, m) \in Seq(Messages)
      /\ Len(Append(T.items, m)) = Len(T.items) + 1 /\ Append(T.items, m) # <<>>
  BY <1>1 DEF QueueObjects
<1>4. /\ Accepted(Q, m) \in QueueObjects
      /\ Accepted(Q, m).items = Append(T.items, m) /\ Accepted(Q, m).dropped = T.dropped
      /\ Accepted(Q, m).lastRun = TRUE
      /\ Accepted(Q, m).mode = T.mode /\ Accepted(Q, m).policy = T.policy
  BY <1>1, <1>2, <1>3 DEF QueueObjects
<1>5. Len(Append(T.items, m)) <= Cap
  BY <1>1, <1>3, FollowupAssumption DEF QueueObjects
<1> QED
  BY <1>1, <1>3, <1>4, <1>5

\* A finished turn only takes away.
LEMMA AfterTurnObject ==
  ASSUME NEW D \in DrainStates, NEW Q \in QueueObjects, D.kind # "none", Len(Q.items) <= Cap
  PROVE  LET R == AfterTurn(D, Q) IN
         /\ R \in QueueObjects /\ Len(R.items) <= Cap
         /\ R.lastRun = Q.lastRun /\ R.mode = Q.mode /\ R.policy = Q.policy
         /\ R.items # <<>> => Q.items # <<>>
         /\ R.dropped # {} => R.dropped = Q.dropped
         /\ R.dropped # {} => D.kind = "one" \/ (D.kind = "batch" /\ D.summary = {})
<1>1. Cap \in Nat /\ Q.items \in Seq(Messages) /\ D.turn \in Seq(Messages)
      /\ D.kind \in {"one", "batch", "summary"}
  BY FollowupAssumption DEF QueueObjects, DrainStates
<1> DEFINE rest == IF Q.items = <<>> THEN Q.items ELSE Tail(Q.items)
           later == SubSeq(Q.items, Len(D.turn) + 1, Len(Q.items))
<1>2. rest \in Seq(Messages) /\ Len(rest) <= Len(Q.items) /\ (rest # <<>> => Q.items # <<>>)
  BY <1>1
<1>3. later \in Seq(Messages) /\ Len(later) <= Len(Q.items) /\ (later # <<>> => Q.items # <<>>)
  <2> DEFINE m == Len(D.turn) + 1
             n == Len(Q.items)
  <2>1. m \in Int /\ n \in Int /\ m >= 1 /\ n >= 0
    BY <1>1
  <2>2. \A i \in m .. n : Q.items[i] \in Messages
    BY <1>1, <2>1
  <2>3. later = SubSeq(Q.items, m, n)
    OBVIOUS
  <2> HIDE DEF m, later
  <2>4. later \in Seq(Messages) /\ Len(later) = IF m <= n THEN n - m + 1 ELSE 0
    BY <2>1, <2>2, <2>3, SubSeqProperties
  <2>5. Len(later) <= n
    BY <2>1, <2>4
  <2>6. Q.items = <<>> => later = <<>>
    BY <1>1, <2>4, <2>5
  <2> QED
    BY <2>4, <2>5, <2>6
<1> HIDE DEF rest, later
<1>4. CASE D.kind = "one"
  <2>1. AfterTurn(D, Q) = [Q EXCEPT !.items = rest]
    BY <1>4 DEF AfterTurn, rest
  <2>2. /\ AfterTurn(D, Q) \in QueueObjects
        /\ AfterTurn(D, Q).items = rest /\ AfterTurn(D, Q).dropped = Q.dropped
        /\ AfterTurn(D, Q).lastRun = Q.lastRun
        /\ AfterTurn(D, Q).mode = Q.mode /\ AfterTurn(D, Q).policy = Q.policy
    BY <1>2, <2>1, NewItems
  <2>3. Len(rest) <= Cap
    BY <1>1, <1>2
  <2> QED
    BY <1>2, <1>4, <2>2, <2>3
<1>5. CASE D.kind = "summary"
  <2>1. AfterTurn(D, Q) = [Q EXCEPT !.items = rest, !.dropped = {}]
    BY <1>5 DEF AfterTurn, rest
  <2>2. /\ AfterTurn(D, Q) \in QueueObjects
        /\ AfterTurn(D, Q).items = rest /\ AfterTurn(D, Q).dropped = {}
        /\ AfterTurn(D, Q).lastRun = Q.lastRun
        /\ AfterTurn(D, Q).mode = Q.mode /\ AfterTurn(D, Q).policy = Q.policy
    BY <1>2, <2>1 DEF QueueObjects
  <2>3. Len(rest) <= Cap
    BY <1>1, <1>2
  <2> QED
    BY <1>2, <2>2, <2>3
<1>6. CASE D.kind = "batch"
  <2> DEFINE d == IF D.summary = {} THEN Q.dropped ELSE {}
  <2>1. AfterTurn(D, Q) = [Q EXCEPT !.items = later, !.dropped = d]
    BY <1>6 DEF AfterTurn, later
  <2>2. d \in SUBSET Messages /\ (d # {} => d = Q.dropped /\ D.summary = {})
    BY DEF QueueObjects
  <2> HIDE DEF d
  <2>3. /\ AfterTurn(D, Q) \in QueueObjects
        /\ AfterTurn(D, Q).items = later /\ AfterTurn(D, Q).dropped = d
        /\ AfterTurn(D, Q).lastRun = Q.lastRun
        /\ AfterTurn(D, Q).mode = Q.mode /\ AfterTurn(D, Q).policy = Q.policy
    BY <1>3, <2>1, <2>2 DEF QueueObjects
  <2>4. Len(later) <= Cap
    BY <1>1, <1>3
  <2> QED
    BY <1>3, <1>6, <2>2, <2>3, <2>4
<1> QED
  BY <1>1, <1>4, <1>5, <1>6

-----------------------------------------------------------------------------
(* The end of a drain                                                       *)

Debounce == [NoDrain EXCEPT !.at = "debounce"]

LEMMA DrainRecords ==
  /\ NoDrain \in DrainStates /\ NoDrain.at = "idle"
  /\ Debounce \in DrainStates /\ Debounce.at = "debounce"
<1>1. <<>> \in Seq(Messages) /\ {} \in SUBSET Messages
  OBVIOUS
<1>2. NoDrain \in DrainStates /\ NoDrain.at = "idle"
  BY <1>1 DEF NoDrain, DrainStates
<1>3. Debounce \in DrainStates /\ Debounce.at = "debounce"
  BY <1>2 DEF Debounce, DrainStates
<1> QED
  BY <1>2, <1>3

\* The drain of q is over; maybe the drain of the key begins.
LEMMA FinallyEffect ==
  ASSUME Types, NEW q \in Queues, NEW Q, Finally(q, Q)
  PROVE  /\ DrainTypes'
         /\ callback' \in BOOLEAN /\ current' \in {0, current}
         /\ \A x \in Queues :
              \/ x # q /\ drain'[x] = drain[x]
              \/ x = q /\ drain'[x].at = "idle"
              \/ x = current /\ drain'[x].at = "debounce" /\ HasWork(Q)
         /\ ~HasWork(Q) => current' = 0
         /\ HasWork(Q) => current' = current /\ (current = 0 \/ drain'[current].at # "idle")
<1> DEFINE idle == [drain EXCEPT ![q] = NoDrain]
<1>1. /\ idle \in [Queues -> DrainStates] /\ idle[q].at = "idle"
      /\ \A x \in Queues : x # q => idle[x] = drain[x]
  BY DrainRecords DEF Types, DrainTypes
<1>2. current \in {0} \cup Queues /\ callback \in BOOLEAN
  BY FollowupAssumption DEF Types, KeyTypes, Queues
<1>3. CASE ~HasWork(Q)
  <2>1. drain' = idle /\ current' = 0 /\ UNCHANGED callback
    BY <1>3 DEF Finally
  <2> QED
    BY <1>1, <1>2, <1>3, <2>1 DEF DrainTypes
<1>4. CASE HasWork(Q) /\ current \in Queues /\ idle[current].at = "idle"
  <2>1. /\ drain' = [idle EXCEPT ![current].at = "debounce"]
        /\ callback' = TRUE /\ UNCHANGED current
    BY <1>4 DEF Finally
  <2> HIDE DEF idle
  <2>2. drain' = [idle EXCEPT ![current] = [idle[current] EXCEPT !.at = "debounce"]]
    BY <2>1
  <2> DEFINE d == [idle[current] EXCEPT !.at = "debounce"]
  <2>3. d \in DrainStates /\ d.at = "debounce"
    BY <1>1, <1>4 DEF DrainStates
  <2> HIDE DEF d
  <2>4. drain' \in [Queues -> DrainStates] /\ drain'[current] = d
        /\ \A x \in Queues : x # current => drain'[x] = idle[x]
    BY <1>1, <1>4, <2>2, <2>3 DEF d
  <2> QED
    BY <1>1, <1>4, <2>1, <2>3, <2>4 DEF DrainTypes
<1>5. CASE HasWork(Q) /\ (current = 0 \/ idle[current].at # "idle")
  <2>1. {c \in Queues : c = current /\ idle[c].at = "idle"} = {}
    BY <1>5 DEF Queues
  <2>2. drain' = idle /\ UNCHANGED <<current, callback>>
    BY <1>5, <2>1 DEF Finally
  <2> QED
    BY <1>1, <1>2, <1>5, <2>2 DEF DrainTypes
<1> QED
  BY <1>2, <1>3, <1>4, <1>5

\* An object of which something was taken away.
Shrinks(R, Q) ==
  /\ R \in QueueObjects /\ Len(R.items) <= Cap
  /\ R.lastRun = Q.lastRun /\ R.mode = Q.mode /\ R.policy = Q.policy
  /\ R.items # <<>> => Q.items # <<>>
  /\ R.dropped # {} => R.dropped = Q.dropped

LEMMA ShrinkStep ==
  ASSUME Types, UnusedIsEmpty, RunIsKnown, NEW q \in Queues, NEW R, Shrinks(R, queue[q]),
         queue' = [queue EXCEPT ![q] = R], UNCHANGED created
  PROVE  /\ ObjectTypes' /\ UnusedIsEmpty' /\ RunIsKnown'
         /\ queue'[q] = R /\ \A x \in Queues : x # q => queue'[x] = queue[x]
<1>1. queue'[q] = R /\ \A x \in Queues : x # q => queue'[x] = queue[x]
  BY DEF Types, ObjectTypes
<1>2. ObjectTypes'
  BY <1>1 DEF Types, ObjectTypes, Shrinks
<1>3. UnusedIsEmpty'
  BY <1>1 DEF UnusedIsEmpty, Shrinks
<1>4. RunIsKnown'
  BY <1>1 DEF RunIsKnown, HasWork, Shrinks
<1> QED
  BY <1>1, <1>2, <1>3, <1>4

\* ... and its drain, which was not idle, is over.
LEMMA FinallyStep ==
  ASSUME IInv, NEW q \in Queues, drain[q].at # "idle",
         NEW R, Shrinks(R, queue[q]), queue' = [queue EXCEPT ![q] = R],
         Finally(q, R), UNCHANGED created,
         Cleared' <=> Cleared, Disturbed' <=> Disturbed
  PROVE  /\ ObjectTypes' /\ DrainTypes' /\ KeyTypes' /\ TurnHasKind' /\ DrainOfKey'
         /\ UnusedIsEmpty' /\ RunIsKnown' /\ DrainInv' /\ NeverStranded'
<1> USE DEF IInv
<1>1. /\ ObjectTypes' /\ UnusedIsEmpty' /\ RunIsKnown'
      /\ queue'[q] = R /\ \A x \in Queues : x # q => queue'[x] = queue[x]
  BY ShrinkStep
<1>2. /\ DrainTypes'
      /\ callback' \in BOOLEAN /\ current' \in {0, current}
      /\ \A x \in Queues :
           \/ x # q /\ drain'[x] = drain[x]
           \/ x = q /\ drain'[x].at = "idle"
           \/ x = current /\ drain'[x].at = "debounce" /\ HasWork(R)
      /\ ~HasWork(R) => current' = 0
      /\ HasWork(R) => current' = current /\ (current = 0 \/ drain'[current].at # "idle")
  BY FinallyEffect
<1>3. KeyTypes'
  BY <1>2 DEF Types, KeyTypes
<1>4. TurnHasKind'
  BY <1>2 DEF TurnHasKind
<1>5. Cleared \/ (current = q /\ \A x \in Queues : x # q => drain[x].at = "idle")
  BY DEF DrainOfKey
<1>6. DrainOfKey'
  <2>1. CASE Cleared
    BY <2>1 DEF DrainOfKey
  <2>2. CASE ~Cleared
    <3> SUFFICES ASSUME NEW x \in Queues, drain'[x].at # "idle" PROVE current' = x
      BY DEF DrainOfKey
    <3> QED
      BY <1>2, <1>5, <2>2
  <2> QED
    BY <2>1, <2>2
<1>7. Cleared => Disturbed
  BY DEF Cleared, Disturbed
<1>8. DrainInv'
  BY <1>1, <1>2, <1>5, <1>7 DEF DrainInv
<1>9. NeverStranded'
  BY <1>2 DEF NeverStranded
<1> QED
  BY <1>1, <1>2, <1>3, <1>4, <1>6, <1>8, <1>9

-----------------------------------------------------------------------------
(* Every step keeps the invariant                                           *)

\* A turn resolves: what is left of the object is drained on, or nothing is.
LEMMA TurnEndsStep ==
  ASSUME IInv, NEW q \in Queues, TurnEnds(q)
  PROVE  IInv'
<1> USE DEF IInv
<1> DEFINE D == drain[q]
           R == AfterTurn(D, queue[q])
<1>1. /\ D.at = "turn" /\ queue' = [queue EXCEPT ![q] = R]
      /\ UNCHANGED <<created, recent, clears, discarded, mishaps>>
  BY DEF TurnEnds
<1>2. D \in DrainStates /\ queue[q] \in QueueObjects /\ Len(queue[q].items) <= Cap
      /\ D.kind # "none"
  BY <1>1 DEF Types, ObjectTypes, DrainTypes, TurnHasKind
<1>3. /\ Shrinks(R, queue[q])
      /\ R.dropped # {} => D.kind = "one" \/ (D.kind = "batch" /\ D.summary = {})
  BY <1>2, AfterTurnObject DEF Shrinks
<1> HIDE DEF R
<1>4. /\ ObjectTypes' /\ UnusedIsEmpty' /\ RunIsKnown'
      /\ queue'[q] = R /\ \A x \in Queues : x # q => queue'[x] = queue[x]
  BY <1>1, <1>3, ShrinkStep
<1>5. (Cleared' <=> Cleared) /\ (Disturbed' <=> Disturbed)
  BY <1>1 DEF Cleared, Disturbed
<1>6. HistoryTypes'
  <2>1. ToSet(D.turn) \subseteq Messages /\ D.summary \subseteq Messages
    BY <1>2 DEF DrainStates, ToSet
  <2>2. /\ delivered' = delivered \cup ToSet(D.turn)
        /\ twice' = twice \cup (delivered \cap ToSet(D.turn))
        /\ told' = told \cup D.summary
    BY DEF TurnEnds
  <2> QED
    BY <1>1, <2>1, <2>2 DEF Types, HistoryTypes
<1>7. DroppedHasItem'
  <2> SUFFICES ASSUME ~Disturbed, NEW x \in Queues, queue'[x].dropped # {}
               PROVE  /\ queue'[x].policy = "summarize"
                      /\ queue'[x].items # <<>> \/ queue'[x].mode = "collect"
    BY <1>5 DEF DroppedHasItem
  <2>1. CASE x # q
    BY <1>4, <2>1 DEF DroppedHasItem
  <2>2. CASE x = q
    <3>1. queue[q].dropped # {} /\ R.policy = queue[q].policy /\ R.mode = queue[q].mode
      BY <1>3, <1>4, <2>2 DEF Shrinks
    <3>2. queue[q].mode = "collect"
      BY <1>1, <1>3, <1>4, <2>2, <3>1 DEF DrainInv
    <3> QED
      BY <1>4, <2>2, <3>1, <3>2 DEF DroppedHasItem
  <2> QED
    BY <2>1, <2>2
<1>8. CASE HasWork(R) /\ UNCHANGED <<current, callback>>
           /\ drain' = [drain EXCEPT ![q] = [NoDrain EXCEPT !.at = "debounce",
                                                            !.forced = D.forced]]
  <2> DEFINE d == [NoDrain EXCEPT !.at = "debounce", !.forced = D.forced]
  <2>1. d \in DrainStates /\ d.at = "debounce"
    <3>1. NoDrain \in DrainStates /\ D.forced \in BOOLEAN
      BY <1>2, DrainRecords DEF DrainStates
    <3> QED
      BY <3>1 DEF DrainStates
  <2> HIDE DEF d
  <2>2. /\ drain' \in [Queues -> DrainStates] /\ drain'[q] = d
        /\ \A x \in Queues : x # q => drain'[x] = drain[x]
    BY <1>8, <2>1 DEF Types, DrainTypes, d
  <2>3. DrainTypes' /\ KeyTypes' /\ TurnHasKind'
    BY <1>1, <1>8, <2>1, <2>2 DEF Types, DrainTypes, KeyTypes, TurnHasKind
  <2>4. DrainOfKey'
    BY <1>1, <1>5, <1>8, <2>2 DEF DrainOfKey
  <2>5. DrainInv'
    BY <1>4, <1>5, <1>8, <2>1, <2>2 DEF DrainInv
  <2>6. NeverStranded'
    <3> SUFFICES ASSUME current # 0, callback, queue'[current].items # <<>>, ~Cleared
                 PROVE  drain'[current].at # "idle"
      BY <1>1, <1>8 DEF NeverStranded, Cleared
    <3>1. current = q
      BY <1>1 DEF DrainOfKey
    <3> QED
      BY <2>1, <2>2, <3>1
  <2> QED
    BY <1>4, <1>6, <1>7, <2>3, <2>4, <2>5, <2>6 DEF Types
<1>9. CASE Finally(q, R)
  BY <1>1, <1>3, <1>4, <1>5, <1>6, <1>7, <1>9, FinallyStep DEF Types
<1> QED
  BY <1>8, <1>9 DEF TurnEnds, R

\* An object that keeps what it has, and its drain is over.
LEMMA OverStep ==
  ASSUME IInv, NEW q \in Queues, drain[q].at # "idle", Finally(q, queue[q]),
         UNCHANGED <<queue, created, recent, clears, fates>>,
         mishaps' \in {mishaps, mishaps \cup {"summaryTurn"}}
  PROVE  IInv'
<1> USE DEF IInv
<1>1. queue' = [queue EXCEPT ![q] = queue[q]] /\ Shrinks(queue[q], queue[q])
  BY DEF Types, ObjectTypes, Shrinks
<1>2. (Cleared' <=> Cleared) /\ (Disturbed' <=> Disturbed)
  BY DEF Cleared, Disturbed
<1>3. HistoryTypes' /\ DroppedHasItem'
  BY <1>2 DEF Types, HistoryTypes, DroppedHasItem, fates, Mishaps
<1> QED
  BY <1>1, <1>2, <1>3, FinallyStep DEF Types

\* A turn rejects.
LEMMA TurnFailsStep ==
  ASSUME IInv, NEW q \in Queues, TurnFails(q)
  PROVE  IInv'
BY OverStep DEF TurnFails

\* The drain of an idle key begins, or its empty object is deleted.
LEMMA ScheduleDrainStep ==
  ASSUME IInv, ScheduleDrain
  PROVE  IInv'
<1> USE DEF IInv
<1>1. /\ current \in Queues /\ drain[current].at = "idle" /\ callback' = TRUE
      /\ UNCHANGED <<queue, created, recent, clears, fates, mishaps>>
  BY FollowupAssumption DEF ScheduleDrain, BeginDrain, Types, KeyTypes, Queues
<1>2. (Cleared' <=> Cleared) /\ (Disturbed' <=> Disturbed)
  BY <1>1 DEF Cleared, Disturbed
<1>3. /\ ObjectTypes' /\ HistoryTypes' /\ UnusedIsEmpty' /\ RunIsKnown'
      /\ DroppedHasItem'
  BY <1>1, <1>2
     DEF Types, ObjectTypes, HistoryTypes, UnusedIsEmpty, RunIsKnown, DroppedHasItem, fates
<1>4. CASE HasWork(queue[current]) /\ UNCHANGED current
           /\ drain' = [drain EXCEPT ![current] = Debounce]
  <2>1. /\ drain' \in [Queues -> DrainStates] /\ drain'[current].at = "debounce"
        /\ \A x \in Queues : x # current => drain'[x] = drain[x]
    BY <1>1, <1>4, DrainRecords DEF Types, DrainTypes
  <2>2. DrainTypes' /\ KeyTypes' /\ TurnHasKind'
    BY <1>1, <1>4, <2>1 DEF Types, DrainTypes, KeyTypes, TurnHasKind
  <2>3. DrainOfKey' /\ DrainInv' /\ NeverStranded'
    BY <1>1, <1>2, <1>4, <2>1 DEF DrainOfKey, DrainInv, NeverStranded
  <2> QED
    BY <1>3, <2>2, <2>3 DEF Types
<1>5. CASE current' = 0 /\ UNCHANGED drain
  <2>1. DrainTypes' /\ KeyTypes' /\ TurnHasKind'
    BY <1>1, <1>5 DEF Types, DrainTypes, KeyTypes, TurnHasKind
  <2>2. DrainOfKey' /\ DrainInv' /\ NeverStranded'
    BY <1>1, <1>2, <1>5 DEF DrainOfKey, DrainInv, NeverStranded
  <2> QED
    BY <1>3, <2>1, <2>2 DEF Types
<1> QED
  BY <1>4, <1>5 DEF ScheduleDrain, BeginDrain, Debounce

\* A reset empties the object and forgets the key.
LEMMA ClearStep ==
  ASSUME IInv, Clear
  PROVE  IInv'
<1> USE DEF IInv
<1> DEFINE Q == queue[current]
           R == [Q EXCEPT !.items = <<>>, !.dropped = {}, !.lastRun = FALSE]
<1>1. /\ current \in Queues /\ queue' = [queue EXCEPT ![current] = R]
      /\ current' = 0 /\ callback' = FALSE /\ clears' = clears + 1 /\ clears < MaxClears
      /\ discarded' = discarded \cup ToSet(Q.items) \cup Q.dropped
      /\ mishaps' = mishaps \cup {x \in {"clearedInDrain"} : drain[current].at # "idle"}
      /\ UNCHANGED <<drain, created, recent, delivered, twice, told>>
  BY FollowupAssumption DEF Clear, Types, KeyTypes, Queues
<1>2. Q \in QueueObjects
  BY <1>1 DEF Types, ObjectTypes
<1>3. R \in QueueObjects /\ R.items = <<>> /\ R.dropped = {}
  <2>1. <<>> \in Seq(Messages) /\ {} \in SUBSET Messages
    OBVIOUS
  <2> QED
    BY <1>2, <2>1 DEF QueueObjects
<1>4. ToSet(Q.items) \subseteq Messages /\ Q.dropped \subseteq Messages
  BY <1>2 DEF QueueObjects, ToSet
<1> HIDE DEF R, Q
<1>5. queue'[current] = R /\ \A x \in Queues : x # current => queue'[x] = queue[x]
  BY <1>1 DEF Types, ObjectTypes
<1>6. /\ Cleared => Cleared' /\ Disturbed'
      /\ Disturbed => Disturbed'
      /\ ~Disturbed' => drain[current].at = "idle"
      /\ ~Cleared' => drain[current].at = "idle"
  BY <1>1 DEF Cleared, Disturbed
<1>7. ObjectTypes'
  <2>1. Len(R.items) <= Cap
    BY <1>3, FollowupAssumption
  <2> QED
    BY <1>1, <1>3, <1>5, <2>1 DEF Types, ObjectTypes
<1>8. DrainTypes' /\ KeyTypes' /\ TurnHasKind'
  <2>1. DrainTypes' /\ TurnHasKind'
    BY <1>1 DEF Types, DrainTypes, TurnHasKind
  <2>2. created \in 0 .. MaxQueues /\ created' = created /\ current' = 0
    BY <1>1 DEF Types, KeyTypes
  <2>3. KeyTypes'
    <3>1. callback' \in BOOLEAN
      BY <1>1
    <3>2. created' \in 0 .. MaxQueues /\ current' \in 0 .. created'
      BY <2>2, FollowupAssumption
    <3> QED
      BY <3>1, <3>2 DEF KeyTypes
  <2> QED
    BY <2>1, <2>3
<1>9. HistoryTypes'
  <2>1. clears' \in 0 .. MaxClears
    BY <1>1, FollowupAssumption DEF Types, HistoryTypes
  <2>2. mishaps' \subseteq Mishaps
    BY <1>1 DEF Types, HistoryTypes, Mishaps
  <2>3. (delivered \cup twice \cup told \cup discarded)' \subseteq Messages
    BY <1>1, <1>4 DEF Types, HistoryTypes
  <2>4. recent' \subseteq Messages
    BY <1>1 DEF Types, HistoryTypes
  <2> QED
    BY <2>1, <2>2, <2>3, <2>4 DEF HistoryTypes
<1>10. UnusedIsEmpty' /\ RunIsKnown' /\ NeverStranded'
  BY <1>1, <1>3, <1>5 DEF UnusedIsEmpty, RunIsKnown, HasWork, NeverStranded
<1>11. DrainOfKey'
  BY <1>1, <1>6 DEF DrainOfKey
<1>12. DroppedHasItem'
  BY <1>3, <1>5, <1>6 DEF DroppedHasItem
<1>13. DrainInv'
  BY <1>1, <1>5, <1>6 DEF DrainInv
<1> QED
  BY <1>7, <1>8, <1>9, <1>10, <1>11, <1>12, <1>13 DEF Types

-----------------------------------------------------------------------------
(* The debounce of a drain is over                                          *)

\* A turn begins.
LEMMA BeginTurnStep ==
  ASSUME IInv, NEW q \in Queues, drain[q].at # "idle",
         NEW kind \in {"one", "batch", "summary"}, NEW turn \in Seq(Messages),
         NEW summary \in SUBSET Messages, NEW forced \in BOOLEAN,
         BeginTurn(q, kind, turn, summary, forced),
         UNCHANGED <<queue, created, recent, clears, fates>>,
         mishaps' \in {mishaps, mishaps \cup {"summaryTurn"}},
         ~Disturbed =>
           /\ turn # <<>> \/ summary # {}
           /\ kind = "one" => queue[q].dropped = {} \/ queue[q].mode = "collect"
           /\ kind = "batch" => queue[q].dropped = {} \/ summary # {}
  PROVE  IInv'
<1> USE DEF IInv
<1> DEFINE d == [at |-> "turn", forced |-> forced, kind |-> kind, turn |-> turn,
                 summary |-> summary]
<1>1. /\ d \in DrainStates /\ d.at = "turn" /\ d.kind = kind
      /\ d.turn = turn /\ d.summary = summary
  BY DEF DrainStates
<1>2. drain' = [drain EXCEPT ![q] = d] /\ UNCHANGED <<current, callback>>
  BY DEF BeginTurn
<1> HIDE DEF d
<1>3. /\ drain' \in [Queues -> DrainStates] /\ drain'[q] = d
      /\ \A x \in Queues : x # q => drain'[x] = drain[x]
  BY <1>1, <1>2 DEF Types, DrainTypes
<1>4. (Cleared' <=> Cleared) /\ (Disturbed' <=> Disturbed)
  BY DEF Cleared, Disturbed
<1>5. /\ ObjectTypes' /\ HistoryTypes' /\ UnusedIsEmpty' /\ RunIsKnown'
      /\ DroppedHasItem'
  BY <1>4 DEF Types, ObjectTypes, HistoryTypes, UnusedIsEmpty, RunIsKnown,
              DroppedHasItem, fates, Mishaps
<1>6. DrainTypes' /\ KeyTypes' /\ TurnHasKind'
  BY <1>1, <1>2, <1>3 DEF Types, DrainTypes, KeyTypes, TurnHasKind
<1>7. DrainOfKey'
  BY <1>2, <1>3, <1>4 DEF DrainOfKey
<1>8. DrainInv'
  BY <1>1, <1>3, <1>4 DEF DrainInv
<1>9. NeverStranded'
  <2> SUFFICES ASSUME current # 0, callback, queue[current].items # <<>>, ~Cleared
               PROVE  drain'[current].at # "idle"
    BY <1>2, <1>4 DEF NeverStranded, Cleared
  <2>1. current = q
    BY DEF DrainOfKey
  <2> QED
    BY <1>1, <1>3, <2>1
<1> QED
  BY <1>5, <1>6, <1>7, <1>8, <1>9 DEF Types

\* The loop is left; a drain that would find the same again has been disturbed.
LEMMA BreakStep ==
  ASSUME IInv, NEW q \in Queues, drain[q].at # "idle", Break(q),
         UNCHANGED <<queue, created, recent, clears, fates, mishaps>>,
         HasWork(queue[q]) /\ queue[q].mode = "followup" => Disturbed
  PROVE  IInv'
<1> USE DEF IInv
<1>1. CASE current = q /\ HasWork(queue[q]) /\ queue[q].mode = "followup"
  <2>1. /\ drain' = [drain EXCEPT ![q] = [drain[q] EXCEPT !.at = "spinning"]]
        /\ UNCHANGED <<current, callback>>
    BY <1>1 DEF Break
  <2> DEFINE d == [drain[q] EXCEPT !.at = "spinning"]
  <2>2. d \in DrainStates /\ d.at = "spinning"
    BY DEF Types, DrainTypes, DrainStates
  <2> HIDE DEF d
  <2>3. /\ drain' \in [Queues -> DrainStates] /\ drain'[q] = d
        /\ \A x \in Queues : x # q => drain'[x] = drain[x]
    BY <2>1, <2>2 DEF Types, DrainTypes, d
  <2>4. (Cleared' <=> Cleared) /\ (Disturbed' <=> Disturbed) /\ Disturbed
    BY <1>1 DEF Cleared, Disturbed
  <2>5. /\ ObjectTypes' /\ HistoryTypes' /\ UnusedIsEmpty' /\ RunIsKnown'
        /\ DroppedHasItem' /\ DrainInv'
    BY <2>4 DEF Types, ObjectTypes, HistoryTypes, UnusedIsEmpty, RunIsKnown,
                DroppedHasItem, DrainInv, fates
  <2>6. DrainTypes' /\ KeyTypes' /\ TurnHasKind'
    BY <2>1, <2>2, <2>3 DEF Types, DrainTypes, KeyTypes, TurnHasKind
  <2>7. DrainOfKey' /\ NeverStranded'
    BY <1>1, <2>1, <2>2, <2>3, <2>4 DEF DrainOfKey, NeverStranded
  <2> QED
    BY <2>5, <2>6, <2>7 DEF Types
<1>2. CASE Finally(q, queue[q])
  BY <1>2, OverStep
<1> QED
  BY <1>1, <1>2 DEF Break

\* The state in which a drain decides.
LEMMA DrainStepKinds ==
  ASSUME IInv, NEW q \in Queues, drain[q].at = "debounce"
  PROVE  /\ queue[q] \in QueueObjects /\ drain[q].forced \in BOOLEAN
         /\ queue[q].items # <<>> => /\ Head(queue[q].items) \in Messages
                                     /\ <<Head(queue[q].items)>> # <<>>
                                     /\ <<Head(queue[q].items)>> \in Seq(Messages)
         /\ ~Disturbed => /\ HasWork(queue[q])
                          /\ queue[q].dropped # {} => Summarizes(queue[q])
                          /\ queue[q].dropped # {} /\ queue[q].mode = "followup"
                               => queue[q].items # <<>>
         /\ HasWork(queue[q]) => queue[q].lastRun
<1> USE DEF IInv
<1>1. /\ queue[q] \in QueueObjects /\ drain[q] \in DrainStates
  BY DEF Types, ObjectTypes, DrainTypes
<1>2. drain[q].forced \in BOOLEAN /\ queue[q].items \in Seq(Messages)
  BY <1>1 DEF QueueObjects, DrainStates
<1>3. queue[q].items # <<>> => Head(queue[q].items) \in Messages
  BY <1>2
<1>4. ASSUME ~Disturbed
      PROVE  /\ HasWork(queue[q])
             /\ queue[q].dropped # {} => Summarizes(queue[q])
             /\ queue[q].dropped # {} /\ queue[q].mode = "followup" => queue[q].items # <<>>
  BY <1>4 DEF DrainInv, DroppedHasItem, Summarizes
<1>5. HasWork(queue[q]) => queue[q].lastRun
  BY DEF RunIsKnown
<1> QED
  BY <1>1, <1>2, <1>3, <1>4, <1>5

LEMMA CollectStepKeeps ==
  ASSUME IInv, NEW q \in Queues, drain[q].at = "debounce", CollectStep(q),
         UNCHANGED <<queue, created, recent, clears, fates>>
  PROVE  IInv'
<1> DEFINE Q == queue[q]
           summary == IF Summarizes(Q) THEN Q.dropped ELSE {}
<1>1. Q.mode = "collect" /\ mishaps' = mishaps /\ drain[q].at # "idle"
  BY DEF CollectStep
<1>2. /\ Q \in QueueObjects
      /\ Q.items # <<>> => <<Head(Q.items)>> # <<>> /\ <<Head(Q.items)>> \in Seq(Messages)
      /\ ~Disturbed => HasWork(Q) /\ (Q.dropped # {} => Summarizes(Q))
  BY DrainStepKinds
<1>3. Q.items \in Seq(Messages) /\ summary \in SUBSET Messages
  BY <1>2 DEF QueueObjects
<1>4. ~Disturbed => summary = Q.dropped /\ (Q.items # <<>> \/ Q.dropped # {})
  BY <1>2 DEF HasWork
<1>5. CASE Q.items # <<>> /\ BeginTurn(q, "one", <<Head(Q.items)>>, {}, TRUE)
  BY <1>1, <1>2, <1>5, BeginTurnStep
<1>6. CASE BeginTurn(q, "batch", Q.items, summary, FALSE)
  <2> HIDE DEF summary
  <2> QED
    BY <1>1, <1>3, <1>4, <1>6, BeginTurnStep
<1>7. CASE Break(q)
  BY <1>1, <1>7, BreakStep
<1> QED
  BY <1>5, <1>6, <1>7 DEF CollectStep

LEMMA FollowupStepKeeps ==
  ASSUME IInv, NEW q \in Queues, drain[q].at = "debounce", FollowupStep(q),
         UNCHANGED <<queue, created, recent, clears, fates>>
  PROVE  IInv'
<1> DEFINE Q == queue[q]
<1>1. Q.mode = "followup" /\ drain[q].at # "idle"
  BY DEF FollowupStep
<1>2. /\ Q \in QueueObjects /\ drain[q].forced \in BOOLEAN
      /\ Q.items # <<>> => <<Head(Q.items)>> # <<>> /\ <<Head(Q.items)>> \in Seq(Messages)
      /\ ~Disturbed => (Q.dropped # {} => Summarizes(Q) /\ Q.items # <<>>)
      /\ HasWork(Q) => Q.lastRun
  BY <1>1, DrainStepKinds
<1>3. Q.dropped \in SUBSET Messages /\ {} \in SUBSET Messages /\ <<>> \in Seq(Messages)
  BY <1>2 DEF QueueObjects
<1>4. CASE /\ Q.items # <<>> /\ Summarizes(Q)
           /\ BeginTurn(q, "summary", <<>>, Q.dropped, drain[q].forced)
           /\ mishaps' = mishaps \cup {"summaryTurn"}
  <2>1. Q.dropped # {}
    BY <1>4 DEF Summarizes
  <2> QED
    BY <1>1, <1>2, <1>3, <1>4, <2>1, BeginTurnStep
<1>5. CASE /\ Q.items # <<>> /\ ~Summarizes(Q) /\ UNCHANGED mishaps
           /\ BeginTurn(q, "one", <<Head(Q.items)>>, {}, drain[q].forced)
  BY <1>1, <1>2, <1>3, <1>5, BeginTurnStep
<1>6. CASE /\ Q.items = <<>> \/ (Summarizes(Q) /\ ~Q.lastRun)
           /\ Break(q) /\ UNCHANGED mishaps
  <2>1. Summarizes(Q) => HasWork(Q)
    BY DEF Summarizes, HasWork
  <2>2. HasWork(Q) => Disturbed
    BY <1>2, <1>6, <2>1 DEF HasWork
  <2> QED
    BY <1>1, <1>6, <2>2, BreakStep
<1> QED
  BY <1>4, <1>5, <1>6 DEF FollowupStep

\* A drain after its debounce.
LEMMA DrainStepKeeps ==
  ASSUME IInv, NEW q \in Queues, DrainStep(q)
  PROVE  IInv'
BY CollectStepKeeps, FollowupStepKeeps DEF DrainStep

-----------------------------------------------------------------------------
(* A message arrives                                                        *)

\* The object that takes it: that of the key, or a new one, which is empty.
LEMMA KeyObject ==
  ASSUME IInv, QueueOfKey \in Queues
  PROVE  LET q == QueueOfKey IN
         /\ q \in Nat /\ created \in Nat /\ current \in {0, q}
         /\ current = 0 => queue[q].items = <<>> /\ queue[q].dropped = {}
         /\ \A x \in Queues : drain[x].at # "idle" => Cleared \/ q = x
<1> USE DEF IInv
<1>1. created \in Nat /\ current \in Nat
  BY FollowupAssumption DEF Types, KeyTypes
<1>2. CASE current = 0
  <2>1. QueueOfKey = created + 1 /\ QueueOfKey > created
    BY <1>1, <1>2 DEF QueueOfKey
  <2>2. queue[QueueOfKey].items = <<>> /\ queue[QueueOfKey].dropped = {}
    BY <2>1 DEF UnusedIsEmpty
  <2>3. \A x \in Queues : drain[x].at # "idle" => Cleared
    BY <1>2, FollowupAssumption DEF DrainOfKey, Queues
  <2> QED
    BY <1>1, <1>2, <2>1, <2>2, <2>3
<1>3. CASE current # 0
  BY <1>1, <1>3 DEF QueueOfKey, DrainOfKey
<1> QED
  BY <1>2, <1>3

\* What is common to a message that is accepted and one that is not: the object
\* R keeps the settings of the moment, and a change of what it had dropped is
\* a mishap, unless it belongs to the summary.
LEMMA StoreStep ==
  ASSUME IInv, NEW q, q = QueueOfKey, q \in Queues, NEW R \in QueueObjects,
         Len(R.items) <= Cap,
         queue' = [queue EXCEPT ![q] = R], current' = q,
         created' = (IF q > created THEN q ELSE created), callback' = callback,
         HistoryTypes', Cleared' <=> Cleared, Disturbed => Disturbed',
         R.items # <<>> \/ queue[q].items = <<>>,
         HasWork(R) => R.lastRun,
         ~Disturbed' /\ R.dropped # {} =>
           /\ R.policy = "summarize"
           /\ R.items # <<>> \/ R.mode = "collect"
           /\ \/ queue[q].dropped # {} /\ R.mode = queue[q].mode
              \/ drain[q].at # "turn",
         HasWork(queue[q]) => HasWork(R),
         \/ UNCHANGED drain
         \/ drain[q].at = "idle" /\ HasWork(R) /\ drain' = [drain EXCEPT ![q] = Debounce],
         R.items = queue[q].items \/ ~callback \/ drain'[q].at # "idle"
  PROVE  IInv'
<1> USE DEF IInv
<1>1. /\ q \in Nat /\ created \in Nat /\ current \in {0, q}
      /\ current = 0 => queue[q].items = <<>> /\ queue[q].dropped = {}
      /\ \A x \in Queues : drain[x].at # "idle" => Cleared \/ q = x
  BY KeyObject
<1>2. queue'[q] = R /\ \A x \in Queues : x # q => queue'[x] = queue[x]
  BY DEF Types, ObjectTypes
<1>3. ObjectTypes'
  BY <1>2 DEF Types, ObjectTypes
<1>4. /\ drain' \in [Queues -> DrainStates]
      /\ drain'[q] = drain[q] \/ (drain[q].at = "idle" /\ HasWork(R)
                                  /\ drain'[q].at = "debounce")
      /\ \A x \in Queues : x # q => drain'[x] = drain[x]
  BY DrainRecords DEF Types, DrainTypes
<1>5. KeyTypes'
  <2>1. created' \in 0 .. MaxQueues /\ current' \in 0 .. created'
    BY <1>1, FollowupAssumption DEF Types, KeyTypes, Queues
  <2>2. callback' \in BOOLEAN
    BY DEF Types, KeyTypes
  <2> QED
    BY <2>1, <2>2 DEF KeyTypes
<1>6. DrainTypes' /\ TurnHasKind'
  BY <1>4 DEF Types, DrainTypes, TurnHasKind
<1>7. DrainOfKey'
  BY <1>1, <1>4 DEF DrainOfKey
<1>8. UnusedIsEmpty'
  <2> SUFFICES ASSUME NEW x \in Queues, x > created'
               PROVE  queue'[x].items = <<>> /\ queue'[x].dropped = {}
    BY DEF UnusedIsEmpty
  <2>1. x > created /\ x # q
    BY <1>1 DEF Queues
  <2> QED
    BY <1>2, <2>1 DEF UnusedIsEmpty
<1>9. RunIsKnown'
  BY <1>2 DEF RunIsKnown
<1>10. DroppedHasItem'
  BY <1>2 DEF DroppedHasItem
<1>11. DrainInv'
  <2> SUFFICES ASSUME ~Disturbed', NEW x \in Queues
               PROVE  /\ drain'[x].at # "spinning"
                      /\ drain'[x].at = "debounce" => HasWork(queue'[x])
                      /\ drain'[x].at = "turn" =>
                           /\ drain'[x].turn # <<>> \/ drain'[x].summary # {}
                           /\ drain'[x].kind = "one" =>
                                queue'[x].dropped = {} \/ queue'[x].mode = "collect"
                           /\ drain'[x].kind = "batch" =>
                                queue'[x].dropped = {} \/ drain'[x].summary # {}
    BY DEF DrainInv
  <2>1. CASE x # q
    BY <1>2, <1>4, <2>1 DEF DrainInv
  <2>2. CASE x = q /\ drain'[q] = drain[q]
    BY <1>2, <1>4, <2>2 DEF DrainInv
  <2>3. CASE x = q /\ HasWork(R) /\ drain'[q].at = "debounce"
    BY <1>2, <2>3
  <2> QED
    BY <1>4, <2>1, <2>2, <2>3
<1>12. NeverStranded'
  BY <1>1, <1>2, <1>4 DEF NeverStranded, Cleared
<1> QED
  BY <1>3, <1>5, <1>6, <1>7, <1>8, <1>9, <1>10, <1>11, <1>12 DEF Types

LEMMA EnqueueStep ==
  ASSUME IInv, NEW m \in Messages, NEW mode \in Modes, NEW policy \in Policies,
         Enqueue(m, mode, policy)
  PROVE  IInv'
<1> DEFINE q == QueueOfKey
           O == queue[q]
           Q == [O EXCEPT !.mode = mode, !.policy = policy]
           full == Len(Q.items) >= Cap
           settings == O.dropped # {} /\ (policy # "summarize" \/ mode # O.mode)
           overflow == m \notin recent /\ full /\ policy # "new" /\ drain[q].at = "turn"
<1>1. /\ q \in Queues /\ created' = (IF q > created THEN q ELSE created)
      /\ mishaps' = mishaps
           \cup {x \in {"settingsChanged"} : /\ Q.dropped # {}
                                            /\ \/ policy # "summarize"
                                               \/ mode # queue[q].mode}
           \cup {x \in {"overflowInTurn"} : /\ m \notin recent /\ full
                                           /\ policy # "new"
                                           /\ drain[q].at = "turn"}
      /\ UNCHANGED <<clears, delivered, twice, told>>
  BY DEF Enqueue
<1>2. O \in QueueObjects /\ Len(O.items) <= Cap /\ (HasWork(O) => O.lastRun)
  BY <1>1 DEF IInv, Types, ObjectTypes, RunIsKnown
<1>3. /\ mode \in {"collect", "followup"} /\ policy \in {"summarize", "old", "new"}
      /\ Cap \in Nat \ {0}
  BY FollowupAssumption
<1>4. /\ Q \in QueueObjects
      /\ Q.items = O.items /\ Q.dropped = O.dropped /\ Q.lastRun = O.lastRun
      /\ Q.mode = mode /\ Q.policy = policy
  <2> HIDE DEF O
  <2> QED
    BY <1>2, <1>3 DEF QueueObjects
<1>5. Disturbed' => Disturbed \/ settings \/ overflow
  BY <1>1, <1>4 DEF Disturbed
<1>6. /\ Disturbed \/ settings \/ overflow => Disturbed'
      /\ Cleared' <=> Cleared
      /\ mishaps' \subseteq Mishaps
  BY <1>1, <1>4 DEF Disturbed, Cleared, IInv, Types, HistoryTypes, Mishaps
<1>7. ~Disturbed' /\ O.dropped # {} => policy = "summarize" /\ mode = O.mode
  BY <1>6
<1>8. ~Disturbed' /\ O.dropped # {} => O.items # <<>> \/ O.mode = "collect"
  BY <1>1, <1>6 DEF IInv, DroppedHasItem
<1> HIDE DEF q, O, Q
<1>9. CASE /\ m \in recent \/ (full /\ policy = "new")
           /\ queue' = [queue EXCEPT ![q] = [Q EXCEPT !.lastRun = @ \/ m \notin recent]]
           /\ current' = q
           /\ UNCHANGED <<drain, callback, recent, discarded>>
  <2> DEFINE known == Q.lastRun \/ m \notin recent
             R == [Q EXCEPT !.lastRun = known]
  <2>1. known \in BOOLEAN /\ (Q.lastRun => known)
    OBVIOUS
  <2>2. queue' = [queue EXCEPT ![q] = R]
    BY <1>9
  <2> HIDE DEF known
  <2>3. /\ R \in QueueObjects
        /\ R.items = O.items /\ R.dropped = O.dropped /\ R.lastRun = known
        /\ R.mode = mode /\ R.policy = policy
    BY <1>4, <2>1 DEF QueueObjects
  <2> HIDE DEF R
  <2>4. HistoryTypes'
    BY <1>1, <1>6, <1>9 DEF IInv, Types, HistoryTypes
  <2>5. (HasWork(R) => R.lastRun) /\ (HasWork(O) => HasWork(R))
    BY <1>2, <1>4, <2>1, <2>3 DEF HasWork
  <2>6. ~Disturbed' /\ R.dropped # {} =>
          /\ R.policy = "summarize"
          /\ R.items # <<>> \/ R.mode = "collect"
          /\ O.dropped # {} /\ R.mode = O.mode
    BY <1>7, <1>8, <2>3
  <2> QED
    BY <1>1, <1>2, <1>6, <1>9, <2>2, <2>3, <2>4, <2>5, <2>6, StoreStep DEF q, O
<1>10. CASE /\ m \notin recent /\ ~(full /\ policy = "new")
            /\ StoreAndKick(q, [Trim(Q) EXCEPT !.items = Append(@, m), !.lastRun = TRUE])
            /\ recent' = recent \cup {m}
            /\ discarded' = IF full /\ policy = "old"
                            THEN discarded \cup {Head(Q.items)} ELSE discarded
  <2> DEFINE R == Accepted(Q, m)
  <2>1. StoreAndKick(q, R)
    BY <1>10 DEF Accepted
  <2>2. /\ R \in QueueObjects /\ Len(R.items) <= Cap /\ R.items # <<>>
        /\ R.lastRun = TRUE /\ R.mode = mode /\ R.policy = policy
        /\ R.dropped = O.dropped \/ (full /\ policy = "summarize")
    BY <1>2, <1>4, AcceptedObject
  <2> HIDE DEF R
  <2>3. HasWork(R)
    BY <2>2 DEF HasWork
  <2>4. /\ queue' = [queue EXCEPT ![q] = R] /\ current' = q /\ callback' = callback
        /\ \/ UNCHANGED drain
           \/ drain[q].at = "idle" /\ drain' = [drain EXCEPT ![q] = Debounce]
    BY <2>1 DEF StoreAndKick, Debounce
  <2>5. ~callback \/ drain'[q].at # "idle"
    BY <1>1, <2>1, DrainRecords DEF StoreAndKick, Debounce, IInv, Types, DrainTypes
  <2>6. HistoryTypes'
    <3>1. full => Head(Q.items) \in Messages
      BY <1>3, <1>4 DEF QueueObjects
    <3>2. (delivered \cup twice \cup told \cup discarded)' \subseteq Messages
      BY <1>1, <1>10, <3>1 DEF IInv, Types, HistoryTypes
    <3>3. recent' \subseteq Messages /\ clears' \in 0 .. MaxClears
      BY <1>1, <1>10 DEF IInv, Types, HistoryTypes
    <3> QED
      BY <1>6, <3>2, <3>3 DEF HistoryTypes
  <2>7. ~Disturbed' /\ R.dropped # {} =>
          /\ R.policy = "summarize"
          /\ R.items # <<>> \/ R.mode = "collect"
          /\ \/ O.dropped # {} /\ R.mode = O.mode
             \/ drain[q].at # "turn"
    <3> SUFFICES ASSUME ~Disturbed', R.dropped # {}
                 PROVE  /\ policy = "summarize"
                        /\ \/ O.dropped # {} /\ mode = O.mode
                           \/ drain[q].at # "turn"
      BY <2>2
    <3>1. CASE R.dropped = O.dropped
      BY <1>7, <3>1
    <3>2. CASE full /\ policy = "summarize"
      BY <1>6, <1>10, <3>2
    <3> QED
      BY <2>2, <3>1, <3>2
  <2> QED
    BY <1>1, <1>6, <2>2, <2>3, <2>4, <2>5, <2>6, <2>7, StoreStep DEF q, O
<1> QED
  BY <1>9, <1>10 DEF Enqueue, q, O, Q

-----------------------------------------------------------------------------
LEMMA InitIInv ==
  ASSUME Init PROVE IInv
<1>1. NewQueue \in QueueObjects /\ NewQueue.items = <<>> /\ NewQueue.dropped = {}
      /\ ~HasWork(NewQueue)
  <2>1. <<>> \in Seq(Messages) /\ {} \in SUBSET Messages
    OBVIOUS
  <2> QED
    BY <2>1 DEF NewQueue, QueueObjects, HasWork
<1>2. /\ queue \in [Queues -> QueueObjects] /\ \A q \in Queues : queue[q] = NewQueue
      /\ drain \in [Queues -> DrainStates] /\ \A q \in Queues : drain[q].at = "idle"
  BY <1>1, DrainRecords DEF Init
<1>3. ObjectTypes /\ DrainTypes
  BY <1>1, <1>2, FollowupAssumption DEF ObjectTypes, DrainTypes
<1>4. KeyTypes /\ HistoryTypes
  <2>1. callback \in BOOLEAN
    BY DEF Init
  <2>2. created \in 0 .. MaxQueues /\ current \in 0 .. created /\ clears \in 0 .. MaxClears
    BY FollowupAssumption DEF Init
  <2>3. /\ recent \subseteq Messages /\ mishaps \subseteq Mishaps
        /\ delivered \cup twice \cup told \cup discarded \subseteq Messages
    BY DEF Init, Mishaps
  <2> QED
    BY <2>1, <2>2, <2>3 DEF KeyTypes, HistoryTypes
<1>5. TurnHasKind /\ DrainOfKey /\ UnusedIsEmpty /\ RunIsKnown
  BY <1>1, <1>2 DEF TurnHasKind, DrainOfKey, UnusedIsEmpty, RunIsKnown
<1>6. DroppedHasItem /\ DrainInv
  BY <1>1, <1>2 DEF DroppedHasItem, DrainInv
<1>7. NeverStranded
  BY DEF Init, NeverStranded
<1> QED
  BY <1>3, <1>4, <1>5, <1>6, <1>7 DEF IInv, Types

LEMMA NextIInv ==
  ASSUME IInv, [Next]_vars PROVE IInv'
<1>1. CASE \E m \in Messages, mode \in Modes, policy \in Policies : Enqueue(m, mode, policy)
  BY <1>1, EnqueueStep
<1>2. CASE ScheduleDrain
  BY <1>2, ScheduleDrainStep
<1>3. CASE Clear
  BY <1>3, ClearStep
<1>4. CASE \E q \in Queues : DrainStep(q) \/ TurnEnds(q) \/ TurnFails(q)
  BY <1>4, DrainStepKeeps, TurnEndsStep, TurnFailsStep
<1>5. CASE UNCHANGED vars
  BY <1>5 DEF vars, fates, IInv, Types, ObjectTypes, DrainTypes, KeyTypes, HistoryTypes,
              TurnHasKind, DrainOfKey, UnusedIsEmpty, RunIsKnown, DroppedHasItem,
              DrainInv, NeverStranded, Cleared, Disturbed
<1> QED
  BY <1>1, <1>2, <1>3, <1>4, <1>5 DEF Next

LEMMA IInvImplies ==
  ASSUME IInv PROVE Inv
<1> USE DEF IInv
<1>1. TypeOK
  <2>1. ASSUME NEW q \in Queues
        PROVE  /\ queue[q] \in QueueObjects /\ Len(queue[q].items) <= Cap
               /\ drain[q] \in DrainStates
    BY DEF Types, ObjectTypes, DrainTypes
  <2>2. created \in 0 .. MaxQueues /\ current \in 0 .. created /\ callback \in BOOLEAN
    BY DEF Types, KeyTypes
  <2>3. /\ recent \subseteq Messages /\ clears \in 0 .. MaxClears
        /\ delivered \cup twice \cup told \cup discarded \subseteq Messages
        /\ mishaps \subseteq Mishaps
    BY DEF Types, HistoryTypes
  <2> QED
    BY <2>1, <2>2, <2>3 DEF TypeOK, QueueObjects, DrainStates
<1>2. OneDrainPerSession
  <2> SUFFICES ASSUME ~Cleared
               PROVE  Cardinality({q \in Queues : drain[q].at # "idle"}) <= 1
    BY DEF OneDrainPerSession, Cleared
  <2> DEFINE draining == {q \in Queues : drain[q].at # "idle"}
  <2>1. draining \subseteq {current}
    BY DEF DrainOfKey
  <2>2. IsFiniteSet({current}) /\ Cardinality({current}) = 1
    BY FS_Singleton
  <2>3. Cardinality(draining) <= Cardinality({current})
    BY <2>1, <2>2, FS_Subset
  <2> QED
    BY <2>2, <2>3
<1>3. DrainHasWork
  BY DEF DrainHasWork, DrainInv, Disturbed
<1> QED
  BY <1>1, <1>2, <1>3 DEF Inv

\* A session with messages has one drain, and a drain has work: an accepted
\* message never waits for a run that need not come, and no turn is started
\* for nothing (enqueueFollowupRun, scheduleFollowupDrain, clearSessionQueues).
THEOREM SessionIsDrained == Spec => []Inv
<1>1. Init => IInv
  BY InitIInv
<1>2. IInv /\ [Next]_vars => IInv'
  BY NextIInv
<1>3. IInv => Inv
  BY IInvImplies
<1> QED
  BY <1>1, <1>2, <1>3, PTL DEF Spec
-----------------------------------------------------------------------------
(* No message is carried twice                                              *)

\* What the object q and its drain have of messages that are still to be carried.
TurnOf(q) == IF drain[q].at = "turn" THEN ToSet(drain[q].turn) ELSE {}
Stock(q) == ToSet(queue[q].items) \cup TurnOf(q)

\* A message is in one place: once in one object, and in its turn if at all.
ItemsDistinct ==
  \A q \in Queues : \A i, j \in 1 .. Len(queue[q].items) :
    queue[q].items[i] = queue[q].items[j] => i = j
StocksDisjoint == \A p, q \in Queues : p # q => Stock(p) \cap Stock(q) = {}

\* What is still to be carried was accepted and was not carried yet.
StockIsNew ==
  /\ delivered \subseteq recent
  /\ \A q \in Queues : Stock(q) \subseteq recent /\ Stock(q) \cap delivered = {}

\* Messages of a turn that are still in the object are within its first ones,
\* as many as are removed when the turn resolves.
TurnInFront ==
  \A q \in Queues : drain[q].at = "turn" =>
    /\ \A i \in 1 .. Len(queue[q].items) :
         queue[q].items[i] \in ToSet(drain[q].turn) => i <= Len(drain[q].turn)
    /\ drain[q].kind = "one" => Len(drain[q].turn) = 1
    /\ drain[q].kind = "summary" => Len(drain[q].turn) = 0

OnceInv == ItemsDistinct /\ StocksDisjoint /\ StockIsNew /\ TurnInFront /\ DeliveredOnce

\* The elements of a sequence.
LEMMA Elements ==
  ASSUME NEW s \in Seq(Messages)
  PROVE  /\ Len(s) \in Nat
         /\ \A m : m \in ToSet(s) <=> \E i \in 1 .. Len(s) : s[i] = m
BY DEF ToSet

\* The items of Trim(Q), one message longer: those of Q, maybe without the first.
LEMMA AcceptedItems ==
  ASSUME NEW Q \in QueueObjects, Len(Q.items) <= Cap, NEW m \in Messages
  PROVE  \E k \in {0, 1} :
           /\ Len(Accepted(Q, m).items) = Len(Q.items) - k + 1
           /\ k = 1 => Len(Q.items) >= Cap /\ Len(Q.items) >= 1
           /\ \A i \in 1 .. Len(Q.items) - k : Accepted(Q, m).items[i] = Q.items[i + k]
           /\ Accepted(Q, m).items[Len(Q.items) - k + 1] = m
<1> DEFINE T == Trim(Q)
<1>1. Cap \in Nat \ {0} /\ Q.items \in Seq(Messages) /\ Len(Q.items) \in Nat
  BY FollowupAssumption DEF QueueObjects
<1>2. T \in QueueObjects
  BY TrimObject
<1>3. T.items = IF Len(Q.items) < Cap THEN Q.items ELSE Tail(Q.items)
  BY DEF Trim, QueueObjects
<1>4. Accepted(Q, m).items = Append(T.items, m)
  BY <1>2 DEF Accepted, QueueObjects
<1> HIDE DEF T
<1>5. CASE Len(Q.items) < Cap
  <2>1. Accepted(Q, m).items = Append(Q.items, m)
    BY <1>3, <1>4, <1>5
  <2>2. /\ Len(Append(Q.items, m)) = Len(Q.items) + 1
        /\ Append(Q.items, m)[Len(Q.items) + 1] = m
        /\ \A i \in 1 .. Len(Q.items) : Append(Q.items, m)[i] = Q.items[i]
    BY <1>1, AppendProperties
  <2> QED
    BY <1>1, <2>1, <2>2
<1>6. CASE Len(Q.items) >= Cap
  <2> DEFINE s == Tail(Q.items)
  <2>1. /\ s \in Seq(Messages) /\ Len(s) = Len(Q.items) - 1
        /\ \A i \in 1 .. Len(s) : s[i] = Q.items[i + 1]
    BY <1>1, <1>6, HeadTailProperties
  <2>2. Accepted(Q, m).items = Append(s, m)
    BY <1>1, <1>3, <1>4, <1>6
  <2> HIDE DEF s
  <2>3. /\ Len(Append(s, m)) = Len(s) + 1 /\ Append(s, m)[Len(s) + 1] = m
        /\ \A i \in 1 .. Len(s) : Append(s, m)[i] = s[i]
    BY <2>1, AppendProperties
  <2> QED
    BY <1>1, <1>6, <2>1, <2>2, <2>3
<1> QED
  BY <1>1, <1>5, <1>6

\* How many items a finished turn removes.
Removed(D) == IF D.kind = "batch" THEN Len(D.turn) ELSE 1

LEMMA AfterTurnItems ==
  ASSUME NEW D \in DrainStates, NEW Q \in QueueObjects, D.kind # "none"
  PROVE  LET R == AfterTurn(D, Q) IN
         /\ R.items \in Seq(Messages) /\ Removed(D) \in Nat
         /\ Len(R.items) = IF Removed(D) <= Len(Q.items) THEN Len(Q.items) - Removed(D) ELSE 0
         /\ \A i \in 1 .. Len(R.items) : R.items[i] = Q.items[i + Removed(D)]
<1>1. /\ Q.items \in Seq(Messages) /\ D.turn \in Seq(Messages)
      /\ Len(Q.items) \in Nat /\ Len(D.turn) \in Nat
      /\ D.kind \in {"one", "batch", "summary"}
  BY DEF QueueObjects, DrainStates
<1>2. CASE D.kind \in {"one", "summary"}
  <2> DEFINE rest == IF Q.items = <<>> THEN Q.items ELSE Tail(Q.items)
  <2>1. AfterTurn(D, Q).items = rest
    BY <1>2 DEF AfterTurn, QueueObjects
  <2>2. /\ rest \in Seq(Messages)
        /\ Len(rest) = IF 1 <= Len(Q.items) THEN Len(Q.items) - 1 ELSE 0
        /\ \A i \in 1 .. Len(rest) : rest[i] = Q.items[i + 1]
    <3>1. CASE Q.items = <<>>
      BY <1>1, <3>1
    <3>2. CASE Q.items # <<>>
      BY <1>1, <3>2, HeadTailProperties
    <3> QED
      BY <3>1, <3>2
  <2> HIDE DEF rest
  <2> QED
    BY <1>2, <2>1, <2>2 DEF Removed
<1>3. CASE D.kind = "batch"
  <2> DEFINE m == Len(D.turn) + 1
             n == Len(Q.items)
             later == SubSeq(Q.items, m, n)
  <2>1. AfterTurn(D, Q).items = later
    BY <1>3 DEF AfterTurn, QueueObjects
  <2>2. m \in Int /\ n \in Int /\ \A i \in m .. n : Q.items[i] \in Messages
    BY <1>1
  <2> HIDE DEF m, n
  <2>3. /\ later \in Seq(Messages)
        /\ Len(later) = IF m <= n THEN n - m + 1 ELSE 0
        /\ \A i \in 1 .. n - m + 1 : later[i] = Q.items[m + i - 1]
    BY <2>2, SubSeqProperties
  <2> HIDE DEF later
  <2>4. \A i \in 1 .. Len(later) : later[i] = Q.items[i + Len(D.turn)]
    BY <1>1, <2>2, <2>3 DEF m, n
  <2>5. Len(later) = IF Len(D.turn) <= Len(Q.items) THEN Len(Q.items) - Len(D.turn) ELSE 0
    <3>1. m = Len(D.turn) + 1 /\ n = Len(Q.items)
      BY DEF m, n
    <3>2. CASE Len(D.turn) <= Len(Q.items)
      <4>1. Len(later) = IF m <= n THEN n - m + 1 ELSE 0
        BY <2>3
      <4>2. CASE m <= n
        BY <1>1, <3>1, <3>2, <4>1, <4>2
      <4>3. CASE ~(m <= n)
        BY <1>1, <3>1, <3>2, <4>1, <4>3
      <4> QED
        BY <4>2, <4>3
    <3>3. CASE ~(Len(D.turn) <= Len(Q.items))
      BY <1>1, <2>3, <3>1, <3>3
    <3> QED
      BY <3>2, <3>3
  <2>6. Removed(D) = Len(D.turn)
    BY <1>3 DEF Removed
  <2> QED
    BY <1>1, <2>1, <2>3, <2>4, <2>5, <2>6
<1> QED
  BY <1>1, <1>2, <1>3

\* Items stay or are cleared, turns end, or begin with the first items.
LEMMA OnceUnlessItems ==
  ASSUME IInv, IInv', OnceInv, UNCHANGED <<recent, delivered, twice>>,
         \A x \in Queues :
           /\ queue'[x].items = queue[x].items \/ queue'[x].items = <<>>
           /\ \/ drain'[x] = drain[x]
              \/ drain'[x].at # "turn"
              \/ /\ queue'[x].items = queue[x].items
                 /\ ToSet(drain'[x].turn) \subseteq ToSet(queue[x].items)
                 /\ \A i \in 1 .. Len(queue[x].items) :
                      queue[x].items[i] \in ToSet(drain'[x].turn) => i <= Len(drain'[x].turn)
                 /\ drain'[x].kind = "one" => Len(drain'[x].turn) = 1
                 /\ drain'[x].kind = "summary" => Len(drain'[x].turn) = 0
  PROVE  OnceInv'
<1>1. \A x \in Queues : /\ queue[x].items \in Seq(Messages) /\ queue'[x].items \in Seq(Messages)
                        /\ drain[x].turn \in Seq(Messages) /\ drain'[x].turn \in Seq(Messages)
  BY DEF IInv, Types, ObjectTypes, DrainTypes, QueueObjects, DrainStates
<1>2. \A x \in Queues : ToSet(queue'[x].items) \subseteq ToSet(queue[x].items)
  BY <1>1, Elements
<1>3. \A x \in Queues : Stock(x)' \subseteq Stock(x)
  BY <1>2 DEF Stock, TurnOf
<1>4. ItemsDistinct'
  BY <1>1 DEF OnceInv, ItemsDistinct
<1>5. StocksDisjoint' /\ StockIsNew' /\ DeliveredOnce'
  BY <1>3 DEF OnceInv, StocksDisjoint, StockIsNew, DeliveredOnce
<1>6. TurnInFront'
  <2> SUFFICES ASSUME NEW x \in Queues, drain'[x].at = "turn"
               PROVE  /\ \A i \in 1 .. Len(queue'[x].items) :
                           queue'[x].items[i] \in ToSet(drain'[x].turn) => i <= Len(drain'[x].turn)
                      /\ drain'[x].kind = "one" => Len(drain'[x].turn) = 1
                      /\ drain'[x].kind = "summary" => Len(drain'[x].turn) = 0
    BY DEF TurnInFront
  <2>1. CASE drain'[x] = drain[x]
    BY <1>1, <2>1 DEF OnceInv, TurnInFront
  <2>2. CASE drain'[x] # drain[x]
    BY <2>2
  <2> QED
    BY <2>1, <2>2
<1> QED
  BY <1>4, <1>5, <1>6 DEF OnceInv

\* A drain that is over leaves the other turns alone.
LEMMA FinallyTurns ==
  ASSUME IInv, NEW q \in Queues, NEW Q, Finally(q, Q)
  PROVE  \A x \in Queues : drain'[x] = drain[x] \/ drain'[x].at # "turn"
BY FinallyEffect DEF IInv

LEMMA OnceDrainStep ==
  ASSUME IInv, IInv', OnceInv, NEW q \in Queues, DrainStep(q)
  PROVE  OnceInv'
<1> DEFINE Q == queue[q]
<1>1. /\ Q.items \in Seq(Messages) /\ queue' = queue
      /\ UNCHANGED <<recent, delivered, twice>> /\ drain \in [Queues -> DrainStates]
  BY DEF DrainStep, fates, IInv, Types, ObjectTypes, DrainTypes, QueueObjects
<1>2. ASSUME NEW kind, NEW turn, NEW summary, NEW forced,
             BeginTurn(q, kind, turn, summary, forced),
             \/ kind = "one" /\ Q.items # <<>> /\ turn = <<Head(Q.items)>>
             \/ kind = "batch" /\ turn = Q.items
             \/ kind = "summary" /\ turn = <<>>
      PROVE  OnceInv'
  <2>1. /\ drain'[q].turn = turn /\ drain'[q].kind = kind
        /\ \A x \in Queues : x # q => drain'[x] = drain[x]
    BY <1>1, <1>2 DEF BeginTurn
  <2>2. /\ ToSet(turn) \subseteq ToSet(Q.items)
        /\ \A i \in 1 .. Len(Q.items) : Q.items[i] \in ToSet(turn) => i <= Len(turn)
        /\ kind = "one" => Len(turn) = 1
        /\ kind = "summary" => Len(turn) = 0
    <3>1. CASE kind = "one"
      <4>1. turn = <<Q.items[1]>> /\ 1 \in 1 .. Len(Q.items)
        BY <1>1, <1>2, <3>1
      <4>2. Len(turn) = 1 /\ ToSet(turn) = {Q.items[1]}
        BY <4>1 DEF ToSet
      <4>3. \A i \in 1 .. Len(Q.items) : Q.items[i] = Q.items[1] => i = 1
        BY <4>1 DEF OnceInv, ItemsDistinct
      <4> QED
        BY <1>1, <3>1, <4>1, <4>2, <4>3, Elements
    <3>2. CASE kind = "batch"
      BY <1>1, <1>2, <3>2
    <3>3. CASE kind = "summary"
      BY <1>1, <1>2, <3>3 DEF ToSet
    <3> QED
      BY <1>2, <3>1, <3>2, <3>3
  <2> QED
    BY <1>1, <2>1, <2>2, OnceUnlessItems
<1>3. CASE Break(q)
  <2>1. \A x \in Queues : drain'[x] = drain[x] \/ drain'[x].at # "turn"
    <3>1. CASE drain' = [drain EXCEPT ![q].at = "spinning"]
      BY <1>1, <3>1 DEF DrainStates
    <3>2. CASE Finally(q, Q)
      BY <3>2, FinallyTurns
    <3> QED
      BY <1>3, <3>1, <3>2 DEF Break
  <2> QED
    BY <1>1, <2>1, OnceUnlessItems
<1>4. CASE CollectStep(q)
  BY <1>2, <1>3, <1>4 DEF CollectStep
<1>5. CASE FollowupStep(q)
  BY <1>2, <1>3, <1>5 DEF FollowupStep
<1> QED
  BY <1>4, <1>5 DEF DrainStep

LEMMA OnceOthers ==
  ASSUME IInv, IInv', OnceInv,
         \/ ScheduleDrain \/ Clear \/ UNCHANGED vars
         \/ \E q \in Queues : TurnFails(q)
  PROVE  OnceInv'
<1>1. /\ queue \in [Queues -> QueueObjects] /\ drain \in [Queues -> DrainStates]
      /\ current \in {0} \cup Queues
  BY FollowupAssumption DEF IInv, Types, ObjectTypes, DrainTypes, KeyTypes, Queues
<1>2. CASE ScheduleDrain
  <2>1. \A x \in Queues : drain'[x] = drain[x] \/ drain'[x].at # "turn"
    BY <1>1, <1>2, DrainRecords DEF ScheduleDrain, BeginDrain, Debounce
  <2> QED
    BY <1>2, <2>1, OnceUnlessItems DEF ScheduleDrain, fates
<1>3. CASE Clear
  <2>1. UNCHANGED <<drain, recent, delivered, twice>>
    BY <1>3 DEF Clear
  <2>2. \A x \in Queues : queue'[x].items = queue[x].items \/ queue'[x].items = <<>>
    BY <1>1, <1>3 DEF Clear, QueueObjects
  <2> QED
    BY <2>1, <2>2, OnceUnlessItems
<1>4. CASE \E q \in Queues : TurnFails(q)
  <2>1. \A x \in Queues : drain'[x] = drain[x] \/ drain'[x].at # "turn"
    BY <1>4, FinallyTurns DEF TurnFails
  <2> QED
    BY <1>4, <2>1, OnceUnlessItems DEF TurnFails, fates
<1>5. CASE UNCHANGED vars
  BY <1>5, OnceUnlessItems DEF vars, fates
<1> QED
  BY <1>2, <1>3, <1>4, <1>5

\* A new message is nowhere yet, and joins the last place.
LEMMA OnceEnqueue ==
  ASSUME IInv, IInv', OnceInv,
         NEW m \in Messages, NEW mode \in Modes, NEW policy \in Policies,
         Enqueue(m, mode, policy)
  PROVE  OnceInv'
<1> DEFINE q == QueueOfKey
           O == queue[q]
           Q == [O EXCEPT !.mode = mode, !.policy = policy]
           full == Len(Q.items) >= Cap
<1>1. q \in Queues /\ UNCHANGED <<delivered, twice>>
  BY DEF Enqueue
<1>2. /\ O \in QueueObjects /\ Len(O.items) <= Cap
      /\ queue \in [Queues -> QueueObjects] /\ drain \in [Queues -> DrainStates]
  BY <1>1 DEF IInv, Types, ObjectTypes, DrainTypes
<1>3. Q \in QueueObjects /\ Q.items = O.items
  BY <1>2, FollowupAssumption DEF QueueObjects
<1>4. CASE /\ queue' = [queue EXCEPT ![q] = [Q EXCEPT !.lastRun = @ \/ m \notin recent]]
           /\ UNCHANGED <<drain, callback, recent, discarded>>
  <2>1. queue'[q].items = O.items
    BY <1>1, <1>2, <1>3, <1>4 DEF QueueObjects
  <2>2. \A x \in Queues : x # q => queue'[x] = queue[x]
    BY <1>1, <1>2, <1>4
  <2> QED
    BY <1>1, <1>4, <2>1, <2>2, OnceUnlessItems
<1>5. CASE /\ m \notin recent
           /\ StoreAndKick(q, [Trim(Q) EXCEPT !.items = Append(@, m), !.lastRun = TRUE])
           /\ recent' = recent \cup {m}
  <2> DEFINE R == Accepted(Q, m)
  <2>1. StoreAndKick(q, R)
    BY <1>5 DEF Accepted
  <2>2. PICK k \in {0, 1} :
          /\ Len(R.items) = Len(O.items) - k + 1
          /\ k = 1 => Len(O.items) >= Cap /\ Len(O.items) >= 1
          /\ \A i \in 1 .. Len(O.items) - k : R.items[i] = O.items[i + k]
          /\ R.items[Len(O.items) - k + 1] = m
    <3>1. \E k \in {0, 1} :
            /\ Len(R.items) = Len(Q.items) - k + 1
            /\ k = 1 => Len(Q.items) >= Cap /\ Len(Q.items) >= 1
            /\ \A i \in 1 .. Len(Q.items) - k : R.items[i] = Q.items[i + k]
            /\ R.items[Len(Q.items) - k + 1] = m
      BY <1>2, <1>3, AcceptedItems
    <3> HIDE DEF R, Q, O
    <3> QED
      BY <1>3, <3>1
  <2>3. R \in QueueObjects
    BY <1>2, <1>3, AcceptedObject
  <2> HIDE DEF R, Q, q
  <2>4. queue'[q] = R /\ \A x \in Queues : x # q => queue'[x] = queue[x]
    BY <1>1, <1>2, <2>1 DEF StoreAndKick
  <2>5. \A x \in Queues : drain'[x] = drain[x] \/ drain'[x].at # "turn"
    BY <1>1, <1>2, <2>1, DrainRecords DEF StoreAndKick, Debounce
  <2>6. /\ O.items \in Seq(Messages) /\ R.items \in Seq(Messages)
        /\ Len(O.items) \in Nat /\ Len(R.items) \in Nat
        /\ \A x \in Queues : drain[x].turn \in Seq(Messages)
    BY <1>2, <2>3 DEF QueueObjects, DrainStates
  <2>7. /\ \A i \in 1 .. Len(O.items) : O.items[i] \in recent /\ O.items[i] # m
        /\ \A x \in Queues : m \notin Stock(x)
    BY <1>1, <1>5, <2>6, Elements DEF OnceInv, StockIsNew, Stock
  <2>8. ToSet(R.items) \subseteq ToSet(O.items) \cup {m}
    <3> SUFFICES ASSUME NEW i \in 1 .. Len(R.items), R.items[i] # m
                 PROVE  R.items[i] \in ToSet(O.items)
      BY <2>6, Elements
    <3>1. i \in 1 .. Len(O.items) - k /\ i + k \in 1 .. Len(O.items)
      BY <2>2, <2>6
    <3> QED
      BY <2>2, <2>6, <3>1, Elements
  <2>9. \A x \in Queues : /\ Stock(x)' \subseteq Stock(x) \cup {m}
                          /\ x # q => Stock(x)' \subseteq Stock(x)
    BY <2>4, <2>5, <2>8 DEF Stock, TurnOf
  <2>10. StocksDisjoint' /\ StockIsNew' /\ DeliveredOnce'
    BY <1>1, <1>5, <2>7, <2>9 DEF OnceInv, StocksDisjoint, StockIsNew, DeliveredOnce
  <2>11. ItemsDistinct'
    <3> SUFFICES ASSUME NEW i \in 1 .. Len(R.items), NEW j \in 1 .. Len(R.items),
                        R.items[i] = R.items[j], i < j
                 PROVE  FALSE
      BY <2>4, <2>6 DEF OnceInv, ItemsDistinct
    <3>1. /\ i \in 1 .. Len(O.items) - k /\ i + k \in 1 .. Len(O.items)
          /\ R.items[i] = O.items[i + k]
      <4>1. Len(O.items) \in Nat /\ Len(R.items) = Len(O.items) - k + 1
        BY <2>2, <2>6
      <4>2. i \in 1 .. Len(O.items) - k /\ i + k \in 1 .. Len(O.items)
        BY <4>1
      <4> QED
        BY <2>2, <4>2
    <3>2. CASE j = Len(O.items) - k + 1
      BY <2>2, <2>7, <3>1, <3>2
    <3>3. CASE j # Len(O.items) - k + 1
      <4>1. j \in 1 .. Len(O.items) - k /\ j + k \in 1 .. Len(O.items)
        BY <2>2, <2>6, <3>3
      <4>2. O.items[i + k] = O.items[j + k]
        BY <2>2, <3>1, <4>1
      <4>3. i + k = j + k
        BY <1>1, <3>1, <4>1, <4>2 DEF OnceInv, ItemsDistinct
      <4> QED
        BY <2>6, <4>3
    <3> QED
      BY <3>2, <3>3
  <2>12. TurnInFront'
    <3>1. ASSUME NEW x \in Queues, drain'[x].at = "turn"
          PROVE  /\ \A i \in 1 .. Len(queue'[x].items) :
                      queue'[x].items[i] \in ToSet(drain'[x].turn) => i <= Len(drain'[x].turn)
                 /\ drain'[x].kind = "one" => Len(drain'[x].turn) = 1
                 /\ drain'[x].kind = "summary" => Len(drain'[x].turn) = 0
      <4>1. drain'[x] = drain[x] /\ drain[x].at = "turn"
        BY <2>5, <3>1
      <4>2. CASE x # q
        BY <2>4, <4>1, <4>2 DEF OnceInv, TurnInFront
      <4>3. CASE x = q
        <5> SUFFICES ASSUME NEW i \in 1 .. Len(R.items), R.items[i] \in ToSet(drain[q].turn)
                     PROVE  i <= Len(drain[q].turn)
          BY <2>4, <4>1, <4>3 DEF OnceInv, TurnInFront
        <5>1. R.items[i] # m
          BY <1>1, <2>7, <4>1, <4>3 DEF Stock, TurnOf
        <5>2. /\ i + k \in 1 .. Len(O.items) /\ R.items[i] = O.items[i + k]
              /\ i \in Int /\ i <= i + k
          <6>1. i # Len(O.items) - k + 1
            BY <2>2, <5>1
          <6>2. i \in 1 .. Len(O.items) - k
            BY <2>2, <2>6, <6>1
          <6> QED
            BY <2>2, <2>6, <6>2
        <5>3. i + k <= Len(drain[q].turn)
          BY <1>1, <4>1, <4>3, <5>2 DEF OnceInv, TurnInFront
        <5>4. Len(drain[q].turn) \in Nat
          BY <1>1, <2>6
        <5> QED
          BY <5>2, <5>3, <5>4
      <4> QED
        BY <4>2, <4>3
    <3> QED
      BY <3>1 DEF TurnInFront
  <2> QED
    BY <2>10, <2>11, <2>12 DEF OnceInv
<1> QED
  BY <1>4, <1>5 DEF Enqueue

\* The turn that resolves takes all of its messages out of the object.
LEMMA OnceTurnEnds ==
  ASSUME IInv, IInv', OnceInv, NEW q \in Queues, TurnEnds(q)
  PROVE  OnceInv'
<1> DEFINE D == drain[q]
           O == queue[q]
           R == AfterTurn(D, O)
           k == Removed(D)
<1>1. /\ D.at = "turn" /\ queue' = [queue EXCEPT ![q] = R] /\ recent' = recent
      /\ delivered' = delivered \cup ToSet(D.turn)
      /\ twice' = twice \cup (delivered \cap ToSet(D.turn))
  BY DEF TurnEnds
<1>2. /\ D \in DrainStates /\ O \in QueueObjects /\ D.kind # "none"
      /\ queue \in [Queues -> QueueObjects] /\ drain \in [Queues -> DrainStates]
  BY <1>1 DEF IInv, Types, ObjectTypes, DrainTypes, TurnHasKind
<1>3. /\ R.items \in Seq(Messages) /\ k \in Nat
      /\ Len(R.items) = IF k <= Len(O.items) THEN Len(O.items) - k ELSE 0
      /\ \A i \in 1 .. Len(R.items) : R.items[i] = O.items[i + k]
  BY <1>2, AfterTurnItems
<1>4. /\ O.items \in Seq(Messages) /\ D.turn \in Seq(Messages)
      /\ Len(O.items) \in Nat /\ Len(D.turn) \in Nat /\ Len(R.items) \in Nat
  BY <1>2, <1>3 DEF QueueObjects, DrainStates
<1>5. Len(D.turn) <= k
  <2>1. CASE D.kind = "batch"
    BY <1>4, <2>1 DEF Removed
  <2>2. CASE D.kind # "batch"
    <3>1. D.kind \in {"one", "summary"} /\ k = 1
      BY <1>2, <2>2 DEF DrainStates, Removed
    <3>2. Len(D.turn) = 0 \/ Len(D.turn) = 1
      BY <1>1, <3>1 DEF OnceInv, TurnInFront
    <3>3. k = 1
      BY <3>1
    <3> HIDE DEF k
    <3>4. CASE Len(D.turn) = 0
      BY <3>3, <3>4
    <3>5. CASE Len(D.turn) = 1
      BY <3>3, <3>5
    <3> QED
      BY <3>2, <3>4, <3>5
  <2> QED
    BY <2>1, <2>2
<1>6. \A x \in Queues : IF x = q THEN drain'[x].at # "turn"
                                 ELSE drain'[x] = drain[x] \/ drain'[x].at # "turn"
  <2>1. CASE drain' = [drain EXCEPT ![q] = [NoDrain EXCEPT !.at = "debounce",
                                                           !.forced = D.forced]]
    BY <1>2, <2>1 DEF NoDrain
  <2>2. CASE Finally(q, R)
    BY <2>2, FinallyEffect DEF IInv
  <2> QED
    BY <2>1, <2>2 DEF TurnEnds
<1> HIDE DEF R, k
<1>7. queue'[q] = R /\ \A x \in Queues : x # q => queue'[x] = queue[x]
  BY <1>1, <1>2
<1>8. \A i \in 1 .. Len(R.items) :
        i + k \in 1 .. Len(O.items) /\ R.items[i] = O.items[i + k] /\ i + k > Len(D.turn)
  BY <1>3, <1>4, <1>5
<1>9. \A i \in 1 .. Len(R.items) : R.items[i] \notin ToSet(D.turn)
  BY <1>1, <1>4, <1>8 DEF OnceInv, TurnInFront
<1>10. ToSet(R.items) \subseteq ToSet(O.items) /\ ToSet(R.items) \cap ToSet(D.turn) = {}
  <2> SUFFICES ASSUME NEW m \in ToSet(R.items)
               PROVE  m \in ToSet(O.items) /\ m \notin ToSet(D.turn)
    OBVIOUS
  <2>1. PICK i \in 1 .. Len(R.items) : R.items[i] = m
    BY <1>3, Elements
  <2>2. m \in ToSet(O.items)
    BY <1>4, <1>8, <2>1, Elements
  <2> QED
    BY <1>9, <2>1, <2>2
<1>11. /\ ToSet(D.turn) \subseteq Stock(q)
       /\ \A x \in Queues : Stock(x)' \subseteq Stock(x)
       /\ Stock(q)' \cap ToSet(D.turn) = {}
  BY <1>1, <1>6, <1>7, <1>10 DEF Stock, TurnOf
<1>12. StocksDisjoint'
  BY <1>11 DEF OnceInv, StocksDisjoint
<1>13. StockIsNew' /\ DeliveredOnce'
  BY <1>1, <1>11 DEF OnceInv, StockIsNew, StocksDisjoint, DeliveredOnce
<1>14. ItemsDistinct'
  <2> SUFFICES ASSUME NEW i \in 1 .. Len(R.items), NEW j \in 1 .. Len(R.items),
                      R.items[i] = R.items[j]
               PROVE  i = j
    BY <1>7 DEF OnceInv, ItemsDistinct
  <2>1. O.items[i + k] = O.items[j + k]
    BY <1>8
  <2>2. i + k = j + k
    BY <1>8, <2>1 DEF OnceInv, ItemsDistinct
  <2> QED
    BY <1>3, <1>4, <2>2
<1>15. TurnInFront'
  BY <1>6, <1>7 DEF OnceInv, TurnInFront
<1> QED
  BY <1>12, <1>13, <1>14, <1>15 DEF OnceInv

LEMMA OnceInit == Init => OnceInv
<1> SUFFICES ASSUME Init PROVE OnceInv
  OBVIOUS
<1>1. \A q \in Queues : queue[q].items = <<>> /\ drain[q].at = "idle"
  BY DEF Init, NewQueue, NoDrain
<1>2. \A q \in Queues : Stock(q) = {}
  BY <1>1 DEF Stock, TurnOf, ToSet
<1> QED
  BY <1>1, <1>2
     DEF Init, OnceInv, ItemsDistinct, StocksDisjoint, StockIsNew, TurnInFront, DeliveredOnce

LEMMA OnceNext == IInv /\ IInv' /\ OnceInv /\ [Next]_vars => OnceInv'
BY OnceDrainStep, OnceOthers, OnceEnqueue, OnceTurnEnds DEF Next

\* No message is carried by two finished turns, although each may be delivered
\* repeatedly, turns fail and are retried, and resets detach objects from
\* drains that hold them (isRunAlreadyQueued, scheduleFollowupDrain).
THEOREM CarriedOnce == Spec => []DeliveredOnce
<1>1. OnceInv => DeliveredOnce
  BY DEF OnceInv
<1> QED
  BY <1>1, OnceInit, OnceNext, InitIInv, NextIInv, PTL DEF Spec

-----------------------------------------------------------------------------
(* Nothing is lost                                                          *)

\* So far no turn was overtaken by an overflow, no summary took the turn of a
\* message, and no queue was cleared under its drain.
Quiet == mishaps \cap {"overflowInTurn", "summaryTurn", "clearedInDrain"} = {}

\* What an object still has to say.
Kept(q) == ToSet(queue[q].items) \cup queue[q].dropped

Settled == delivered \cup told \cup discarded

\* Each accepted message is in some object, or settled.
NothingGone == \A m \in recent : m \in Settled \/ \E q \in Queues : m \in Kept(q)

\* The only object with work is the one of the key.
WorkIsOfKey == \A q \in Queues : HasWork(queue[q]) => current = q

\* During a turn its messages remain the first of the object, where they are
\* removed by their number; a summary has counted all that was dropped.
TurnIsPrefix ==
  \A q \in Queues : drain[q].at = "turn" =>
    /\ drain[q].kind # "summary"
    /\ Len(drain[q].turn) <= Len(queue[q].items)
    /\ \A i \in 1 .. Len(drain[q].turn) : queue[q].items[i] = drain[q].turn[i]
    /\ drain[q].kind = "one" => Len(drain[q].turn) = 1
    /\ drain[q].summary # {} => queue[q].dropped \subseteq drain[q].summary

LossInv == Quiet => NothingGone /\ WorkIsOfKey /\ TurnIsPrefix

\* Room is made only by counting the oldest message, or by discarding it.
LEMMA AcceptedKeeps ==
  ASSUME NEW Q \in QueueObjects, Len(Q.items) <= Cap, NEW m \in Messages
  PROVE  LET R == Accepted(Q, m) IN
         /\ m \in ToSet(R.items)
         /\ \A x \in ToSet(Q.items) \cup Q.dropped :
              \/ x \in ToSet(R.items) \cup R.dropped
              \/ Len(Q.items) >= Cap /\ Q.policy # "summarize" /\ x = Head(Q.items)
         /\ Len(Q.items) < Cap => R.items = Append(Q.items, m) /\ R.dropped = Q.dropped
<1> DEFINE T == Trim(Q)
           R == Accepted(Q, m)
<1>1. Cap \in Nat \ {0} /\ Q.items \in Seq(Messages) /\ Len(Q.items) \in Nat
  BY FollowupAssumption DEF QueueObjects
<1>2. T \in QueueObjects
  BY TrimObject
<1>3. R.items = Append(T.items, m) /\ R.dropped = T.dropped /\ T.items \in Seq(Messages)
  BY <1>2 DEF Accepted, QueueObjects
<1>4. m \in ToSet(R.items) /\ \A x \in ToSet(T.items) : x \in ToSet(R.items)
  <2>1. /\ R.items \in Seq(Messages) /\ Len(R.items) = Len(T.items) + 1
        /\ R.items[Len(T.items) + 1] = m
        /\ \A i \in 1 .. Len(T.items) : R.items[i] = T.items[i]
    BY <1>3, AppendProperties
  <2>2. Len(T.items) \in Nat
    BY <1>3
  <2> HIDE DEF T, R
  <2>3. Len(T.items) + 1 \in 1 .. Len(R.items)
    BY <2>1, <2>2
  <2>4. \A i \in 1 .. Len(T.items) : i \in 1 .. Len(R.items)
    BY <2>1, <2>2
  <2>5. m \in ToSet(R.items)
    BY <2>1, <2>3, Elements
  <2>6. ASSUME NEW x \in ToSet(T.items) PROVE x \in ToSet(R.items)
    <3>1. PICK i \in 1 .. Len(T.items) : T.items[i] = x
      BY <1>3, Elements
    <3> QED
      BY <2>1, <2>4, <3>1, Elements
  <2> QED
    BY <2>5, <2>6
<1>5. CASE Len(Q.items) < Cap
  <2>1. T = Q
    BY <1>5 DEF Trim
  <2> QED
    BY <1>3, <1>4, <2>1
<1>6. CASE Len(Q.items) >= Cap
  <2>1. /\ T.items = Tail(Q.items)
        /\ T.dropped = IF Q.policy = "summarize" THEN Q.dropped \cup {Head(Q.items)}
                                                 ELSE Q.dropped
    BY <1>1, <1>6 DEF Trim, QueueObjects
  <2>2. /\ Tail(Q.items) \in Seq(Messages) /\ Len(Tail(Q.items)) = Len(Q.items) - 1
        /\ \A i \in 1 .. Len(Tail(Q.items)) : Tail(Q.items)[i] = Q.items[i + 1]
        /\ Head(Q.items) = Q.items[1]
    BY <1>1, <1>6, HeadTailProperties
  <2>3. ASSUME NEW x \in ToSet(Q.items)
        PROVE  x = Head(Q.items) \/ x \in ToSet(T.items)
    <3>1. PICK i \in 1 .. Len(Q.items) : Q.items[i] = x
      BY <1>1, Elements
    <3>2. CASE i = 1
      BY <2>2, <3>1, <3>2
    <3>3. CASE i # 1
      <4>1. i - 1 \in 1 .. Len(Tail(Q.items)) /\ (i - 1) + 1 = i
        BY <1>1, <2>2, <3>3
      <4>2. Tail(Q.items)[i - 1] = x
        BY <2>2, <3>1, <4>1
      <4> QED
        BY <2>1, <2>2, <4>1, <4>2, Elements
    <3> QED
      BY <3>2, <3>3
  <2> HIDE DEF T, R
  <2> QED
    BY <1>1, <1>3, <1>4, <1>6, <2>1, <2>3 DEF R
<1> QED
  BY <1>1, <1>5, <1>6

\* What a finished turn removes it has carried or told.
LEMMA AfterTurnKeeps ==
  ASSUME NEW D \in DrainStates, NEW Q \in QueueObjects, D.kind \in {"one", "batch"},
         Len(D.turn) <= Len(Q.items),
         \A i \in 1 .. Len(D.turn) : Q.items[i] = D.turn[i],
         D.kind = "one" => Len(D.turn) = 1
  PROVE  LET R == AfterTurn(D, Q) IN
         /\ \A x \in ToSet(Q.items) : x \in ToSet(R.items) \cup ToSet(D.turn)
         /\ R.dropped = Q.dropped \/ D.summary # {}
<1> DEFINE R == AfterTurn(D, Q)
           n == Len(D.turn)
<1>1. /\ Q.items \in Seq(Messages) /\ D.turn \in Seq(Messages)
      /\ Len(Q.items) \in Nat /\ n \in Nat
  BY DEF QueueObjects, DrainStates
<1>2. Removed(D) = n
  BY DEF Removed
<1>3. /\ R.items \in Seq(Messages) /\ Len(R.items) = Len(Q.items) - n
      /\ \A i \in 1 .. Len(R.items) : R.items[i] = Q.items[i + n]
  <2>1. /\ R.items \in Seq(Messages)
        /\ Len(R.items) = IF Removed(D) <= Len(Q.items) THEN Len(Q.items) - Removed(D) ELSE 0
        /\ \A i \in 1 .. Len(R.items) : R.items[i] = Q.items[i + Removed(D)]
    BY AfterTurnItems
  <2> HIDE DEF R
  <2> QED
    BY <1>1, <1>2, <2>1
<1>4. R.dropped = Q.dropped \/ D.summary # {}
  BY DEF AfterTurn, QueueObjects
<1> HIDE DEF R
<1>5. ASSUME NEW x \in ToSet(Q.items)
      PROVE  x \in ToSet(R.items) \cup ToSet(D.turn)
  <2>1. PICK i \in 1 .. Len(Q.items) : Q.items[i] = x
    BY <1>1, Elements
  <2>2. CASE i <= n
    <3>1. i \in 1 .. n /\ D.turn[i] = x
      BY <1>1, <2>1, <2>2
    <3> QED
      BY <1>1, <3>1, Elements
  <2>3. CASE i > n
    <3>1. i - n \in 1 .. Len(R.items) /\ (i - n) + n = i
      BY <1>1, <1>3, <2>3
    <3>2. R.items[i - n] = x
      BY <1>3, <2>1, <3>1
    <3> QED
      BY <1>3, <3>1, <3>2, Elements
  <2> QED
    BY <1>1, <2>2, <2>3
<1> QED
  BY <1>4, <1>5 DEF R

\* Mishaps are remembered.
LEMMA QuietSoFar ==
  ASSUME Next \/ UNCHANGED vars, Quiet'
  PROVE  Quiet
<1>1. mishaps \subseteq mishaps'
  BY DEF Next, Enqueue, ScheduleDrain, Clear, DrainStep, CollectStep, FollowupStep, TurnEnds,
         TurnFails, vars
<1> QED
  BY <1>1 DEF Quiet

\* The objects stay; turns end, or begin with the first items and a summary of
\* all that was dropped; the key is given up only without work.
LEMMA LossUnlessItems ==
  ASSUME IInv, IInv', LossInv, Quiet => Quiet', Quiet' => Quiet,
         UNCHANGED <<queue, recent, delivered, told, discarded>>,
         Quiet => (current' = current \/ \A x \in Queues : ~HasWork(queue[x])),
         \A x \in Queues :
           \/ drain'[x] = drain[x]
           \/ drain'[x].at # "turn"
           \/ /\ drain'[x].kind # "summary"
              /\ Len(drain'[x].turn) <= Len(queue[x].items)
              /\ \A i \in 1 .. Len(drain'[x].turn) : queue[x].items[i] = drain'[x].turn[i]
              /\ drain'[x].kind = "one" => Len(drain'[x].turn) = 1
              /\ drain'[x].summary # {} => queue[x].dropped \subseteq drain'[x].summary
  PROVE  LossInv'
<1> SUFFICES ASSUME Quiet' PROVE NothingGone' /\ WorkIsOfKey' /\ TurnIsPrefix'
  BY DEF LossInv
<1>1. NothingGone /\ WorkIsOfKey /\ TurnIsPrefix
  BY DEF LossInv
<1>2. NothingGone'
  BY <1>1 DEF NothingGone, Settled, Kept
<1>3. WorkIsOfKey'
  BY <1>1 DEF WorkIsOfKey
<1>4. TurnIsPrefix'
  <2> SUFFICES ASSUME NEW x \in Queues, drain'[x].at = "turn"
               PROVE  /\ drain'[x].kind # "summary"
                      /\ Len(drain'[x].turn) <= Len(queue[x].items)
                      /\ \A i \in 1 .. Len(drain'[x].turn) : queue[x].items[i] = drain'[x].turn[i]
                      /\ drain'[x].kind = "one" => Len(drain'[x].turn) = 1
                      /\ drain'[x].summary # {} => queue[x].dropped \subseteq drain'[x].summary
    BY DEF TurnIsPrefix
  <2>1. CASE drain'[x] = drain[x]
    BY <1>1, <2>1 DEF TurnIsPrefix
  <2> QED
    BY <2>1
<1> QED
  BY <1>2, <1>3, <1>4

\* A drain that is over gives up the key only if there is no work.
LEMMA FinallyKey ==
  ASSUME IInv, LossInv, NEW q \in Queues, drain[q].at # "idle",
         NEW Q, Finally(q, Q), Quiet
  PROVE  /\ current' = current \/ (~HasWork(Q) /\ current' = 0)
         /\ \A x \in Queues : x # q => ~HasWork(queue[x])
         /\ \A x \in Queues : drain'[x] = drain[x] \/ drain'[x].at # "turn"
<1>1. current = q
  BY DEF IInv, DrainOfKey, Cleared, Quiet
<1>2. \A x \in Queues : x # q => ~HasWork(queue[x])
  BY <1>1 DEF LossInv, WorkIsOfKey
<1>3. current' = current \/ (~HasWork(Q) /\ current' = 0)
  BY FinallyEffect DEF IInv
<1> QED
  BY <1>2, <1>3, FinallyTurns

LEMMA LossDrainStep ==
  ASSUME IInv, IInv', LossInv, NEW q \in Queues, DrainStep(q)
  PROVE  LossInv'
<1> DEFINE Q == queue[q]
<1>1. /\ Q.items \in Seq(Messages) /\ Q.dropped \in SUBSET Messages
      /\ UNCHANGED <<queue, recent, delivered, told, discarded>>
      /\ drain \in [Queues -> DrainStates] /\ drain[q].at = "debounce"
  BY DEF DrainStep, fates, IInv, Types, ObjectTypes, DrainTypes, QueueObjects
<1>2. ASSUME UNCHANGED mishaps, NEW kind, NEW turn, NEW summary, NEW forced,
             BeginTurn(q, kind, turn, summary, forced),
             \/ kind = "one" /\ Q.items # <<>> /\ turn = <<Head(Q.items)>> /\ summary = {}
             \/ kind = "batch" /\ turn = Q.items /\ summary \in {{}, Q.dropped}
      PROVE  LossInv'
  <2>1. /\ drain'[q].turn = turn /\ drain'[q].kind = kind /\ drain'[q].summary = summary
        /\ current' = current
        /\ \A x \in Queues : x # q => drain'[x] = drain[x]
    BY <1>1, <1>2 DEF BeginTurn
  <2>2. /\ kind # "summary" /\ Len(turn) <= Len(Q.items)
        /\ \A i \in 1 .. Len(turn) : Q.items[i] = turn[i]
        /\ kind = "one" => Len(turn) = 1
        /\ summary # {} => Q.dropped \subseteq summary
    <3>1. CASE kind = "one"
      <4>1. turn = <<Q.items[1]>> /\ Len(Q.items) \in Nat /\ Len(Q.items) >= 1
        BY <1>1, <1>2, <3>1
      <4>2. Len(turn) = 1 /\ turn[1] = Q.items[1]
        BY <4>1
      <4> QED
        BY <1>2, <3>1, <4>1, <4>2
    <3>2. CASE kind = "batch"
      BY <1>1, <1>2, <3>2
    <3> QED
      BY <1>2, <3>1, <3>2
  <2>3. Quiet' <=> Quiet
    BY <1>2 DEF Quiet
  <2> QED
    BY <1>1, <2>1, <2>2, <2>3, LossUnlessItems
<1>3. ASSUME Break(q), UNCHANGED mishaps
      PROVE  LossInv'
  <2>1. Quiet' <=> Quiet
    BY <1>3 DEF Quiet
  <2>2. CASE drain' = [drain EXCEPT ![q].at = "spinning"] /\ UNCHANGED <<current, callback>>
    <3>1. \A x \in Queues : drain'[x] = drain[x] \/ drain'[x].at # "turn"
      BY <1>1, <2>2 DEF DrainStates
    <3> QED
      BY <1>1, <2>1, <2>2, <3>1, LossUnlessItems
  <2>3. CASE Finally(q, Q)
    <3>1. \A x \in Queues : drain'[x] = drain[x] \/ drain'[x].at # "turn"
      BY <2>3, FinallyTurns
    <3>2. Quiet => (current' = current \/ \A x \in Queues : ~HasWork(queue[x]))
      BY <1>1, <2>3, FinallyKey
    <3> QED
      BY <1>1, <2>1, <3>1, <3>2, LossUnlessItems
  <2> QED
    BY <1>3, <2>2, <2>3 DEF Break
<1>4. CASE CollectStep(q)
  <2>1. CASE \E forced \in {TRUE} : /\ Q.items # <<>>
                                    /\ BeginTurn(q, "one", <<Head(Q.items)>>, {}, forced)
    BY <1>2, <1>4, <2>1 DEF CollectStep
  <2>2. CASE BeginTurn(q, "batch", Q.items, IF Summarizes(Q) THEN Q.dropped ELSE {}, FALSE)
    BY <1>2, <1>4, <2>2 DEF CollectStep
  <2> QED
    BY <1>3, <1>4, <2>1, <2>2 DEF CollectStep
<1>5. CASE FollowupStep(q)
  <2>1. CASE mishaps' = mishaps \cup {"summaryTurn"}
    BY <2>1 DEF LossInv, Quiet
  <2> QED
    BY <1>2, <1>3, <1>5, <2>1 DEF FollowupStep
<1> QED
  BY <1>4, <1>5 DEF DrainStep

LEMMA LossOthers ==
  ASSUME IInv, IInv', LossInv,
         \/ ScheduleDrain \/ UNCHANGED vars
         \/ \E q \in Queues : TurnFails(q)
  PROVE  LossInv'
<1>1. /\ queue \in [Queues -> QueueObjects] /\ drain \in [Queues -> DrainStates]
      /\ current \in {0} \cup Queues
  BY FollowupAssumption DEF IInv, Types, ObjectTypes, DrainTypes, KeyTypes, Queues
<1>2. CASE ScheduleDrain
  <2>1. \A x \in Queues : drain'[x] = drain[x] \/ drain'[x].at # "turn"
    BY <1>1, <1>2, DrainRecords DEF ScheduleDrain, BeginDrain, Debounce
  <2>2. Quiet => (current' = current \/ \A x \in Queues : ~HasWork(queue[x]))
    BY <1>2 DEF ScheduleDrain, BeginDrain, LossInv, WorkIsOfKey
  <2>3. Quiet' <=> Quiet
    BY <1>2 DEF ScheduleDrain, Quiet
  <2> QED
    BY <1>2, <2>1, <2>2, <2>3, LossUnlessItems DEF ScheduleDrain, fates
<1>3. CASE \E q \in Queues : TurnFails(q)
  <2>1. PICK q \in Queues : TurnFails(q)
    BY <1>3
  <2>2. \A x \in Queues : drain'[x] = drain[x] \/ drain'[x].at # "turn"
    BY <2>1, FinallyTurns DEF TurnFails
  <2>3. Quiet => (current' = current \/ \A x \in Queues : ~HasWork(queue[x]))
    <3>1. drain[q].at # "idle" /\ Finally(q, queue[q])
      BY <2>1 DEF TurnFails
    <3> QED
      BY <3>1, FinallyKey
  <2>4. Quiet' <=> Quiet
    BY <2>1 DEF TurnFails, Quiet
  <2> QED
    BY <2>1, <2>2, <2>3, <2>4, LossUnlessItems DEF TurnFails, fates
<1>4. CASE UNCHANGED vars
  <2>1. Quiet' <=> Quiet
    BY <1>4 DEF vars, Quiet
  <2> QED
    BY <1>4, <2>1, LossUnlessItems DEF vars, fates
<1> QED
  BY <1>2, <1>3, <1>4

\* What a reset takes was discarded on request.
LEMMA LossClear ==
  ASSUME IInv, IInv', LossInv, Clear
  PROVE  LossInv'
<1> SUFFICES ASSUME Quiet' PROVE NothingGone' /\ WorkIsOfKey' /\ TurnIsPrefix'
  BY DEF LossInv
<1>1. /\ queue \in [Queues -> QueueObjects] /\ current \in Queues
      /\ UNCHANGED <<drain, recent, delivered, told>>
      /\ current' = 0
  BY FollowupAssumption DEF Clear, IInv, Types, ObjectTypes, KeyTypes, Queues
<1>2. Quiet /\ NothingGone /\ WorkIsOfKey /\ TurnIsPrefix
  BY QuietSoFar DEF Next, LossInv
<1>3. drain[current].at = "idle"
  BY DEF Clear, Quiet
<1>4. /\ queue'[current].items = <<>> /\ queue'[current].dropped = {}
      /\ \A x \in Queues : x # current => queue'[x] = queue[x]
      /\ discarded' = discarded \cup Kept(current)
  BY <1>1 DEF Clear, QueueObjects, Kept
<1>5. NothingGone'
  <2> SUFFICES ASSUME NEW m \in recent, m \notin Settled'
               PROVE  \E q \in Queues : m \in Kept(q)'
    BY <1>1 DEF NothingGone
  <2>1. m \notin Settled /\ m \notin Kept(current)
    BY <1>1, <1>4 DEF Settled
  <2>2. PICK q \in Queues : m \in Kept(q)
    BY <1>2, <2>1 DEF NothingGone
  <2>3. Kept(q)' = Kept(q)
    BY <1>4, <2>1, <2>2 DEF Kept
  <2> QED
    BY <2>2, <2>3
<1>6. WorkIsOfKey'
  BY <1>1, <1>2, <1>4 DEF WorkIsOfKey, HasWork
<1>7. TurnIsPrefix'
  BY <1>1, <1>2, <1>3, <1>4 DEF TurnIsPrefix
<1> QED
  BY <1>5, <1>6, <1>7

\* A turn that resolves settles what it removes.
LEMMA LossTurnEnds ==
  ASSUME IInv, IInv', LossInv, NEW q \in Queues, TurnEnds(q)
  PROVE  LossInv'
<1> SUFFICES ASSUME Quiet' PROVE NothingGone' /\ WorkIsOfKey' /\ TurnIsPrefix'
  BY DEF LossInv
<1> DEFINE D == drain[q]
           O == queue[q]
           R == AfterTurn(D, O)
<1>1. /\ D.at = "turn" /\ queue' = [queue EXCEPT ![q] = R] /\ recent' = recent
      /\ delivered' = delivered \cup ToSet(D.turn)
      /\ told' = told \cup D.summary /\ UNCHANGED <<discarded, mishaps>>
  BY DEF TurnEnds
<1>2. /\ D \in DrainStates /\ O \in QueueObjects /\ D.kind # "none" /\ Len(O.items) <= Cap
      /\ queue \in [Queues -> QueueObjects] /\ drain \in [Queues -> DrainStates]
      /\ current \in {0} \cup Queues
  BY <1>1, FollowupAssumption
     DEF IInv, Types, ObjectTypes, DrainTypes, KeyTypes, Queues, TurnHasKind
<1>3. Quiet /\ NothingGone /\ WorkIsOfKey /\ TurnIsPrefix
  BY <1>1 DEF Quiet, LossInv
<1>4. /\ D.kind \in {"one", "batch"} /\ Len(D.turn) <= Len(O.items)
      /\ \A i \in 1 .. Len(D.turn) : O.items[i] = D.turn[i]
      /\ D.kind = "one" => Len(D.turn) = 1
      /\ D.summary # {} => O.dropped \subseteq D.summary
  BY <1>1, <1>2, <1>3 DEF TurnIsPrefix, DrainStates
<1>5. /\ \A x \in ToSet(O.items) : x \in ToSet(R.items) \cup ToSet(D.turn)
      /\ R.dropped = O.dropped \/ D.summary # {}
  BY <1>2, <1>4, AfterTurnKeeps
<1>6. HasWork(R) => HasWork(O)
  BY <1>2, AfterTurnObject DEF HasWork
<1> HIDE DEF R
<1>7. queue'[q] = R /\ \A x \in Queues : x # q => queue'[x] = queue[x]
  BY <1>1, <1>2
<1>8. NothingGone'
  <2> SUFFICES ASSUME NEW m \in recent, m \notin Settled'
               PROVE  \E x \in Queues : m \in Kept(x)'
    BY <1>1 DEF NothingGone
  <2>1. m \notin Settled /\ m \notin ToSet(D.turn) /\ m \notin D.summary
    BY <1>1 DEF Settled
  <2>2. PICK x \in Queues : m \in Kept(x)
    BY <1>3, <2>1 DEF NothingGone
  <2>3. m \in Kept(x)'
    BY <1>4, <1>5, <1>7, <2>1, <2>2 DEF Kept
  <2> QED
    BY <2>3
<1>9. /\ drain'[q].at # "turn"
      /\ \A x \in Queues : x # q => drain'[x] = drain[x] \/ drain'[x].at # "turn"
      /\ current' = current \/ (~HasWork(R) /\ current' = 0)
      /\ \A x \in Queues : x # q => ~HasWork(queue[x])
  <2>1. current = q
    BY <1>1, <1>3 DEF IInv, DrainOfKey, Cleared, Quiet
  <2>2. \A x \in Queues : x # q => ~HasWork(queue[x])
    BY <1>3, <2>1 DEF WorkIsOfKey
  <2>3. CASE /\ drain' = [drain EXCEPT ![q] = [NoDrain EXCEPT !.at = "debounce",
                                                            !.forced = D.forced]]
             /\ UNCHANGED current
    BY <1>2, <2>2, <2>3 DEF NoDrain
  <2>4. CASE Finally(q, R)
    BY <2>2, <2>4, FinallyEffect DEF IInv
  <2> QED
    BY <2>3, <2>4 DEF TurnEnds, R
<1>10. WorkIsOfKey'
  BY <1>3, <1>6, <1>7, <1>9 DEF WorkIsOfKey
<1>11. TurnIsPrefix'
  BY <1>3, <1>7, <1>9 DEF TurnIsPrefix
<1> QED
  BY <1>8, <1>10, <1>11

\* A message that is accepted joins the object of the key.
LEMMA LossEnqueue ==
  ASSUME IInv, IInv', LossInv,
         NEW m \in Messages, NEW mode \in Modes, NEW policy \in Policies,
         Enqueue(m, mode, policy)
  PROVE  LossInv'
<1> SUFFICES ASSUME Quiet' PROVE NothingGone' /\ WorkIsOfKey' /\ TurnIsPrefix'
  BY DEF LossInv
<1> DEFINE q == QueueOfKey
           O == queue[q]
           Q == [O EXCEPT !.mode = mode, !.policy = policy]
           full == Len(Q.items) >= Cap
<1>1. q \in Queues /\ UNCHANGED <<delivered, told>> /\ current' = q
      /\ (current = 0 \/ current = q)
  BY DEF Enqueue, QueueOfKey, StoreAndKick
<1>2. /\ O \in QueueObjects /\ Len(O.items) <= Cap
      /\ queue \in [Queues -> QueueObjects] /\ drain \in [Queues -> DrainStates]
  BY <1>1 DEF IInv, Types, ObjectTypes, DrainTypes
<1>3. /\ Q \in QueueObjects /\ Q.items = O.items /\ Q.dropped = O.dropped
      /\ Q.policy = policy
  BY <1>2, FollowupAssumption DEF QueueObjects
<1>4. Quiet /\ NothingGone /\ WorkIsOfKey /\ TurnIsPrefix
  BY QuietSoFar DEF Next, LossInv
<1>5. \A x \in Queues : x # q => ~HasWork(queue[x])
  BY <1>1, <1>4 DEF WorkIsOfKey, Queues
<1>6. CASE /\ queue' = [queue EXCEPT ![q] = [Q EXCEPT !.lastRun = @ \/ m \notin recent]]
           /\ UNCHANGED <<drain, callback, recent, discarded>>
  <2>1. queue'[q].items = O.items /\ queue'[q].dropped = O.dropped
    BY <1>1, <1>2, <1>3, <1>6 DEF QueueObjects
  <2>2. \A x \in Queues : x # q => queue'[x] = queue[x]
    BY <1>1, <1>2, <1>6
  <2>3. \A x \in Queues : Kept(x)' = Kept(x)
    BY <2>1, <2>2 DEF Kept
  <2>4. NothingGone'
    BY <1>1, <1>4, <1>6, <2>3 DEF NothingGone, Settled
  <2>5. WorkIsOfKey'
    BY <1>1, <1>5, <2>2 DEF WorkIsOfKey
  <2>6. TurnIsPrefix'
    BY <1>4, <1>6, <2>1, <2>2 DEF TurnIsPrefix
  <2> QED
    BY <2>4, <2>5, <2>6
<1>7. CASE /\ m \notin recent /\ ~(full /\ policy = "new")
           /\ StoreAndKick(q, [Trim(Q) EXCEPT !.items = Append(@, m), !.lastRun = TRUE])
           /\ recent' = recent \cup {m}
           /\ discarded' = IF full /\ policy = "old"
                           THEN discarded \cup {Head(Q.items)} ELSE discarded
  <2> DEFINE R == Accepted(Q, m)
  <2>1. StoreAndKick(q, R)
    BY <1>7 DEF Accepted
  <2>2. /\ m \in ToSet(R.items)
        /\ \A x \in ToSet(O.items) \cup O.dropped :
             \/ x \in ToSet(R.items) \cup R.dropped
             \/ full /\ policy # "summarize" /\ x = Head(O.items)
        /\ Len(O.items) < Cap => R.items = Append(O.items, m) /\ R.dropped = O.dropped
    <3>1. /\ m \in ToSet(R.items)
          /\ \A x \in ToSet(Q.items) \cup Q.dropped :
               \/ x \in ToSet(R.items) \cup R.dropped
               \/ Len(Q.items) >= Cap /\ Q.policy # "summarize" /\ x = Head(Q.items)
          /\ Len(Q.items) < Cap => R.items = Append(Q.items, m) /\ R.dropped = Q.dropped
      BY <1>2, <1>3, AcceptedKeeps
    <3> HIDE DEF R, Q, O
    <3> QED
      BY <1>3, <3>1
  <2>3. R \in QueueObjects /\ policy \in {"summarize", "old", "new"}
    BY <1>2, <1>3, AcceptedObject, FollowupAssumption
  <2>4. full <=> ~(Len(O.items) < Cap)
    BY <1>2, <1>3, FollowupAssumption DEF QueueObjects
  <2>5. ~(full /\ drain[q].at = "turn")
    BY <1>7 DEF Enqueue, Quiet
  <2> HIDE DEF R, q, Q
  <2>6. queue'[q] = R /\ \A x \in Queues : x # q => queue'[x] = queue[x]
    BY <1>1, <1>2, <2>1 DEF StoreAndKick
  <2>7. \A x \in Queues : drain'[x] = drain[x] \/ drain'[x].at # "turn"
    BY <1>1, <1>2, <2>1, DrainRecords DEF StoreAndKick, Debounce
  <2>8. NothingGone'
    <3> SUFFICES ASSUME NEW y \in recent, y \notin Settled'
                 PROVE  \E x \in Queues : y \in Kept(x)'
      BY <1>1, <1>7, <2>2, <2>6 DEF NothingGone, Kept
    <3>1. y \notin Settled
      BY <1>1, <1>7 DEF Settled
    <3>2. PICK x \in Queues : y \in Kept(x)
      BY <1>4, <3>1 DEF NothingGone
    <3>3. CASE x # q
      BY <2>6, <3>2, <3>3 DEF Kept
    <3>4. CASE x = q
      <4>1. y \in ToSet(O.items) \cup O.dropped
        BY <3>2, <3>4 DEF Kept
      <4>2. ~(full /\ policy # "summarize" /\ y = Head(O.items))
        <5> SUFFICES ASSUME full, policy # "summarize", y = Head(O.items)
                     PROVE  FALSE
          OBVIOUS
        <5>1. policy = "old"
          BY <1>7, <2>3
        <5>2. Head(O.items) \in discarded'
          BY <1>3, <1>7, <5>1
        <5> QED
          BY <5>2 DEF Settled
      <4>3. y \in ToSet(R.items) \cup R.dropped
        BY <2>2, <4>1, <4>2
      <4> QED
        BY <1>1, <2>6, <4>3 DEF Kept
    <3> QED
      BY <3>3, <3>4
  <2>9. WorkIsOfKey'
    BY <1>1, <1>5, <2>6 DEF WorkIsOfKey
  <2>10. TurnIsPrefix'
    <3> SUFFICES ASSUME NEW x \in Queues, drain'[x].at = "turn"
                 PROVE  /\ drain[x].kind # "summary"
                        /\ Len(drain[x].turn) <= Len(queue'[x].items)
                        /\ \A i \in 1 .. Len(drain[x].turn) : queue'[x].items[i] = drain[x].turn[i]
                        /\ drain[x].kind = "one" => Len(drain[x].turn) = 1
                        /\ drain[x].summary # {} => queue'[x].dropped \subseteq drain[x].summary
      BY <2>7 DEF TurnIsPrefix
    <3>1. drain[x].at = "turn"
      BY <2>7
    <3>2. CASE x # q
      BY <1>4, <2>6, <3>1, <3>2 DEF TurnIsPrefix
    <3>3. CASE x = q
      <4>1. R.items = Append(O.items, m) /\ R.dropped = O.dropped
        BY <2>2, <2>4, <2>5, <3>1, <3>3
      <4>2. O.items \in Seq(Messages) /\ drain[q].turn \in Seq(Messages)
        BY <1>1, <1>2 DEF QueueObjects, DrainStates
      <4>3. /\ Len(R.items) = Len(O.items) + 1
            /\ \A i \in 1 .. Len(O.items) : R.items[i] = O.items[i]
        BY <4>1, <4>2, AppendProperties
      <4>4. /\ drain[q].kind # "summary" /\ Len(drain[q].turn) <= Len(O.items)
            /\ \A i \in 1 .. Len(drain[q].turn) : O.items[i] = drain[q].turn[i]
            /\ drain[q].kind = "one" => Len(drain[q].turn) = 1
            /\ drain[q].summary # {} => O.dropped \subseteq drain[q].summary
        BY <1>1, <1>4, <3>1, <3>3 DEF TurnIsPrefix
      <4>5. Len(O.items) \in Nat /\ Len(drain[q].turn) \in Nat
        BY <4>2
      <4>6. Len(drain[q].turn) <= Len(R.items)
        BY <4>3, <4>4, <4>5
      <4>7. \A i \in 1 .. Len(drain[q].turn) : R.items[i] = drain[q].turn[i]
        BY <4>3, <4>4, <4>5
      <4> HIDE DEF O
      <4> QED
        BY <2>6, <3>3, <4>1, <4>4, <4>6, <4>7
    <3> QED
      BY <3>2, <3>3
  <2> QED
    BY <2>8, <2>9, <2>10
<1> QED
  BY <1>6, <1>7 DEF Enqueue

\* An accepted message is pending, was carried, told in a summary or discarded
\* on request, as long as no turn was overtaken by an overflow, no summary took
\* the turn of a message and no queue was cleared under its drain
\* (enqueueFollowupRun, applyQueueDropPolicy, scheduleFollowupDrain).
THEOREM NothingIsLost == Spec => []NothingLostQuiet
<1>1. Init => LossInv
  <2> SUFFICES ASSUME Init PROVE NothingGone /\ WorkIsOfKey /\ TurnIsPrefix
    BY DEF LossInv
  <2>1. \A q \in Queues : queue[q].items = <<>> /\ queue[q].dropped = {} /\ drain[q].at = "idle"
    BY DEF Init, NewQueue, NoDrain
  <2> QED
    BY <2>1 DEF Init, NothingGone, WorkIsOfKey, HasWork, TurnIsPrefix
<1>2. IInv /\ IInv' /\ LossInv /\ [Next]_vars => LossInv'
  BY LossDrainStep, LossOthers, LossClear, LossEnqueue, LossTurnEnds DEF Next
<1>3. IInv /\ LossInv => NothingLostQuiet
  <2> SUFFICES ASSUME IInv, LossInv, Quiet, NEW m \in recent, m \notin Settled
               PROVE  m \in Pending
    BY DEF NothingLostQuiet, NothingLost, Quiet, Settled
  <2>1. PICK q \in Queues : m \in Kept(q)
    BY DEF LossInv, NothingGone
  <2>2. HasWork(queue[q])
    BY <2>1 DEF Kept, HasWork, ToSet
  <2>3. current = q
    BY <2>2 DEF LossInv, WorkIsOfKey
  <2> QED
    BY <2>1, <2>3 DEF Pending, Live, Kept
<1> QED
  BY <1>1, <1>2, <1>3, InitIInv, NextIInv, PTL DEF Spec
=============================================================================
