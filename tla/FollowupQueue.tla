------------------------------ MODULE FollowupQueue ------------------------------
(***************************************************************************)
(* Messages that arrive while a session is busy: the follow-up queue of    *)
(* one session key (auto-reply/reply/queue/, utils/queue-helpers.ts).      *)
(*                                                                         *)
(* A queue is an object: a reset detaches it from the map of queues while  *)
(* its drain may still hold it, and the next message creates another one   *)
(* under the same key.  A drain awaits the debounce and then the turn of   *)
(* the agent; everything else happens at these two awaits.                 *)
(*                                                                         *)
(* Abstracted: a message is its identity and its route; the summary is the *)
(* set of messages it counts (the text of the oldest may be elided); the   *)
(* cap is that of the configuration; the memory of recent message ids does *)
(* not expire.                                                             *)
(***************************************************************************)
EXTENDS Integers, Sequences, FiniteSets, SequencesExt

CONSTANTS
  Messages,   \* messages with distinct ids, each possibly delivered repeatedly
  RouteOf,    \* RouteOf[m]: channel, chat, account and thread of m
  Modes,      \* modes the settings may name: subset of {"collect", "followup"}
  Policies,   \* drop policies: subset of {"summarize", "old", "new"}
  Cap,        \* queue.cap
  MaxQueues,  \* bound: number of queue objects created
  MaxClears   \* bound: number of session resets and aborts

ASSUME FollowupAssumption ==
  /\ Modes \subseteq {"collect", "followup"} /\ Modes # {}
  /\ Policies \subseteq {"summarize", "old", "new"} /\ Policies # {}
  /\ Cap \in Nat \ {0} /\ MaxQueues \in Nat \ {0} /\ MaxClears \in Nat

VARIABLES
  queue,      \* queue[q]: the object q
  drain,      \* drain[q]: the drain that holds q; it is q.draining if not idle
  current,    \* the object FOLLOWUP_QUEUES has for the key, 0 for none
  created,    \* number of objects created
  callback,   \* FOLLOWUP_RUN_CALLBACKS has a callback for the key
  recent,     \* RECENT_QUEUE_MESSAGE_IDS
  clears,     \* number of clears so far
  delivered,  \* history: messages whose own prompt a finished turn carried
  twice,      \* history: those a second finished turn carried
  told,       \* history: messages that the summary of a finished turn counted
  discarded,  \* history: messages cleared, or dropped by policy "old"
  mishaps     \* history: what happened to a drain so far, see Mishaps

fates == <<delivered, twice, told, discarded>>
vars == <<queue, drain, current, created, callback, recent, clears, fates, mishaps>>

Queues == 1 .. MaxQueues

\* A message was dropped during a turn; the queue was cleared during a drain;
\* a summary took the turn of a message; the mode or the drop policy changed
\* while a summary was pending.
Mishaps == {"overflowInTurn", "clearedInDrain", "summaryTurn", "settingsChanged"}

NewQueue == [items |-> <<>>, dropped |-> {}, lastRun |-> FALSE,
             mode |-> "collect", policy |-> "summarize"]
NoDrain == [at |-> "idle", forced |-> FALSE, kind |-> "none", turn |-> <<>>,
            summary |-> {}]

TypeOK ==
  /\ \A q \in Queues :
       /\ queue[q].items \in Seq(Messages)
       /\ Len(queue[q].items) <= Cap
       /\ queue[q].dropped \subseteq Messages
       /\ queue[q].lastRun \in BOOLEAN
       /\ queue[q].mode \in {"collect", "followup"}
       /\ queue[q].policy \in {"summarize", "old", "new"}
       /\ drain[q].at \in {"idle", "debounce", "turn", "spinning"}
       /\ drain[q].forced \in BOOLEAN
       /\ drain[q].kind \in {"none", "one", "batch", "summary"}
       /\ drain[q].turn \in Seq(Messages)
       /\ drain[q].summary \subseteq Messages
  /\ created \in 0 .. MaxQueues
  /\ current \in 0 .. created
  /\ callback \in BOOLEAN
  /\ recent \subseteq Messages
  /\ clears \in 0 .. MaxClears
  /\ delivered \cup twice \cup told \cup discarded \subseteq Messages
  /\ mishaps \subseteq Mishaps

Init ==
  /\ queue = [q \in Queues |-> NewQueue]
  /\ drain = [q \in Queues |-> NoDrain]
  /\ current = 0 /\ created = 0
  /\ callback = FALSE
  /\ recent = {} /\ clears = 0
  /\ delivered = {} /\ twice = {} /\ told = {} /\ discarded = {}
  /\ mishaps = {}

-----------------------------------------------------------------------------
\* A drain that spins only queues microtasks: no event is ever served again.
Event == \A q \in Queues : drain[q].at # "spinning"

HasWork(Q) == Q.items # <<>> \/ Q.dropped # {}

\* previewQueueSummaryPrompt returns a prompt.
Summarizes(Q) == Q.policy = "summarize" /\ Q.dropped # {}

\* hasCrossChannelItems
IsCrossChannel(items) == Cardinality({RouteOf[m] : m \in ToSet(items)}) > 1

\* scheduleFollowupDrain of an idle queue Q: the loop is entered, or there is
\* nothing to do and the queue is deleted.
BeginDrain(q, Q) ==
  /\ callback' = TRUE
  /\ \/ /\ HasWork(Q)
        /\ drain' = [drain EXCEPT ![q] = [NoDrain EXCEPT !.at = "debounce"]]
        /\ UNCHANGED current
     \/ /\ ~HasWork(Q)
        /\ current' = 0
        /\ UNCHANGED drain

\* The finally clause of the drain of q: an empty queue is deleted by its
\* key, whatever object the key stands for now; else the key is drained.
Finally(q, Q) ==
  LET idle == [drain EXCEPT ![q] = NoDrain]
      startable == {c \in Queues : c = current /\ idle[c].at = "idle"}
  IN
  \/ /\ ~HasWork(Q)
     /\ drain' = idle
     /\ current' = 0
     /\ UNCHANGED callback
  \/ /\ HasWork(Q)
     /\ startable # {}
     /\ drain' = [idle EXCEPT ![current].at = "debounce"]
     /\ callback' = TRUE
     /\ UNCHANGED current
  \/ /\ HasWork(Q)
     /\ startable = {}
     /\ drain' = idle
     /\ UNCHANGED <<current, callback>>

-----------------------------------------------------------------------------
\* (mistake) Enqueue that leaves the drain to whoever finishes a turn.
EnqueueWithoutKick(q, Q) ==
  /\ queue' = [queue EXCEPT ![q] = Q]
  /\ current' = q
  /\ UNCHANGED <<drain, callback>>

\* The queue Q with its new item is stored; the drain of a key that had one
\* before is started again.
StoreAndKick(q, Q) ==
  /\ queue' = [queue EXCEPT ![q] = Q]
  /\ \/ /\ drain[q].at = "idle" /\ callback
        /\ drain' = [drain EXCEPT ![q] = [NoDrain EXCEPT !.at = "debounce"]]
     \/ /\ ~(drain[q].at = "idle" /\ callback)
        /\ UNCHANGED drain
  /\ current' = q
  /\ UNCHANGED callback

\* (mistake) What is dropped counts for a summary under each policy.
TrimCountsAlways(Q) ==
  IF Len(Q.items) < Cap THEN Q
  ELSE [Q EXCEPT !.items = Tail(@), !.dropped = @ \cup {Head(Q.items)}]

\* applyQueueDropPolicy: room for one more item.
Trim(Q) ==
  IF Len(Q.items) < Cap THEN Q
  ELSE [Q EXCEPT !.items = Tail(@),
                 !.dropped = IF Q.policy = "summarize" THEN @ \cup {Head(Q.items)}
                                                       ELSE @]

\* (mistake) A queue that is being drained is left to its drain.
QueueNotDraining ==
  IF current = 0 THEN created + 1
  ELSE IF drain[current].at = "idle" THEN current ELSE created + 1

\* getFollowupQueue creates the object if there is none.
QueueOfKey == IF current = 0 THEN created + 1 ELSE current

\* enqueueFollowupRun, with the settings of the moment.
Enqueue(m, mode, policy) ==
  LET q == QueueOfKey
      Q == [queue[q] EXCEPT !.mode = mode, !.policy = policy]
      full == Len(Q.items) >= Cap
  IN /\ Event
     /\ q \in Queues
     /\ created' = IF q > created THEN q ELSE created
     /\ \/ /\ m \in recent \/ (full /\ policy = "new")
           /\ queue' = [queue EXCEPT ![q] = [Q EXCEPT !.lastRun = @ \/ m \notin recent]]
           /\ current' = q
           /\ UNCHANGED <<drain, callback, recent, discarded>>
        \/ /\ m \notin recent /\ ~(full /\ policy = "new")
           /\ StoreAndKick(q, [Trim(Q) EXCEPT !.items = Append(@, m), !.lastRun = TRUE])
           /\ recent' = recent \cup {m}
           /\ discarded' = IF full /\ policy = "old"
                           THEN discarded \cup {Head(Q.items)} ELSE discarded
     /\ mishaps' = mishaps
          \cup {x \in {"settingsChanged"} : /\ Q.dropped # {}
                                            /\ \/ policy # "summarize"
                                               \/ mode # queue[q].mode}
          \cup {x \in {"overflowInTurn"} : /\ m \notin recent /\ full
                                           /\ policy # "new"
                                           /\ drain[q].at = "turn"}
     /\ UNCHANGED <<clears, delivered, twice, told>>

\* finalizeWithFollowup: a turn of the agent is over, scheduleFollowupDrain.
ScheduleDrain ==
  /\ Event
  /\ current # 0
  /\ drain[current].at = "idle"
  /\ BeginDrain(current, queue[current])
  /\ UNCHANGED <<queue, created, recent, clears, fates, mishaps>>

\* clearSessionQueues, for a reset or an abort of the session.
Clear ==
  /\ Event
  /\ clears < MaxClears
  /\ current # 0
  /\ LET Q == queue[current] IN
       /\ queue' = [queue EXCEPT ![current] = [Q EXCEPT !.items = <<>>,
                                                        !.dropped = {},
                                                        !.lastRun = FALSE]]
       /\ discarded' = discarded \cup ToSet(Q.items) \cup Q.dropped
  /\ mishaps' = mishaps \cup {x \in {"clearedInDrain"} : drain[current].at # "idle"}
  /\ current' = 0
  /\ callback' = FALSE
  /\ clears' = clears + 1
  /\ UNCHANGED <<drain, created, recent, delivered, twice, told>>

-----------------------------------------------------------------------------
\* The turn that the drain of q starts.
BeginTurn(q, kind, turn, summary, forced) ==
  /\ drain' = [drain EXCEPT ![q] = [at |-> "turn", forced |-> forced, kind |-> kind,
                                    turn |-> turn, summary |-> summary]]
  /\ UNCHANGED <<current, callback>>

\* The loop is left.  A drain that finds the same state at once when it is
\* scheduled again never lets go of the thread.
Break(q) ==
  LET Q == queue[q] IN
  IF current = q /\ HasWork(Q) /\ Q.mode = "followup"
  THEN /\ drain' = [drain EXCEPT ![q].at = "spinning"]
       /\ UNCHANGED <<current, callback>>
  ELSE Finally(q, Q)

\* Mode "collect": one by one when routes are mixed, else all at once.
CollectStep(q) ==
  LET Q == queue[q]
      cross == IsCrossChannel(Q.items)
      summary == IF Summarizes(Q) THEN Q.dropped ELSE {}
  IN /\ Q.mode = "collect"
     /\ UNCHANGED mishaps
     /\ \/ /\ cross \/ drain[q].forced
           /\ \/ Q.items # <<>> /\ BeginTurn(q, "one", <<Head(Q.items)>>, {}, TRUE)
              \/ Q.items = <<>> /\ Break(q)
        \/ /\ ~cross /\ ~drain[q].forced
           /\ \/ /\ Q.items # <<>> \/ Q.lastRun
                 /\ BeginTurn(q, "batch", Q.items, summary, FALSE)
              \/ /\ Q.items = <<>> /\ ~Q.lastRun
                 /\ Break(q)

\* Other modes: a pending summary takes the turn of the first item.
FollowupStep(q) ==
  LET Q == queue[q] IN
  /\ Q.mode = "followup"
  /\ \/ /\ Q.items # <<>> /\ Summarizes(Q) /\ Q.lastRun
        /\ BeginTurn(q, "summary", <<>>, Q.dropped, drain[q].forced)
        /\ mishaps' = mishaps \cup {"summaryTurn"}
     \/ /\ Q.items # <<>> /\ ~Summarizes(Q)
        /\ BeginTurn(q, "one", <<Head(Q.items)>>, {}, drain[q].forced)
        /\ UNCHANGED mishaps
     \/ /\ Q.items = <<>> \/ (Summarizes(Q) /\ ~Q.lastRun)
        /\ Break(q)
        /\ UNCHANGED mishaps

\* The debounce is over.
DrainStep(q) ==
  /\ Event
  /\ drain[q].at = "debounce"
  /\ CollectStep(q) \/ FollowupStep(q)
  /\ UNCHANGED <<queue, created, recent, clears, fates>>

\* (mistake) A finished turn whose item stays in the queue.
AfterTurnKeepsItem(D, Q) ==
  CASE D.kind = "one" -> Q
    [] D.kind = "summary" -> [Q EXCEPT !.items = IF @ = <<>> THEN @ ELSE Tail(@), !.dropped = {}]
    [] D.kind = "batch" ->
         [Q EXCEPT !.items = SubSeq(@, Len(D.turn) + 1, Len(@)),
                   !.dropped = IF D.summary = {} THEN @ ELSE {}]

\* What is removed after the turn: by position, whatever is there by now.
AfterTurn(D, Q) ==
  CASE D.kind = "one" ->
         [Q EXCEPT !.items = IF @ = <<>> THEN @ ELSE Tail(@)]
    [] D.kind = "summary" ->
         [Q EXCEPT !.items = IF @ = <<>> THEN @ ELSE Tail(@), !.dropped = {}]
    [] D.kind = "batch" ->
         [Q EXCEPT !.items = SubSeq(@, Len(D.turn) + 1, Len(@)),
                   !.dropped = IF D.summary = {} THEN @ ELSE {}]

\* runFollowup resolves; the loop goes on or ends.
TurnEnds(q) ==
  LET D == drain[q]
      Q == AfterTurn(D, queue[q])
  IN /\ Event
     /\ D.at = "turn"
     /\ queue' = [queue EXCEPT ![q] = Q]
     /\ \/ /\ HasWork(Q)
           /\ drain' = [drain EXCEPT ![q] = [NoDrain EXCEPT !.at = "debounce",
                                                            !.forced = D.forced]]
           /\ UNCHANGED <<current, callback>>
        \/ ~HasWork(Q) /\ Finally(q, Q)
     /\ delivered' = delivered \cup ToSet(D.turn)
     /\ twice' = twice \cup (delivered \cap ToSet(D.turn))
     /\ told' = told \cup D.summary
     /\ UNCHANGED <<created, recent, clears, discarded, mishaps>>

\* (mistake) A failed turn that is not retried.
TurnFailsForGood(q) ==
  /\ Event
  /\ drain[q].at = "turn"
  /\ queue' = [queue EXCEPT ![q] = AfterTurn(drain[q], queue[q])]
  /\ Finally(q, AfterTurn(drain[q], queue[q]))
  /\ UNCHANGED <<created, recent, clears, fates, mishaps>>

\* runFollowup rejects: nothing is removed, and the drain is scheduled again.
TurnFails(q) ==
  /\ Event
  /\ drain[q].at = "turn"
  /\ Finally(q, queue[q])
  /\ UNCHANGED <<queue, created, recent, clears, fates, mishaps>>

Next ==
  \/ \E m \in Messages, mode \in Modes, policy \in Policies : Enqueue(m, mode, policy)
  \/ ScheduleDrain
  \/ Clear
  \/ \E q \in Queues : DrainStep(q) \/ TurnEnds(q) \/ TurnFails(q)

Spec == Init /\ [][Next]_vars

\* The agent run that made the session busy ends and schedules the drain; a
\* debounce ends once messages cease; a turn that is retried succeeds at last.
Fairness ==
  /\ SF_vars(ScheduleDrain)
  /\ \A q \in Queues : WF_vars(DrainStep(q)) /\ SF_vars(TurnEnds(q))

FairSpec == Spec /\ Fairness

-----------------------------------------------------------------------------
Live(q) == current = q \/ drain[q].at # "idle"

\* Where an accepted message can be accounted for.
Pending == UNION {ToSet(queue[q].items) \cup queue[q].dropped
                  \cup ToSet(drain[q].turn) \cup drain[q].summary :
                    q \in {x \in Queues : Live(x)}}

\* docs/concepts/queue.md: "coalesce all queued messages", "summarize keeps a
\* list of dropped messages and injects it": an accepted message is pending,
\* was carried by a turn, told in a summary, or discarded on request.
NothingLost == recent \subseteq Pending \cup delivered \cup told \cup discarded

\* ... which holds while no turn was overtaken by an overflow, no summary took
\* a turn, and no queue was cleared under its drain.
NothingLostQuiet ==
  mishaps \cap {"overflowInTurn", "summaryTurn", "clearedInDrain"} # {} \/ NothingLost

\* A session has one drain, so its turns follow each other.
OneDrainPerSession ==
  "clearedInDrain" \in mishaps
    \/ Cardinality({q \in Queues : drain[q].at # "idle"}) <= 1

\* No message is carried by two finished turns, even if it is delivered again.
DeliveredOnce == twice = {}

\* A message never waits for an agent run that need not come: once the key
\* has a callback its queue is being drained.
NeverStranded ==
  (current # 0 /\ callback /\ queue[current].items # <<>>)
    => (drain[current].at # "idle" \/ "clearedInDrain" \in mishaps)

\* Every turn has something to say, and no drain spins.
DrainHasWork ==
  mishaps \cap {"overflowInTurn", "settingsChanged", "clearedInDrain"} # {}
    \/ \A q \in Queues :
         /\ drain[q].at # "spinning"
         /\ drain[q].at = "turn" => drain[q].turn # <<>> \/ drain[q].summary # {}

\* No message stays in the queue for ever: once messages cease (there are
\* finitely many) everything accepted has left it. Two mishaps are excepted:
\* the mode or policy changed while dropped messages waited for their summary
\* (settingsChanged), the queue overflowed during a turn (overflowInTurn)
\* (drain.ts:69-180).
EveryMessageLeaves ==
  []<>(Pending = {} \/ mishaps \cap {"settingsChanged", "overflowInTurn"} # {})

\* A session with messages has one drain, which has work (drain.ts:69-180).
Inv == TypeOK /\ OneDrainPerSession /\ NeverStranded /\ DrainHasWork
=============================================================================
