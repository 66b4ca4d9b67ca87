------------------------------ MODULE DeliveryQueue ------------------------------
(***************************************************************************)
(* The write-ahead queue of outbound messages: infra/outbound/deliver.ts   *)
(* and delivery-queue.ts.  A delivery is logged to disk, sent to the       *)
(* channel payload by payload, and then acknowledged (the file is renamed, *)
(* then removed) or failed (the file is rewritten with one more retry).    *)
(* Every start of the gateway replays, in the background, what is on disk. *)
(*                                                                         *)
(* One process runs everything; each action below is the code between two  *)
(* awaits, so that senders and recovery passes interleave.  A crash loses  *)
(* the senders and keeps the files.                                        *)
(*                                                                         *)
(* Abstracted: a file is its retry count and the time of its last attempt; *)
(* the temporary file and its rename are one step, since nobody reads the  *)
(* temporary file; that time is kept as an age, up to the longest delay;   *)
(* payloads that a hook cancels count as sent; deliveries that skip the    *)
(* queue (isolated cron runs) are no concern of it.                        *)
(***************************************************************************)
EXTENDS Integers, Sequences, FiniteSets, SequencesExt

CONSTANTS
  Deliveries,   \* calls of deliverOutboundPayloads
  Leftover,     \* those whose attempt in an earlier process failed
  Parts,        \* Parts[d]: number of payloads of d
  BestEffort,   \* deliveries with bestEffort
  Observed,     \* deliveries whose caller passes onError
  MaxRetries,   \* MAX_RETRIES
  Backoff,      \* BACKOFF_MS
  MaxPasses,    \* bound: starts of the gateway after the first one
  MaxFaults     \* bound: crashes and file operations that fail

ASSUME DeliveryAssumption ==
  /\ Parts \in [Deliveries -> Nat \ {0}]
  /\ Leftover \subseteq Deliveries /\ IsFiniteSet(Leftover)
  /\ BestEffort \subseteq Deliveries /\ Observed \subseteq Deliveries
  /\ MaxRetries \in Nat \ {0}
  /\ Backoff \in Seq(Nat) /\ Backoff # <<>>
  /\ \A i, j \in 1 .. Len(Backoff) : i <= j => Backoff[i] <= Backoff[j]
  /\ {MaxPasses, MaxFaults} \subseteq Nat
  /\ Deliveries \cap (1 .. MaxPasses) = {}

VARIABLES
  json,      \* deliveries with a file <id>.json in the queue
  entry,     \* entry[d]: what the file says, Fresh if there is none
  marker,    \* deliveries with a file <id>.delivered
  failed,    \* deliveries with a file in failed/
  logged,    \* deliveries logged so far, oldest first
  actor,     \* actor[a]: where the sender of a delivery, or a pass, stands
  todo,      \* todo[p]: entries that pass p has loaded and not handled yet
  passes,    \* number of passes started
  up,        \* the gateway runs
  faults,    \* number of crashes and failed file operations so far
  received,  \* history: payloads <<d, i>> that the channel has got
  doubled,   \* history: deliveries of which it has got a payload twice
  acked,     \* history: deliveries acknowledged, that is renamed
  aborted,   \* history: deliveries aborted by their caller
  attempts,  \* history: attempts[d], number of replays of d
  shared,    \* history: deliveries that two actors held at a time
  excused    \* history: deliveries with a reason to be sent again, see Excuse

disk == <<json, entry, marker, failed, logged>>
history == <<received, doubled, acked, aborted, attempts, shared, excused>>
vars == <<disk, actor, todo, passes, up, faults, history>>

Passes == 1 .. MaxPasses
Actors == Deliveries \cup Passes

LongAgo == Backoff[Len(Backoff)]
Never == LongAgo + 1
Fresh == [retry |-> 0, age |-> Never]
NobodyYet == [at |-> "idle", part |-> 0, partial |-> FALSE, retry |-> 0]
Returned == [NobodyYet EXCEPT !.at = "over"]

Steps == {"idle", "sending", "ack", "unlink", "fail", "rewrite", "move", "loop", "over", "cut"}
Entries == [retry : Nat, age : 0 .. Never]

\* The lists of the elements of S, each once.
Lists(S) == Injection(1 .. Cardinality(S), S)

TypeOK ==
  /\ json \subseteq Deliveries /\ marker \subseteq Deliveries
  /\ failed \subseteq Deliveries
  /\ entry \in [Deliveries -> Entries]
  /\ logged \in Seq(Deliveries) /\ IsInjective(logged)
  /\ \A a \in Actors :
       /\ actor[a].at \in Steps
       /\ actor[a].part \in Nat
       /\ actor[a].partial \in BOOLEAN
       /\ actor[a].retry \in Nat
  /\ \A p \in Passes : todo[p] \in Seq([d : Deliveries, seen : Entries])
  /\ passes \in 0 .. MaxPasses /\ up \in BOOLEAN
  /\ faults \in 0 .. MaxFaults
  /\ \A x \in received : x[1] \in Deliveries /\ x[2] \in 1 .. Parts[x[1]]
  /\ doubled \cup acked \cup aborted \cup shared \cup excused \subseteq Deliveries
  /\ attempts \in [Deliveries -> Nat]

Init ==
  /\ json = Leftover /\ marker = {} /\ failed = {}
  /\ logged \in Lists(Leftover)
  /\ entry = [d \in Deliveries |-> IF d \in Leftover THEN [retry |-> 1, age |-> 0]
                                                   ELSE Fresh]
  /\ actor = [a \in Actors |-> IF a \in Leftover THEN Returned ELSE NobodyYet]
  /\ todo = [p \in Passes |-> <<>>]
  /\ passes = 0 /\ up = TRUE /\ faults = 0
  /\ received = {} /\ doubled = {} /\ acked = {} /\ aborted = {}
  /\ attempts = [d \in Deliveries |-> entry[d].retry]
  /\ shared = {} /\ excused = {}

-----------------------------------------------------------------------------
IsLive(a) == a \in Deliveries

\* The delivery that a is at work on: its own, or the first one to do.
At(a) == IF IsLive(a) THEN a ELSE Head(todo[a]).d

Busy(a) == actor[a].at \notin {"idle", "over", "cut"}

Holds(a, d) ==
  /\ Busy(a)
  /\ IF IsLive(a) THEN a = d ELSE d \in {e.d : e \in ToSet(todo[a])}

\* The delivery may be sent again from now on: the gateway crashed after a
\* payload was sent, a payload failed while there are others, the channel
\* reported an error for what it has delivered, or a file operation failed.
Excuse(d, yes) ==
  /\ excused' = excused \cup {x \in {d} : yes}
  /\ UNCHANGED shared

\* A file operation fails; most callers swallow it.
IoError(a) ==
  /\ faults < MaxFaults
  /\ faults' = faults + 1
  /\ Excuse(At(a), TRUE)

NoIoError == UNCHANGED <<faults, shared, excused>>

GoTo(a, step) ==
  /\ actor' = [actor EXCEPT ![a].at = step]
  /\ UNCHANGED todo

\* The sender returns, or the pass turns to its next entry.
Done(a) ==
  \/ /\ IsLive(a)
     /\ actor' = [actor EXCEPT ![a] = Returned]
     /\ UNCHANGED todo
  \/ /\ ~IsLive(a)
     /\ actor' = [actor EXCEPT ![a] = [NobodyYet EXCEPT !.at = "loop"]]
     /\ todo' = [todo EXCEPT ![a] = Tail(@)]

StartSending(a) ==
  actor' = [actor EXCEPT ![a] = [NobodyYet EXCEPT !.at = "sending", !.part = 1]]

\* computeBackoffMs, for a retry count above zero.
BackoffOf(n) == IF n <= Len(Backoff) THEN Backoff[n] ELSE Backoff[Len(Backoff)]

\* (mistake) The delay is taken for the retry count of the entry.
EligibleOneEarly(e) ==
  e.age = Never \/ e.age >= BackoffOf(e.retry) - 1

\* isEntryEligibleForRecoveryRetry
Eligible(e) == e.age = Never \/ e.age >= BackoffOf(e.retry + 1)

\* <id>.json is renamed.
RemoveFile(d) ==
  /\ json' = json \ {d}
  /\ entry' = [entry EXCEPT ![d] = Fresh]

-----------------------------------------------------------------------------
\* deliverOutboundPayloads, first part: enqueueDelivery writes the file, or
\* fails, and the delivery is sent without one.
Enqueue(d) ==
  /\ up
  /\ actor[d].at = "idle"
  /\ StartSending(d)
  /\ \/ /\ json' = json \cup {d}
        /\ entry' = [entry EXCEPT ![d] = Fresh]
        /\ logged' = Append(logged, d)
        /\ NoIoError
     \/ /\ IoError(d)
        /\ UNCHANGED <<json, entry, logged>>
  /\ UNCHANGED <<marker, failed, todo, passes, up,
                 received, doubled, acked, aborted, attempts>>

\* What comes after the last payload, or after an error that was thrown.  A
\* sender without a file has nothing to update.
Finish(a, step) ==
  /\ actor' = [actor EXCEPT ![a] = [NobodyYet EXCEPT
       !.at = IF IsLive(a) /\ a \notin ToSet(logged) THEN "over" ELSE step]]
  /\ UNCHANGED todo

\* The loop over the payloads goes on, or deliverOutboundPayloadsCore
\* returns.  Only the wrapped onError of a sender notices a failure; a pass
\* has none.
PayloadDone(a, ok) ==
  LET partial == actor[a].partial \/ (~ok /\ IsLive(a) /\ a \in Observed) IN
  \/ /\ actor[a].part < Parts[At(a)]
     /\ actor' = [actor EXCEPT ![a].part = @ + 1, ![a].partial = partial]
     /\ UNCHANGED todo
  \/ /\ actor[a].part = Parts[At(a)]
     /\ Finish(a, IF partial THEN "fail" ELSE "ack")

\* The channel has got the payload.
Receive(a) ==
  LET x == <<At(a), actor[a].part>> IN
  /\ received' = received \cup {x}
  /\ doubled' = doubled \cup {d \in {At(a)} : x \in received}

\* The channel accepts the payload.
PayloadSent(a) ==
  /\ actor[a].at = "sending"
  /\ Receive(a)
  /\ PayloadDone(a, TRUE)
  /\ UNCHANGED <<disk, passes, up, faults,
                 acked, aborted, attempts, shared, excused>>

\* (mistake) Every error settles the delivery.
ErrorThrownSettles(a, kind) ==
  /\ Finish(a, "ack")
  /\ UNCHANGED aborted

\* An error leaves deliverOutboundPayloadsCore: an abort is acknowledged, a
\* permanent error quarantines an entry that is replayed.
ErrorThrown(a, kind) ==
  \/ /\ kind = "abort" /\ IsLive(a)
     /\ aborted' = aborted \cup {At(a)}
     /\ Finish(a, "ack")
  \/ /\ kind = "permanent" /\ ~IsLive(a)
     /\ Finish(a, "move")
     /\ UNCHANGED aborted
  \/ /\ kind = "transient" \/ (kind = "permanent" /\ IsLive(a))
     /\ Finish(a, "fail")
     /\ UNCHANGED aborted

\* The channel reports an error, perhaps late for what it has delivered.
PayloadFails(a, kind, late) ==
  LET d == At(a) IN
  /\ actor[a].at = "sending"
  /\ kind = "abort" => IsLive(a) /\ ~late
  /\ IF late THEN Receive(a) ELSE UNCHANGED <<received, doubled>>
  /\ Excuse(d, late \/ Parts[d] > 1)
  /\ \/ d \in BestEffort /\ PayloadDone(a, FALSE) /\ UNCHANGED aborted
     \/ d \notin BestEffort /\ ErrorThrown(a, kind)
  /\ UNCHANGED <<disk, passes, up, faults, acked, attempts>>

-----------------------------------------------------------------------------
\* (mistake) The file is removed without being renamed first, after which
\* the marker is written.
AckWithoutRename(a) ==
  /\ actor[a].at = "ack"
  /\ marker' = marker \cup {At(a)}
  /\ acked' = acked \cup {At(a)}
  /\ GoTo(a, "unlink")
  /\ NoIoError
  /\ UNCHANGED <<json, entry, failed, logged, passes, up,
                 received, doubled, aborted, attempts>>

\* ackDelivery, phase 1: <id>.json becomes <id>.delivered.
Ack(a) ==
  LET d == At(a) IN
  /\ actor[a].at = "ack"
  /\ \/ /\ d \in json
        /\ RemoveFile(d)
        /\ marker' = marker \cup {d}
        /\ acked' = acked \cup {d}
        /\ GoTo(a, "unlink")
        /\ NoIoError
     \/ /\ d \notin json
        /\ marker' = marker \ {d}
        /\ Done(a)
        /\ NoIoError
        /\ UNCHANGED <<json, entry, acked>>
     \/ /\ d \in json
        /\ IoError(a)
        /\ IF IsLive(a) THEN Done(a) ELSE GoTo(a, "fail")
        /\ UNCHANGED <<json, entry, marker, acked>>
  /\ UNCHANGED <<failed, logged, passes, up,
                 received, doubled, aborted, attempts>>

\* ackDelivery, phase 2.
Unlink(a) ==
  /\ actor[a].at = "unlink"
  /\ marker' = marker \ {At(a)}
  /\ Done(a)
  /\ UNCHANGED <<json, entry, failed, logged, passes, up, faults,
                 history>>

\* failDelivery up to its readFile.
FailRead(a) ==
  LET d == At(a) IN
  /\ actor[a].at = "fail"
  /\ \/ /\ d \in json
        /\ actor' = [actor EXCEPT ![a].at = "rewrite", ![a].retry = entry[d].retry]
        /\ NoIoError
        /\ UNCHANGED todo
     \/ d \notin json /\ Done(a) /\ NoIoError
     \/ IoError(a) /\ Done(a)
  /\ UNCHANGED <<disk, passes, up,
                 received, doubled, acked, aborted, attempts>>

\* (mistake) The failed attempt is dated but not counted.
RewriteUncounted(a) ==
  /\ actor[a].at = "rewrite"
  /\ json' = json \cup {At(a)}
  /\ entry' = [entry EXCEPT ![At(a)].age = 0]
  /\ NoIoError
  /\ Done(a)
  /\ UNCHANGED <<marker, failed, logged, passes, up,
                 received, doubled, acked, aborted, attempts>>

\* failDelivery, the rest: what was read is written with one more retry.
Rewrite(a) ==
  LET d == At(a) IN
  /\ actor[a].at = "rewrite"
  /\ \/ /\ json' = json \cup {d}
        /\ entry' = [entry EXCEPT ![d] = [retry |-> actor[a].retry + 1,
                                          age |-> 0]]
        /\ NoIoError
     \/ IoError(a) /\ UNCHANGED <<json, entry>>
  /\ Done(a)
  /\ UNCHANGED <<marker, failed, logged, passes, up,
                 received, doubled, acked, aborted, attempts>>

\* (mistake) The file is copied to failed/.
MoveKeepsFile(a) ==
  /\ actor[a].at = "move"
  /\ failed' = failed \cup {At(a)}
  /\ NoIoError
  /\ Done(a)
  /\ UNCHANGED <<json, entry, marker, logged, passes, up,
                 received, doubled, acked, aborted, attempts>>

\* moveToFailed
Move(a) ==
  LET d == At(a) IN
  /\ actor[a].at = "move"
  /\ \/ /\ d \in json
        /\ RemoveFile(d)
        /\ failed' = failed \cup {d}
        /\ NoIoError
     \/ d \notin json /\ NoIoError /\ UNCHANGED <<json, entry, failed>>
     \/ d \in json /\ IoError(a) /\ UNCHANGED <<json, entry, failed>>
  /\ Done(a)
  /\ UNCHANGED <<marker, logged, passes, up,
                 received, doubled, acked, aborted, attempts>>

-----------------------------------------------------------------------------
\* The entries on disk, oldest first.
OldestFirst ==
  {s \in Lists(json) :
     \A i, j \in DOMAIN s : i < j =>
       \E k, l \in DOMAIN logged : k < l /\ logged[k] = s[i] /\ logged[l] = s[j]}

\* A start of the gateway, after a crash or in the same process:
\* recoverPendingDeliveries loads the files, oldest first, and removes
\* leftover markers (loadPendingDeliveries).
StartPass(p) ==
  /\ p = passes + 1
  /\ passes' = p
  /\ up' = TRUE
  /\ \E pending \in OldestFirst :
       /\ todo' = [todo EXCEPT ![p] =
                     [i \in DOMAIN pending |-> [d |-> pending[i],
                                                seen |-> entry[pending[i]]]]]
       /\ actor' = [actor EXCEPT ![p].at = IF pending = <<>> THEN "over" ELSE "loop"]
  /\ marker' = {}
  /\ shared' = shared \cup {d \in json : \E a \in Actors : Holds(a, d)}
  /\ UNCHANGED <<json, entry, failed, logged, faults, excused,
                 received, doubled, acked, aborted, attempts>>

\* The time budget of the pass (maxRecoveryMs) is used up.
OutOfBudget(p) ==
  /\ actor[p].at = "loop"
  /\ todo[p] # <<>>
  /\ actor' = [actor EXCEPT ![p].at = "cut"]
  /\ todo' = [todo EXCEPT ![p] = <<>>]
  /\ UNCHANGED <<disk, passes, up, faults, history>>

\* (mistake) An entry that has to wait ends the pass.
DeferEndsPass(p) ==
  /\ ~Eligible(Head(todo[p]).seen)
  /\ actor' = [actor EXCEPT ![p].at = "over"]
  /\ todo' = [todo EXCEPT ![p] = <<>>]
  /\ UNCHANGED attempts

\* An entry that has to wait is left to a later start.
Defer(p) ==
  /\ ~Eligible(Head(todo[p]).seen)
  /\ Done(p)
  /\ UNCHANGED attempts

Replay(p) ==
  LET d == At(p) IN
  /\ Eligible(Head(todo[p]).seen)
  /\ StartSending(p)
  /\ attempts' = [attempts EXCEPT ![d] = @ + 1]
  /\ UNCHANGED todo

\* One round of the loop of the pass, as the entry was when it was loaded.
Round(p) ==
  /\ actor[p].at = "loop"
  /\ \/ /\ todo[p] = <<>>
        /\ GoTo(p, "over")
        /\ UNCHANGED attempts
     \/ /\ todo[p] # <<>>
        /\ Head(todo[p]).seen.retry >= MaxRetries
        /\ GoTo(p, "move")
        /\ UNCHANGED attempts
     \/ /\ todo[p] # <<>>
        /\ Head(todo[p]).seen.retry < MaxRetries
        /\ Defer(p) \/ Replay(p)
  /\ UNCHANGED <<disk, passes, up, faults,
                 received, doubled, acked, aborted, shared, excused>>

\* The process dies; the files stay.
Crash ==
  /\ up
  /\ faults < MaxFaults
  /\ faults' = faults + 1
  /\ up' = FALSE
  /\ excused' = excused \cup {d \in Deliveries :
       \E a \in Actors : /\ Holds(a, d) /\ At(a) = d
                         /\ actor[a].at = "ack" \/ actor[a].part > 1}
  /\ actor' = [a \in Actors |-> IF Busy(a) THEN Returned
                                           ELSE actor[a]]
  /\ todo' = [p \in Passes |-> <<>>]
  /\ UNCHANGED <<disk, passes,
                 received, doubled, acked, aborted, attempts, shared>>

Older(e) == IF e.age < LongAgo THEN [e EXCEPT !.age = @ + 1] ELSE e

\* Time passes.
Tick ==
  /\ entry' = [d \in Deliveries |-> Older(entry[d])]
  /\ todo' = [p \in Passes |->
       [i \in DOMAIN todo[p] |-> [todo[p][i] EXCEPT !.seen = Older(@)]]]
  /\ <<entry', todo'>> # <<entry, todo>>
  /\ UNCHANGED <<json, marker, failed, logged, actor, passes, up, faults, history>>

\* One await of an actor resolves.
Step(a) ==
  \/ PayloadSent(a)
  \/ \E kind \in {"transient", "permanent", "abort"}, late \in BOOLEAN :
       PayloadFails(a, kind, late)
  \/ Ack(a) \/ Unlink(a) \/ FailRead(a) \/ Rewrite(a) \/ Move(a)

Next ==
  \/ \E d \in Deliveries : Enqueue(d)
  \/ \E a \in Actors : Step(a)
  \/ \E p \in Passes : StartPass(p) \/ OutOfBudget(p) \/ Round(p)
  \/ Crash
  \/ Tick

Spec == Init /\ [][Next]_vars

-----------------------------------------------------------------------------
AllReceived(d) == \A i \in 1 .. Parts[d] : <<d, i>> \in received

\* CHANGELOG.md: "prevent lost outbound messages after gateway restarts".  A
\* logged delivery is on disk until the channel has got all of it or its
\* caller has aborted it, whatever crashes, fails or overlaps.
Kept(d) ==
  d \in json \cup failed \/ (d \in acked /\ (AllReceived(d) \/ d \in aborted))

NothingForgotten == \A d \in ToSet(logged) \ BestEffort : Kept(d)

\* deliver.ts claims the same of bestEffort deliveries whose failures it
\* observes: "so we can call failDelivery instead of ackDelivery".
BestEffortNotForgotten == \A d \in ToSet(logged) \ shared : Kept(d)

\* A payload reaches the channel twice only if the gateway crashed between
\* sending and acknowledging, the attempt failed or seemed to, a file could
\* not be written, or a pass replayed what was being sent.
DoubledForAReason == doubled \subseteq excused \cup shared

\* What is acknowledged or quarantined never comes back to the queue, unless
\* two actors held it: a failing one rewrites the file it has read before.
SettledForGood ==
  \A d \in Deliveries :
    (d \in acked \cup failed /\ d \notin shared) => d \notin json

\* A delivery is replayed at most MAX_RETRIES times, plus once for each
\* attempt whose failure a crash or a failing disk left unrecorded.
RetriesBounded ==
  \A d \in Deliveries : d \notin shared => attempts[d] <= MaxRetries + faults

\* A replay comes no sooner after the last recorded failure than the delay
\* of that many retries.
BackoffKept ==
  [][\A p \in Passes :
       (actor[p].at = "loop" /\ actor'[p].at = "sending" /\ At(p) \notin shared)
         => LET e == entry[At(p)] IN
            e.retry > 0 => e.age >= BackoffOf(e.retry)]_vars

\* CHANGELOG.md: "continuing to recover ready entries behind deferred ones".
\* An entry that is ready leaves the list of a pass only once it was replayed,
\* or the budget is used up, or the process dies.
ReadyIsReached ==
  [][\A p \in Passes : Len(todo'[p]) < Len(todo[p]) =>
       \/ actor'[p].at = "cut" \/ ~up'
       \/ actor[p].at # "loop" /\ todo'[p] = Tail(todo[p])
       \/ \A e \in ToSet(todo[p]) \ ToSet(todo'[p]) : ~Eligible(e.seen)]_vars

\* Retries are counted and stop at the limit (delivery-queue.ts:161-176, 351).
Inv == TypeOK /\ RetriesBounded
=============================================================================
