-------------------------- MODULE DeliveryQueueProofs --------------------------
(***************************************************************************)
(* Proofs about DeliveryQueue, for any deliveries, payloads, delays, starts *)
(* of the gateway, crashes and failing file operations.                     *)
(***************************************************************************)
EXTENDS DeliveryQueue, FiniteSetTheorems, SequenceTheorems, TLAPS

Logged == ToSet(logged)
Items == [d : Deliveries, seen : Entries]
ActorStates == [at : Steps, part : Nat, partial : BOOLEAN, retry : Nat]
Payloads == {x \in Deliveries \X Nat : x[2] \in 1 .. Parts[x[1]]}

\* The steps of an actor that is at work on a delivery.
Working == {"sending", "ack", "unlink", "fail", "rewrite", "move"}

DiskTypes ==
  /\ json \subseteq Deliveries /\ marker \subseteq Deliveries /\ failed \subseteq Deliveries
  /\ entry \in [Deliveries -> Entries]
  /\ logged \in Seq(Deliveries)
ActorTypes ==
  /\ actor \in [Actors -> ActorStates] /\ todo \in [Passes -> Seq(Items)]
  /\ passes \in 0 .. MaxPasses /\ up \in BOOLEAN /\ faults \in 0 .. MaxFaults
HistoryTypes ==
  /\ received \subseteq Payloads
  /\ doubled \cup acked \cup aborted \cup shared \cup excused \subseteq Deliveries
  /\ attempts \in [Deliveries -> Nat]
LoggedOnce == \A i, j \in 1 .. Len(logged) : logged[i] = logged[j] => i = j
Types == DiskTypes /\ ActorTypes /\ HistoryTypes /\ LoggedOnce /\ IsFiniteSet(json)

\* What has a file, or had one, was logged.
LoggedFirst == json \cup acked \cup failed \subseteq Logged

\* A delivery that is not sent yet is new.
IdleIsNew == \A d \in Deliveries : actor[d].at = "idle" => d \notin Logged /\ attempts[d] = 0

\* Where a sender can be; one without a file only sends.
SenderSteps ==
  \A d \in Deliveries :
    /\ actor[d].at \in {"idle", "sending", "ack", "unlink", "fail", "rewrite", "over"}
    /\ actor[d].at \in {"ack", "unlink", "fail", "rewrite"} => d \in Logged

\* What a pass has to do, once each.
ListsAreFit ==
  \A p \in Passes :
    /\ \A i \in 1 .. Len(todo[p]) : todo[p][i].d \in Logged
    /\ \A i, j \in 1 .. Len(todo[p]) : todo[p][i].d = todo[p][j].d => i = j

\* Passes start one by one; a pass at work has an entry to work on.
PassSteps ==
  \A p \in Passes :
    /\ p > passes => actor[p].at = "idle"
    /\ actor[p].at \in {"idle", "over", "cut"} => todo[p] = <<>>
    /\ actor[p].at \in Working => todo[p] # <<>>

PartInRange ==
  \A a \in Actors : actor[a].at = "sending" => actor[a].part \in 1 .. Parts[At(a)]

BaseInv == /\ Types /\ LoggedFirst /\ IdleIsNew /\ SenderSteps
           /\ ListsAreFit /\ PassSteps /\ PartInRange

-----------------------------------------------------------------------------
(* Constants and lists                                                      *)

LEMMA Constants ==
  /\ MaxPasses \in Nat /\ MaxFaults \in Nat /\ MaxRetries \in Nat \ {0}
  /\ Parts \in [Deliveries -> Nat \ {0}]
  /\ \A a \in Actors : ~IsLive(a) => a \in Passes
  /\ \A p \in Passes : ~IsLive(p) /\ p \in Nat \ {0} /\ p <= MaxPasses /\ p \in Actors
  /\ \A d \in Deliveries : IsLive(d) /\ d \in Actors /\ d \notin Passes
<1>1. /\ MaxPasses \in Nat /\ MaxFaults \in Nat /\ MaxRetries \in Nat \ {0}
      /\ Parts \in [Deliveries -> Nat \ {0}]
      /\ Deliveries \cap Passes = {}
  BY DeliveryAssumption DEF Passes
<1>2. \A p \in Passes : p \in Nat \ {0} /\ p <= MaxPasses
  BY <1>1 DEF Passes
<1> QED
  BY <1>1, <1>2 DEF IsLive, Actors

LEMMA ActorRecords ==
  /\ NobodyYet \in ActorStates /\ NobodyYet.at = "idle" /\ NobodyYet.part = 0
  /\ Returned \in ActorStates /\ Returned.at = "over"
  /\ \A s \in Steps : /\ [NobodyYet EXCEPT !.at = s] \in ActorStates
                      /\ [NobodyYet EXCEPT !.at = s].at = s
BY DEF NobodyYet, Returned, ActorStates, Steps

\* Delays grow up to the longest one.
LEMMA Delays ==
  /\ LongAgo \in Nat /\ Never \in Nat /\ Never = LongAgo + 1
  /\ \A n \in Nat \ {0} : BackoffOf(n) \in Nat /\ BackoffOf(n) <= LongAgo
  /\ \A m, n \in Nat \ {0} : m <= n => BackoffOf(m) <= BackoffOf(n)
<1> DEFINE last == Len(Backoff)
<1>1. /\ Backoff \in Seq(Nat) /\ last \in Nat \ {0}
      /\ \A i, j \in 1 .. last : i <= j => Backoff[i] <= Backoff[j]
      /\ \A i \in 1 .. last : Backoff[i] \in Nat
  BY DeliveryAssumption
<1>2. LongAgo = Backoff[last] /\ \A n : BackoffOf(n) = IF n <= last THEN Backoff[n] ELSE Backoff[last]
  BY DEF LongAgo, BackoffOf
<1> HIDE DEF last
<1>3. last \in 1 .. last /\ LongAgo \in Nat
  BY <1>1, <1>2
<1>4. Never \in Nat /\ Never = LongAgo + 1
  BY <1>3 DEF Never
<1>5. \A n \in Nat \ {0} : BackoffOf(n) \in Nat /\ BackoffOf(n) <= LongAgo
  <2> SUFFICES ASSUME NEW n \in Nat \ {0} PROVE BackoffOf(n) \in Nat /\ BackoffOf(n) <= LongAgo
    OBVIOUS
  <2>1. CASE n <= last
    <3>1. n \in 1 .. last
      BY <1>1, <2>1
    <3>2. Backoff[n] \in Nat /\ Backoff[n] <= Backoff[last]
      BY <1>1, <1>3, <2>1, <3>1
    <3> QED
      BY <1>2, <2>1, <3>2
  <2>2. CASE ~(n <= last)
    <3>1. BackoffOf(n) = LongAgo
      BY <1>2, <2>2
    <3> QED
      BY <1>3, <3>1
  <2> QED
    BY <2>1, <2>2
<1>6. \A m, n \in Nat \ {0} : m <= n => BackoffOf(m) <= BackoffOf(n)
  <2> SUFFICES ASSUME NEW m \in Nat \ {0}, NEW n \in Nat \ {0}, m <= n
               PROVE  BackoffOf(m) <= BackoffOf(n)
    OBVIOUS
  <2>1. CASE n <= last
    <3>1. m \in 1 .. last /\ n \in 1 .. last /\ m <= last
      BY <1>1, <2>1
    <3> QED
      BY <1>1, <1>2, <2>1, <3>1
  <2>2. CASE ~(n <= last)
    <3>1. BackoffOf(n) = LongAgo
      BY <1>2, <2>2
    <3> QED
      BY <1>5, <3>1
  <2> QED
    BY <2>1, <2>2
<1> QED
  BY <1>3, <1>4, <1>5, <1>6

LEMMA EntryRecords ==
  /\ Fresh \in Entries /\ Fresh.retry = 0
  /\ \A n \in Nat : [retry |-> n, age |-> 0] \in Entries
  /\ \A e \in Entries : Older(e) \in Entries /\ Older(e).retry = e.retry
<1>1. 0 \in 0 .. Never /\ Never \in 0 .. Never /\ LongAgo \in Nat
  BY Delays
<1>2. Fresh \in Entries /\ Fresh.retry = 0
  BY <1>1 DEF Fresh, Entries
<1>3. \A n \in Nat : [retry |-> n, age |-> 0] \in Entries
  BY <1>1 DEF Entries
<1>4. ASSUME NEW e \in Entries
      PROVE  Older(e) \in Entries /\ Older(e).retry = e.retry
  <2>1. e.age \in 0 .. Never
    BY DEF Entries
  <2>2. CASE e.age < LongAgo
    <3>1. Older(e) = [e EXCEPT !.age = e.age + 1]
      BY <2>2 DEF Older
    <3>2. e.age + 1 \in 0 .. Never
      BY <2>1, <2>2, Delays
    <3> QED
      BY <3>1, <3>2 DEF Entries
  <2>3. CASE ~(e.age < LongAgo)
    BY <2>3 DEF Older
  <2> QED
    BY <2>2, <2>3
<1> QED
  BY <1>2, <1>3, <1>4

LEMMA Elements ==
  ASSUME NEW S, NEW s \in Seq(S)
  PROVE  /\ Len(s) \in Nat
         /\ \A x : x \in ToSet(s) <=> \E i \in 1 .. Len(s) : s[i] = x
BY DEF ToSet

\* A list without its first entry.
LEMMA TailItems ==
  ASSUME NEW S, NEW s \in Seq(S), s # <<>>
  PROVE  /\ Head(s) = s[1] /\ 1 \in 1 .. Len(s) /\ Head(s) \in S
         /\ Tail(s) \in Seq(S) /\ Len(Tail(s)) = Len(s) - 1
         /\ \A i \in 1 .. Len(Tail(s)) : i + 1 \in 1 .. Len(s) /\ Tail(s)[i] = s[i + 1]
BY HeadTailProperties

\* A list of a finite set has all of its elements.
LEMMA ListsCover ==
  ASSUME NEW S, IsFiniteSet(S), NEW s \in Lists(S)
  PROVE  /\ s \in Seq(S) /\ ToSet(s) = S
         /\ \A i, j \in 1 .. Len(s) : s[i] = s[j] => i = j
<1> DEFINE n == Cardinality(S)
<1>1. n \in Nat
  BY FS_CardinalityType
<1>2. s \in [1 .. n -> S] /\ \A i, j \in 1 .. n : s[i] = s[j] => i = j
  BY DEF Lists, Injection, IsInjective
<1>3. s \in Seq(S) /\ Len(s) = n
  BY <1>1, <1>2
<1>4. s \in Surjection(1 .. n, S)
  <2>1. Cardinality(1 .. n) = n
    BY <1>1, FS_Interval
  <2>2. s \in Injection(1 .. n, S)
    BY DEF Lists
  <2> HIDE DEF n
  <2> QED
    BY <2>1, <2>2, FS_Injection DEF n
<1>5. ToSet(s) = S
  BY <1>2, <1>3, <1>4 DEF ToSet, Surjection
<1> QED
  BY <1>2, <1>3, <1>5

-----------------------------------------------------------------------------
(* What an actor does to itself                                             *)

Others(a) ==
  /\ actor' \in [Actors -> ActorStates] /\ todo' \in [Passes -> Seq(Items)]
  /\ \A b \in Actors : b # a => actor'[b] = actor[b]
  /\ \A p \in Passes : p # a => todo'[p] = todo[p]

\* It goes on with the same delivery ...
Continues(a, steps) == Others(a) /\ todo' = todo /\ actor'[a].at \in steps

\* ... or is done with it.
Leaves(a) ==
  /\ Others(a)
  /\ IF IsLive(a) THEN todo' = todo /\ actor'[a].at = "over"
     ELSE todo'[a] = Tail(todo[a]) /\ actor'[a].at = "loop"

\* Whoever works has a delivery.
LEMMA AtWork ==
  ASSUME BaseInv, NEW a \in Actors,
         actor[a].at \in Working \/ (actor[a].at = "loop" /\ a \in Passes /\ todo[a] # <<>>)
  PROVE  /\ At(a) \in Deliveries /\ Holds(a, At(a)) /\ Parts[At(a)] \in Nat \ {0}
         /\ IsLive(a) => At(a) = a
         /\ ~IsLive(a) => /\ a \in Passes /\ todo[a] \in Seq(Items) /\ todo[a] # <<>>
                          /\ Head(todo[a]) \in Items /\ At(a) = Head(todo[a]).d
                          /\ At(a) \in Logged
<1>1. CASE IsLive(a)
  BY <1>1, Constants DEF IsLive, At, Holds, Busy, Working
<1>2. CASE ~IsLive(a)
  <2>1. a \in Passes /\ todo[a] \in Seq(Items) /\ todo[a] # <<>>
    BY <1>2, Constants DEF BaseInv, PassSteps, Types, ActorTypes
  <2>2. Head(todo[a]) \in Items /\ Head(todo[a]) = todo[a][1] /\ 1 \in 1 .. Len(todo[a])
    BY <2>1, TailItems
  <2>3. At(a) = Head(todo[a]).d /\ At(a) \in Deliveries
    BY <1>2, <2>2 DEF At, Items
  <2>4. At(a) \in Logged
    BY <2>1, <2>2, <2>3 DEF BaseInv, ListsAreFit
  <2>5. Head(todo[a]) \in ToSet(todo[a])
    BY <2>1, <2>2, Elements
  <2>6. Holds(a, At(a))
    BY <1>2, <2>3, <2>5 DEF Holds, Busy, Working
  <2> QED
    BY <1>2, <2>1, <2>2, <2>3, <2>4, <2>6, Constants
<1> QED
  BY <1>1, <1>2

LEMMA DoneEffect ==
  ASSUME BaseInv, NEW a \in Actors, Done(a),
         actor[a].at \in Working \/ (actor[a].at = "loop" /\ a \in Passes /\ todo[a] # <<>>)
  PROVE  Leaves(a)
<1>1. /\ actor \in [Actors -> ActorStates] /\ todo \in [Passes -> Seq(Items)]
  BY DEF BaseInv, Types, ActorTypes
<1>2. CASE IsLive(a)
  <2>1. actor' = [actor EXCEPT ![a] = Returned] /\ UNCHANGED todo
    BY <1>2 DEF Done
  <2> QED
    BY <1>1, <1>2, <2>1, ActorRecords DEF Leaves, Others
<1>3. CASE ~IsLive(a)
  <2> DEFINE loop == [NobodyYet EXCEPT !.at = "loop"]
  <2>1. actor' = [actor EXCEPT ![a] = loop] /\ todo' = [todo EXCEPT ![a] = Tail(todo[a])]
    BY <1>3 DEF Done
  <2>2. loop \in ActorStates /\ loop.at = "loop"
    BY ActorRecords DEF Steps
  <2>3. a \in Passes /\ Tail(todo[a]) \in Seq(Items)
    BY <1>3, AtWork, TailItems
  <2> HIDE DEF loop
  <2> QED
    BY <1>1, <1>3, <2>1, <2>2, <2>3 DEF Leaves, Others
<1> QED
  BY <1>2, <1>3

LEMMA GoToEffect ==
  ASSUME BaseInv, NEW a \in Actors, NEW step \in Steps, GoTo(a, step)
  PROVE  Continues(a, {step}) /\ actor'[a] = [actor[a] EXCEPT !.at = step]
<1>1. /\ actor \in [Actors -> ActorStates] /\ todo \in [Passes -> Seq(Items)]
      /\ actor' = [actor EXCEPT ![a] = [actor[a] EXCEPT !.at = step]] /\ todo' = todo
  BY DEF BaseInv, Types, ActorTypes, GoTo
<1> DEFINE new == [actor[a] EXCEPT !.at = step]
<1>2. new \in ActorStates /\ new.at = step
  BY <1>1 DEF ActorStates
<1> HIDE DEF new
<1>3. actor' = [actor EXCEPT ![a] = new]
  BY <1>1 DEF new
<1> QED
  BY <1>1, <1>2, <1>3 DEF Continues, Others, new

LEMMA FinishEffect ==
  ASSUME BaseInv, NEW a \in Actors, actor[a].at = "sending", NEW step \in Working, Finish(a, step)
  PROVE  \/ Continues(a, {step}) /\ At(a) \in Logged
         \/ Leaves(a) /\ IsLive(a) /\ a \notin Logged
<1>1. /\ actor \in [Actors -> ActorStates] /\ todo \in [Passes -> Seq(Items)] /\ todo' = todo
  BY DEF BaseInv, Types, ActorTypes, Finish
<1> DEFINE s == IF IsLive(a) /\ a \notin Logged THEN "over" ELSE step
           new == [NobodyYet EXCEPT !.at = s]
<1>2. actor' = [actor EXCEPT ![a] = new]
  BY DEF Finish, Logged
<1>3. new \in ActorStates /\ new.at = s
  BY ActorRecords DEF Steps, Working
<1> HIDE DEF new
<1>4. Others(a) /\ actor'[a].at = s
  BY <1>1, <1>2, <1>3 DEF Others
<1>5. CASE IsLive(a) /\ a \notin Logged
  BY <1>1, <1>4, <1>5 DEF Leaves
<1>6. CASE ~(IsLive(a) /\ a \notin Logged)
  <2>1. At(a) \in Logged
    BY <1>6, AtWork DEF Working
  <2> QED
    BY <1>1, <1>4, <1>6, <2>1 DEF Continues
<1> QED
  BY <1>5, <1>6

\* The next payload, or the end of the attempt.
LEMMA PayloadDoneEffect ==
  ASSUME BaseInv, NEW a \in Actors, actor[a].at = "sending", NEW ok \in BOOLEAN, PayloadDone(a, ok)
  PROVE  LET partial == actor[a].partial \/ (~ok /\ IsLive(a) /\ a \in Observed) IN
         \/ /\ actor[a].part < Parts[At(a)]
            /\ Continues(a, {"sending"})
            /\ actor'[a].part = actor[a].part + 1 /\ actor'[a].partial = partial
         \/ /\ actor[a].part = Parts[At(a)]
            /\ Continues(a, {"fail"}) /\ At(a) \in Logged /\ partial
         \/ /\ actor[a].part = Parts[At(a)]
            /\ Continues(a, {"ack"}) /\ At(a) \in Logged /\ ~partial
         \/ Leaves(a) /\ IsLive(a) /\ a \notin Logged
<1> DEFINE partial == actor[a].partial \/ (~ok /\ IsLive(a) /\ a \in Observed)
<1>1. /\ actor \in [Actors -> ActorStates] /\ todo \in [Passes -> Seq(Items)]
      /\ actor[a] \in ActorStates
  BY DEF BaseInv, Types, ActorTypes
<1>2. partial \in BOOLEAN
  BY <1>1 DEF ActorStates
<1>3. CASE /\ actor[a].part < Parts[At(a)]
           /\ actor' = [actor EXCEPT ![a].part = @ + 1, ![a].partial = partial]
           /\ UNCHANGED todo
  <2> DEFINE new == [actor[a] EXCEPT !.part = actor[a].part + 1, !.partial = partial]
  <2>1. actor' = [actor EXCEPT ![a] = new]
    BY <1>1, <1>3
  <2> HIDE DEF partial
  <2>2. /\ new \in ActorStates /\ new.at = "sending" /\ new.part = actor[a].part + 1
        /\ new.partial = partial
    <3>1. actor[a].part + 1 \in Nat
      BY <1>1 DEF ActorStates
    <3>2. new \in ActorStates
      BY <1>1, <1>2, <3>1, Zenon DEF ActorStates
    <3>3. new.at = "sending" /\ new.part = actor[a].part + 1
      BY <1>1 DEF ActorStates
    <3>4. new.partial = partial
      BY <1>1, Zenon DEF ActorStates
    <3> QED
      BY <3>2, <3>3, <3>4
  <2> HIDE DEF new
  <2>3. Continues(a, {"sending"}) /\ actor'[a] = new
    BY <1>1, <1>3, <2>1, <2>2 DEF Continues, Others
  <2> QED
    BY <1>3, <2>2, <2>3 DEF partial
<1>4. CASE actor[a].part = Parts[At(a)] /\ Finish(a, IF partial THEN "fail" ELSE "ack")
  <2>1. CASE partial
    <3>1. Finish(a, "fail")
      BY <1>4, <2>1
    <3> QED
      BY <1>4, <2>1, <3>1, FinishEffect DEF Working
  <2>2. CASE ~partial
    <3>1. Finish(a, "ack")
      BY <1>4, <2>2
    <3> QED
      BY <1>4, <2>2, <3>1, FinishEffect DEF Working
  <2> QED
    BY <2>1, <2>2
<1> QED
  BY <1>3, <1>4 DEF PayloadDone

\* An error ends the attempt; only an abort is acknowledged.
LEMMA PayloadFailsEffect ==
  ASSUME BaseInv, NEW a \in Actors, NEW late \in BOOLEAN,
         NEW kind \in {"transient", "permanent", "abort"}, PayloadFails(a, kind, late)
  PROVE  /\ actor[a].at = "sending"
         /\ \/ At(a) \in BestEffort /\ PayloadDone(a, FALSE) /\ UNCHANGED aborted
            \/ /\ Continues(a, {"ack"}) /\ At(a) \in Logged
               /\ aborted' = aborted \cup {At(a)}
            \/ Continues(a, {"move"}) /\ ~IsLive(a) /\ At(a) \in Logged /\ UNCHANGED aborted
            \/ Continues(a, {"fail"}) /\ At(a) \in Logged /\ UNCHANGED aborted
            \/ Leaves(a) /\ IsLive(a) /\ a \notin Logged /\ aborted' \subseteq aborted \cup {At(a)}
<1>1. actor[a].at = "sending"
  BY DEF PayloadFails
<1>2. CASE At(a) \in BestEffort /\ PayloadDone(a, FALSE) /\ UNCHANGED aborted
  BY <1>1, <1>2
<1>3. CASE Finish(a, "ack") /\ aborted' = aborted \cup {At(a)}
  BY <1>1, <1>3, FinishEffect DEF Working
<1>4. CASE ~IsLive(a) /\ Finish(a, "move") /\ UNCHANGED aborted
  BY <1>1, <1>4, FinishEffect DEF Working
<1>5. CASE Finish(a, "fail") /\ UNCHANGED aborted
  BY <1>1, <1>5, FinishEffect DEF Working
<1> QED
  BY <1>1, <1>2, <1>3, <1>4, <1>5 DEF PayloadFails, ErrorThrown

-----------------------------------------------------------------------------
(* Types and places are kept                                                *)

LEMMA AtStays ==
  ASSUME NEW a \in Actors, Others(a)
  PROVE  /\ \A b \in Actors : b # a => At(b)' = At(b)
         /\ todo' = todo => At(a)' = At(a)
BY Constants DEF Others, At

LEMMA ActorKeeps ==
  ASSUME BaseInv, NEW a \in Actors,
         actor[a].at \in Working \/ (actor[a].at = "loop" /\ a \in Passes /\ todo[a] # <<>>),
         UNCHANGED <<logged, passes>>,
         \A d \in Deliveries \ Logged : attempts'[d] = attempts[d],
         \/ Leaves(a)
         \/ /\ Continues(a, Working)
            /\ IsLive(a) => actor'[a].at # "move" /\ (a \in Logged \/ actor'[a].at = "sending")
            /\ actor'[a].at = "sending" => actor'[a].part \in 1 .. Parts[At(a)]
  PROVE  IdleIsNew' /\ SenderSteps' /\ ListsAreFit' /\ PassSteps' /\ PartInRange'
<1>1. Logged' = Logged /\ Others(a)
  BY DEF Logged, Leaves, Continues
<1>2. \A b \in Actors : b # a => actor'[b] = actor[b]
  BY <1>1 DEF Others
<1>3. IdleIsNew'
  BY <1>1, <1>2, Constants DEF BaseInv, IdleIsNew, Leaves, Continues, Working
<1>4. SenderSteps'
  BY <1>1, <1>2, Constants DEF BaseInv, SenderSteps, Leaves, Continues, Working
<1>5. ListsAreFit'
  <2> SUFFICES ASSUME NEW p \in Passes
               PROVE  /\ \A i \in 1 .. Len(todo'[p]) : todo'[p][i].d \in Logged
                      /\ \A i, j \in 1 .. Len(todo'[p]) :
                           todo'[p][i].d = todo'[p][j].d => i = j
    BY <1>1 DEF ListsAreFit
  <2>1. CASE todo'[p] = todo[p]
    BY <2>1 DEF BaseInv, ListsAreFit
  <2>2. CASE todo'[p] # todo[p]
    <3>1. p = a /\ ~IsLive(a) /\ todo'[p] = Tail(todo[p])
      BY <1>1, <2>2 DEF Others, Leaves, Continues
    <3>2. todo[p] \in Seq(Items) /\ todo[p] # <<>>
      BY <3>1, AtWork
    <3>3. /\ Len(todo[p]) \in Nat /\ Len(todo'[p]) \in Nat
          /\ \A i \in 1 .. Len(todo'[p]) :
               i \in Int /\ i + 1 \in 1 .. Len(todo[p]) /\ todo'[p][i] = todo[p][i + 1]
      BY <3>1, <3>2, TailItems
    <3>4. \A i \in 1 .. Len(todo'[p]) : todo'[p][i].d \in Logged
      BY <3>3 DEF BaseInv, ListsAreFit
    <3>5. ASSUME NEW i \in 1 .. Len(todo'[p]), NEW j \in 1 .. Len(todo'[p]),
                 todo'[p][i].d = todo'[p][j].d
          PROVE  i = j
      <4>1. todo[p][i + 1].d = todo[p][j + 1].d
        BY <3>3, <3>5
      <4>2. i + 1 = j + 1
        BY <3>3, <4>1 DEF BaseInv, ListsAreFit
      <4> QED
        BY <3>3, <4>2
    <3> QED
      BY <3>4, <3>5
  <2> QED
    BY <2>1, <2>2
<1>6. PassSteps'
  <2> SUFFICES ASSUME NEW p \in Passes
               PROVE  /\ p > passes => actor'[p].at = "idle"
                      /\ actor'[p].at \in {"idle", "over", "cut"} => todo'[p] = <<>>
                      /\ actor'[p].at \in Working => todo'[p] # <<>>
    BY DEF PassSteps
  <2>1. CASE p # a
    BY <1>1, <1>2, <2>1, Constants DEF BaseInv, PassSteps, Others
  <2>2. CASE p = a
    <3>1. ~IsLive(a) /\ ~(p > passes)
      BY <2>2, Constants DEF BaseInv, PassSteps, Working
    <3>2. CASE Leaves(a)
      BY <2>2, <3>1, <3>2 DEF Leaves, Working
    <3>3. CASE Continues(a, Working)
      BY <2>2, <3>1, <3>3 DEF BaseInv, PassSteps, Continues, Working
    <3> QED
      BY <3>2, <3>3
  <2> QED
    BY <2>1, <2>2
<1>7. PartInRange'
  <2> SUFFICES ASSUME NEW b \in Actors, actor'[b].at = "sending"
               PROVE  actor'[b].part \in 1 .. Parts[At(b)']
    BY DEF PartInRange
  <2>1. CASE b # a
    BY <1>1, <1>2, <2>1, AtStays DEF BaseInv, PartInRange
  <2>2. CASE b = a
    BY <1>1, <2>2, AtStays DEF Leaves, Continues
  <2> QED
    BY <2>1, <2>2
<1> QED
  BY <1>3, <1>4, <1>5, <1>6, <1>7

\* What the steps of an actor leave alone.
Frame ==
  /\ UNCHANGED <<logged, passes, up>>
  /\ attempts' \in [Deliveries -> Nat]
  /\ \A d \in Deliveries \ Logged : attempts'[d] = attempts[d]

\* The files and the histories are of the right kind.
RestTypes ==
  /\ json \subseteq Deliveries /\ marker \subseteq Deliveries /\ failed \subseteq Deliveries
  /\ entry \in [Deliveries -> Entries] /\ faults \in 0 .. MaxFaults
  /\ received \subseteq Payloads
  /\ doubled \cup acked \cup aborted \cup shared \cup excused \subseteq Deliveries
  /\ IsFiniteSet(json)

LEMMA BaseOfActor ==
  ASSUME BaseInv, NEW a \in Actors, Frame,
         actor[a].at \in Working \/ (actor[a].at = "loop" /\ a \in Passes /\ todo[a] # <<>>),
         \/ Leaves(a)
         \/ /\ Continues(a, Working)
            /\ IsLive(a) => actor'[a].at # "move" /\ (a \in Logged \/ actor'[a].at = "sending")
            /\ actor'[a].at = "sending" => actor'[a].part \in 1 .. Parts[At(a)],
         RestTypes', LoggedFirst'
  PROVE  BaseInv'
<1>1. actor' \in [Actors -> ActorStates] /\ todo' \in [Passes -> Seq(Items)]
  BY DEF Leaves, Continues, Others
<1>2. Types'
  BY <1>1 DEF RestTypes, Frame, BaseInv, Types, DiskTypes, ActorTypes, HistoryTypes, LoggedOnce
<1> QED
  BY <1>2, ActorKeeps DEF BaseInv, Frame

\* Faults are counted; the deliveries they excuse are known.
LEMMA FaultTypes ==
  ASSUME BaseInv, NEW a \in Actors, actor[a].at \in Working \/ (IsLive(a) /\ a \in Deliveries),
         IoError(a) \/ NoIoError
  PROVE  /\ faults' \in 0 .. MaxFaults /\ shared' = shared
         /\ excused' \subseteq Deliveries /\ excused \subseteq excused'
         /\ IoError(a) => faults' = faults + 1 /\ excused' = excused \cup {At(a)}
<1>1. At(a) \in Deliveries
  BY AtWork DEF At
<1> QED
  BY <1>1, Constants DEF BaseInv, Types, ActorTypes, HistoryTypes, IoError, NoIoError, Excuse

\* The channel gets what it is sent.
LEMMA ReceiveTypes ==
  ASSUME BaseInv, NEW a \in Actors, actor[a].at = "sending",
         Receive(a) \/ UNCHANGED <<received, doubled>>
  PROVE  received' \subseteq Payloads /\ doubled' \subseteq Deliveries /\ received \subseteq received'
<1>1. At(a) \in Deliveries /\ actor[a].part \in 1 .. Parts[At(a)] /\ Parts[At(a)] \in Nat
  BY AtWork DEF BaseInv, PartInRange, Working
<1>2. <<At(a), actor[a].part>> \in Payloads
  BY <1>1 DEF Payloads
<1> QED
  BY <1>1, <1>2 DEF BaseInv, Types, HistoryTypes, Receive

LEMMA BasePayload ==
  ASSUME BaseInv, NEW a \in Actors,
         \/ PayloadSent(a)
         \/ \E kind \in {"transient", "permanent", "abort"}, late \in BOOLEAN :
              PayloadFails(a, kind, late)
  PROVE  BaseInv'
<1>1. actor[a].at = "sending" /\ actor[a].at \in Working
  BY DEF PayloadSent, PayloadFails, Working
<1>2. /\ Frame /\ UNCHANGED <<disk, faults, acked>>
      /\ Receive(a) \/ UNCHANGED <<received, doubled>>
  BY DEF PayloadSent, PayloadFails, Frame, disk, BaseInv, Types, HistoryTypes
<1>3. At(a) \in Deliveries /\ Parts[At(a)] \in Nat /\ actor[a].part \in 1 .. Parts[At(a)]
  BY <1>1, AtWork DEF BaseInv, PartInRange
<1>4. aborted' \subseteq Deliveries /\ excused' \subseteq Deliveries /\ shared' \subseteq Deliveries
  BY <1>3 DEF PayloadSent, PayloadFails, ErrorThrown, Excuse, BaseInv, Types, HistoryTypes
<1>5. RestTypes'
  BY <1>1, <1>2, <1>4, ReceiveTypes
     DEF RestTypes, BaseInv, Types, DiskTypes, ActorTypes, HistoryTypes, disk
<1>6. LoggedFirst'
  BY <1>2 DEF BaseInv, LoggedFirst, Logged, disk
<1>7. ASSUME NEW ok \in BOOLEAN, PayloadDone(a, ok)
      PROVE  BaseInv'
  <2>1. \/ /\ actor[a].part < Parts[At(a)]
           /\ Continues(a, {"sending"}) /\ actor'[a].part = actor[a].part + 1
        \/ Continues(a, {"fail"}) /\ At(a) \in Logged
        \/ Continues(a, {"ack"}) /\ At(a) \in Logged
        \/ Leaves(a)
    BY <1>1, <1>7, PayloadDoneEffect
  <2>2. CASE /\ actor[a].part < Parts[At(a)]
             /\ Continues(a, {"sending"}) /\ actor'[a].part = actor[a].part + 1
    <3>1. actor'[a].part \in 1 .. Parts[At(a)]
      BY <1>3, <2>2
    <3> QED
      BY <1>1, <1>2, <1>5, <1>6, <2>2, <3>1, BaseOfActor DEF Continues, Working
  <2>3. CASE Continues(a, {"fail", "ack"}) /\ At(a) \in Logged
    BY <1>1, <1>2, <1>5, <1>6, <2>3, BaseOfActor DEF Continues, Working, At
  <2>4. CASE Leaves(a)
    BY <1>1, <1>2, <1>5, <1>6, <2>4, BaseOfActor
  <2> QED
    BY <2>1, <2>2, <2>3, <2>4 DEF Continues
<1>8. CASE PayloadSent(a)
  BY <1>7, <1>8 DEF PayloadSent
<1>9. ASSUME NEW kind \in {"transient", "permanent", "abort"}, NEW late \in BOOLEAN,
             PayloadFails(a, kind, late)
      PROVE  BaseInv'
  <2>1. \/ PayloadDone(a, FALSE)
        \/ Continues(a, {"ack", "fail"}) /\ At(a) \in Logged
        \/ Continues(a, {"move"}) /\ ~IsLive(a)
        \/ Leaves(a)
    BY <1>9, PayloadFailsEffect DEF Continues
  <2>2. CASE Continues(a, {"ack", "fail"}) /\ At(a) \in Logged
    BY <1>1, <1>2, <1>5, <1>6, <2>2, BaseOfActor DEF Continues, Working, At
  <2>3. CASE Continues(a, {"move"}) /\ ~IsLive(a)
    BY <1>1, <1>2, <1>5, <1>6, <2>3, BaseOfActor DEF Continues, Working
  <2>4. CASE Leaves(a)
    BY <1>1, <1>2, <1>5, <1>6, <2>4, BaseOfActor
  <2> QED
    BY <1>7, <2>1, <2>2, <2>3, <2>4
<1> QED
  BY <1>8, <1>9

\* What failDelivery has read.
LEMMA ReadEffect ==
  ASSUME BaseInv, NEW a \in Actors, actor[a].at = "fail", UNCHANGED todo,
         actor' = [actor EXCEPT ![a].at = "rewrite", ![a].retry = entry[At(a)].retry]
  PROVE  Continues(a, {"rewrite"}) /\ actor'[a].retry = entry[At(a)].retry
<1> DEFINE n == entry[At(a)].retry
           new == [actor[a] EXCEPT !.at = "rewrite", !.retry = n]
<1>1. /\ actor \in [Actors -> ActorStates] /\ todo \in [Passes -> Seq(Items)]
      /\ actor[a] \in ActorStates
  BY DEF BaseInv, Types, ActorTypes
<1>2. n \in Nat
  BY AtWork DEF Working, BaseInv, Types, DiskTypes, Entries
<1> HIDE DEF n
<1>3. actor' = [actor EXCEPT ![a] = new]
  BY <1>1 DEF n
<1>4. new \in ActorStates /\ new.at = "rewrite" /\ new.retry = n
  BY <1>1, <1>2 DEF ActorStates, Steps
<1> HIDE DEF new
<1> QED
  BY <1>1, <1>3, <1>4 DEF Continues, Others, n

LEMMA FileStepMoves ==
  ASSUME BaseInv, NEW a \in Actors,
         Ack(a) \/ Unlink(a) \/ FailRead(a) \/ Rewrite(a) \/ Move(a)
  PROVE  /\ actor[a].at \in Working \ {"sending"}
         /\ At(a) \in Logged
         /\ \/ Leaves(a)
            \/ Continues(a, {"unlink", "rewrite"}) /\ At(a) \in json
            \/ Continues(a, {"fail"}) /\ ~IsLive(a)
<1>1. actor[a].at \in Working \ {"sending"}
  BY DEF Ack, Unlink, FailRead, Rewrite, Move, Working
<1>2. At(a) \in Logged
  <2>1. CASE IsLive(a)
    BY <1>1, <2>1, Constants DEF At, BaseInv, SenderSteps, Working, IsLive
  <2>2. CASE ~IsLive(a)
    BY <1>1, <2>2, AtWork
  <2> QED
    BY <2>1, <2>2
<1>3. CASE Done(a)
  BY <1>1, <1>2, <1>3, DoneEffect
<1>4. CASE Ack(a) /\ ~Done(a)
  <2>1. \/ At(a) \in json /\ GoTo(a, "unlink")
        \/ ~IsLive(a) /\ GoTo(a, "fail")
    BY <1>4 DEF Ack
  <2>2. "unlink" \in Steps /\ "fail" \in Steps
    BY DEF Steps
  <2> QED
    BY <1>1, <1>2, <2>1, <2>2, GoToEffect DEF Continues
<1>5. CASE FailRead(a) /\ ~Done(a)
  <2>1. At(a) \in json /\ Continues(a, {"rewrite"})
    BY <1>5, ReadEffect DEF FailRead
  <2> QED
    BY <1>1, <1>2, <2>1 DEF Continues
<1> QED
  BY <1>3, <1>4, <1>5 DEF Unlink, Rewrite, Move

LEMMA BaseFileStep ==
  ASSUME BaseInv, NEW a \in Actors,
         Ack(a) \/ Unlink(a) \/ FailRead(a) \/ Rewrite(a) \/ Move(a)
  PROVE  BaseInv'
<1>1. /\ actor[a].at \in Working /\ At(a) \in Logged /\ At(a) \in Deliveries
      /\ Leaves(a) \/ Continues(a, {"unlink", "rewrite"}) \/ (Continues(a, {"fail"}) /\ ~IsLive(a))
  BY FileStepMoves, AtWork
<1>2. Frame /\ UNCHANGED <<received, doubled, aborted>>
  BY DEF Ack, Unlink, FailRead, Rewrite, Move, Frame, disk, history, BaseInv, Types,
         HistoryTypes
<1>3. \/ IoError(a) \/ NoIoError
      \/ UNCHANGED <<faults, shared, excused>>
  BY DEF Ack, Unlink, FailRead, Rewrite, Move, history
<1>4. faults' \in 0 .. MaxFaults /\ shared' \subseteq Deliveries /\ excused' \subseteq Deliveries
  BY <1>1, <1>3, FaultTypes DEF BaseInv, Types, ActorTypes, HistoryTypes
<1>5. /\ json' \in {json, json \cup {At(a)}, json \ {At(a)}}
      /\ marker' \in {marker, marker \cup {At(a)}, marker \ {At(a)}}
      /\ failed' \in {failed, failed \cup {At(a)}}
      /\ acked' \in {acked, acked \cup {At(a)}}
  BY DEF Ack, Unlink, FailRead, Rewrite, Move, RemoveFile, disk, history
<1>6. entry' \in [Deliveries -> Entries]
  <2>1. entry \in [Deliveries -> Entries]
    BY DEF BaseInv, Types, DiskTypes
  <2>2. actor[a].retry + 1 \in Nat
    BY DEF BaseInv, Types, ActorTypes, ActorStates
  <2>3. [retry |-> actor[a].retry + 1, age |-> 0] \in Entries
    BY <2>2, EntryRecords
  <2>4. CASE entry' = [entry EXCEPT ![At(a)] = Fresh]
    BY <2>1, <2>4, EntryRecords
  <2>5. CASE entry' = [entry EXCEPT ![At(a)] = [retry |-> actor[a].retry + 1, age |-> 0]]
    BY <2>1, <2>3, <2>5
  <2> QED
    BY <2>1, <2>4, <2>5 DEF Ack, Unlink, FailRead, Rewrite, Move, RemoveFile, disk, history
<1>7. IsFiniteSet(json')
  BY <1>5, FS_AddElement, FS_RemoveElement DEF BaseInv, Types
<1>8. RestTypes'
  BY <1>1, <1>2, <1>4, <1>5, <1>6, <1>7 DEF RestTypes, BaseInv, Types, DiskTypes, HistoryTypes
<1>9. LoggedFirst'
  BY <1>1, <1>2, <1>5 DEF BaseInv, LoggedFirst, Logged, Frame
<1>10. CASE Leaves(a)
  BY <1>1, <1>2, <1>8, <1>9, <1>10, BaseOfActor
<1>11. CASE Continues(a, {"unlink", "rewrite"})
  BY <1>1, <1>2, <1>8, <1>9, <1>11, BaseOfActor DEF Continues, Working, At
<1>12. CASE Continues(a, {"fail"}) /\ ~IsLive(a)
  BY <1>1, <1>2, <1>8, <1>9, <1>12, BaseOfActor DEF Continues, Working
<1> QED
  BY <1>1, <1>10, <1>11, <1>12

\* A new delivery is logged, or sent without a file.
LEMMA BaseEnqueue ==
  ASSUME BaseInv, NEW d \in Deliveries, Enqueue(d)
  PROVE  /\ BaseInv' /\ Others(d) /\ todo' = todo
         /\ actor'[d].at = "sending" /\ actor'[d].part = 1 /\ actor'[d].partial = FALSE
         /\ d \notin Logged /\ actor[d].at = "idle" /\ At(d) = d /\ At(d)' = d
         /\ Logged \subseteq Logged' /\ Logged' \subseteq Logged \cup {d}
         /\ json \subseteq json' /\ json' \subseteq json \cup {d} /\ (d \in Logged' => d \in json')
         /\ \A x \in Deliveries : x # d => entry'[x] = entry[x]
         /\ d \in json' \/ d \in excused'
         /\ shared' = shared /\ excused \subseteq excused' /\ faults <= faults'
<1>1. /\ actor[d].at = "idle" /\ d \in Actors /\ IsLive(d) /\ At(d) = d /\ At(d)' = d
      /\ UNCHANGED <<marker, failed, todo, passes, up, received, doubled, acked, aborted, attempts>>
      /\ d \notin Logged
  BY Constants DEF Enqueue, At, BaseInv, IdleIsNew
<1>2. /\ DiskTypes /\ ActorTypes /\ HistoryTypes /\ LoggedOnce /\ IsFiniteSet(json)
  BY DEF BaseInv, Types
<1>3. /\ Others(d) /\ actor'[d].at = "sending" /\ actor'[d].part = 1
      /\ actor'[d].partial = FALSE
  <2> DEFINE new == [NobodyYet EXCEPT !.at = "sending", !.part = 1]
  <2>1. /\ new \in ActorStates /\ new.at = "sending" /\ new.part = 1 /\ new.partial = FALSE
    BY DEF NobodyYet, ActorStates, Steps
  <2>2. actor' = [actor EXCEPT ![d] = new]
    BY DEF Enqueue, StartSending
  <2> HIDE DEF new
  <2> QED
    BY <1>1, <1>2, <2>1, <2>2 DEF Others, ActorTypes
<1>4. /\ faults' \in 0 .. MaxFaults /\ shared' \subseteq Deliveries /\ excused' \subseteq Deliveries
  BY <1>1, <1>2, FaultTypes DEF Enqueue, HistoryTypes
<1>5. \/ /\ json' = json \cup {d} /\ logged' = Append(logged, d)
         /\ entry' = [entry EXCEPT ![d] = Fresh]
      \/ UNCHANGED <<json, entry, logged>>
  BY DEF Enqueue
<1>6. /\ logged' \in Seq(Deliveries) /\ LoggedOnce'
      /\ Logged \subseteq Logged' /\ Logged' \subseteq Logged \cup {d} /\ json' \subseteq Logged'
  <2>1. CASE UNCHANGED <<json, logged>>
    BY <1>2, <2>1 DEF DiskTypes, LoggedOnce, Logged, BaseInv, LoggedFirst
  <2>2. CASE json' = json \cup {d} /\ logged' = Append(logged, d)
    <3>1. /\ logged \in Seq(Deliveries) /\ Len(logged) \in Nat
          /\ \A i \in 1 .. Len(logged) : logged[i] # d
      BY <1>1, <1>2 DEF DiskTypes, Logged, ToSet
    <3>2. /\ logged' \in Seq(Deliveries) /\ Len(logged') = Len(logged) + 1
          /\ logged'[Len(logged) + 1] = d
          /\ \A i \in 1 .. Len(logged) : logged'[i] = logged[i]
      BY <2>2, <3>1, AppendProperties
    <3>3. LoggedOnce'
      BY <1>2, <3>1, <3>2 DEF LoggedOnce
    <3>4. \A x : x \in Logged' <=> x \in Logged \/ x = d
      <4>1. \A i \in 1 .. Len(logged') : i \in 1 .. Len(logged) \/ i = Len(logged) + 1
        BY <3>1, <3>2
      <4>2. Len(logged) + 1 \in 1 .. Len(logged')
        BY <3>1, <3>2
      <4>3. \A i \in 1 .. Len(logged) : i \in 1 .. Len(logged')
        BY <3>1, <3>2
      <4>4. \A x : x \in Logged <=> \E i \in 1 .. Len(logged) : logged[i] = x
        BY <3>1, Elements DEF Logged
      <4>5. \A x : x \in Logged' <=> \E i \in 1 .. Len(logged') : logged'[i] = x
        BY <3>2, Elements DEF Logged
      <4> QED
        BY <3>2, <4>1, <4>2, <4>3, <4>4, <4>5
    <3> QED
      BY <2>2, <3>2, <3>3, <3>4 DEF BaseInv, LoggedFirst
  <2> QED
    BY <1>5, <2>1, <2>2
<1>7. IsFiniteSet(json') /\ json' \subseteq Deliveries /\ entry' \in [Deliveries -> Entries]
  BY <1>2, <1>5, FS_AddElement, EntryRecords DEF DiskTypes
<1>8. Types'
  BY <1>1, <1>2, <1>3, <1>4, <1>6, <1>7
     DEF Types, DiskTypes, ActorTypes, HistoryTypes, Others
<1>9. LoggedFirst'
  BY <1>1, <1>6 DEF BaseInv, LoggedFirst
<1>10. \A b \in Actors : b # d => actor'[b] = actor[b]
  BY <1>3 DEF Others
<1>11. IdleIsNew' /\ SenderSteps'
  <2>1. \A x \in Deliveries : x # d => (x \in Logged' <=> x \in Logged)
    BY <1>6
  <2> QED
    BY <1>1, <1>3, <1>10, <2>1, Constants DEF BaseInv, IdleIsNew, SenderSteps
<1>12. ListsAreFit' /\ PassSteps'
  BY <1>1, <1>6, <1>10, Constants DEF BaseInv, ListsAreFit, PassSteps
<1>13. PartInRange'
  <2> SUFFICES ASSUME NEW b \in Actors, actor'[b].at = "sending"
               PROVE  actor'[b].part \in 1 .. Parts[At(b)']
    BY DEF PartInRange
  <2>1. CASE b # d
    BY <1>1, <1>3, <1>10, <2>1, AtStays DEF BaseInv, PartInRange
  <2>2. CASE b = d
    BY <1>1, <1>3, <2>2, Constants
  <2> QED
    BY <2>1, <2>2
<1>14. /\ json \subseteq json' /\ json' \subseteq json \cup {d} /\ (d \in Logged' => d \in json')
       /\ \A x \in Deliveries : x # d => entry'[x] = entry[x]
       /\ d \in json' \/ d \in excused'
       /\ shared' = shared /\ excused \subseteq excused' /\ faults <= faults'
  <2>1. /\ shared' = shared /\ excused \subseteq excused' /\ faults <= faults'
        /\ IoError(d) => d \in excused'
    <3>1. IoError(d) \/ NoIoError
      BY DEF Enqueue
    <3>2. faults \in Nat
      BY <1>2 DEF ActorTypes
    <3>3. CASE IoError(d)
      BY <1>1, <3>2, <3>3 DEF IoError, Excuse
    <3>4. CASE NoIoError
      BY <1>1, <3>2, <3>4 DEF NoIoError, IoError, Excuse
    <3> QED
      BY <3>1, <3>3, <3>4
  <2>2. CASE UNCHANGED <<json, entry, logged>> /\ IoError(d)
    BY <1>1, <2>1, <2>2 DEF Logged
  <2>3. CASE json' = json \cup {d} /\ entry' = [entry EXCEPT ![d] = Fresh]
    BY <1>2, <2>1, <2>3 DEF DiskTypes
  <2> QED
    BY <2>2, <2>3 DEF Enqueue
<1> QED
  BY <1>1, <1>3, <1>6, <1>8, <1>9, <1>11, <1>12, <1>13, <1>14 DEF BaseInv

-----------------------------------------------------------------------------
(* Passes, crashes and the clock                                            *)

\* One round of a pass: it is over, or turns to its first entry.
LEMMA RoundEffect ==
  ASSUME BaseInv, NEW p \in Passes, Round(p)
  PROVE  /\ actor[p].at = "loop" /\ p \in Actors /\ ~IsLive(p)
         /\ UNCHANGED <<disk, passes, up, faults, received, doubled, acked, aborted,
                        shared, excused>>
         /\ \/ Continues(p, {"over"}) /\ todo[p] = <<>> /\ UNCHANGED attempts
            \/ Continues(p, {"move"}) /\ todo[p] # <<>> /\ UNCHANGED attempts
            \/ /\ Leaves(p) /\ todo[p] # <<>> /\ UNCHANGED attempts
               /\ ~Eligible(Head(todo[p]).seen)
            \/ /\ Continues(p, {"sending"}) /\ todo[p] # <<>>
               /\ actor'[p].part = 1 /\ actor'[p].partial = FALSE
               /\ Eligible(Head(todo[p]).seen) /\ Head(todo[p]).seen.retry < MaxRetries
               /\ attempts' = [attempts EXCEPT ![At(p)] = @ + 1]
<1>1. /\ actor[p].at = "loop" /\ p \in Actors /\ ~IsLive(p)
      /\ UNCHANGED <<disk, passes, up, faults, received, doubled, acked, aborted, shared, excused>>
  BY Constants DEF Round
<1>2. "over" \in Steps /\ "move" \in Steps
  BY DEF Steps
<1>3. CASE todo[p] = <<>> /\ GoTo(p, "over") /\ UNCHANGED attempts
  BY <1>1, <1>2, <1>3, GoToEffect
<1>4. CASE todo[p] # <<>> /\ GoTo(p, "move") /\ UNCHANGED attempts
  BY <1>1, <1>2, <1>4, GoToEffect
<1>5. CASE todo[p] # <<>> /\ Defer(p)
  <2>1. Leaves(p)
    BY <1>1, <1>5, DoneEffect DEF Defer
  <2> QED
    BY <1>1, <1>5, <2>1 DEF Defer
<1>6. CASE todo[p] # <<>> /\ Head(todo[p]).seen.retry < MaxRetries /\ Replay(p)
  <2> DEFINE new == [NobodyYet EXCEPT !.at = "sending", !.part = 1]
  <2>1. new \in ActorStates /\ new.at = "sending" /\ new.part = 1 /\ new.partial = FALSE
    BY DEF NobodyYet, ActorStates, Steps
  <2>2. actor' = [actor EXCEPT ![p] = new] /\ UNCHANGED todo
    BY <1>6 DEF Replay, StartSending
  <2>3. actor \in [Actors -> ActorStates] /\ todo \in [Passes -> Seq(Items)]
    BY DEF BaseInv, Types, ActorTypes
  <2> HIDE DEF new
  <2>4. /\ Continues(p, {"sending"}) /\ actor'[p].part = 1 /\ actor'[p].partial = FALSE
    BY <1>1, <2>1, <2>2, <2>3 DEF Continues, Others
  <2> QED
    BY <1>1, <1>6, <2>4 DEF Replay
<1> QED
  BY <1>1, <1>3, <1>4, <1>5, <1>6 DEF Round

LEMMA BaseRound ==
  ASSUME BaseInv, NEW p \in Passes, Round(p)
  PROVE  BaseInv'
<1>1. /\ actor[p].at = "loop" /\ p \in Actors /\ ~IsLive(p)
      /\ UNCHANGED <<disk, passes, up, faults, received, doubled, acked, aborted, shared, excused>>
      /\ UNCHANGED <<json, entry, marker, failed, logged>>
  BY RoundEffect DEF disk
<1>2. RestTypes' /\ LoggedFirst'
  BY <1>1 DEF RestTypes, LoggedFirst, Logged, BaseInv, Types, DiskTypes, ActorTypes, HistoryTypes
<1>3. CASE Continues(p, {"over"}) /\ todo[p] = <<>> /\ UNCHANGED attempts
  <2>1. Types'
    BY <1>1, <1>2, <1>3 DEF RestTypes, Continues, Others, BaseInv, Types, DiskTypes, ActorTypes,
                            HistoryTypes, LoggedOnce
  <2>2. \A b \in Actors : b # p => actor'[b] = actor[b]
    BY <1>3 DEF Continues, Others
  <2>3. IdleIsNew' /\ SenderSteps' /\ ListsAreFit'
    BY <1>1, <1>3, <2>2, Constants
       DEF BaseInv, IdleIsNew, SenderSteps, ListsAreFit, Logged, Continues
  <2>4. PassSteps'
    BY <1>1, <1>3, <2>2, Constants DEF BaseInv, PassSteps, Continues, Working
  <2>5. PartInRange'
    BY <1>3, <2>2, AtStays, Constants DEF BaseInv, PartInRange, Continues
  <2> QED
    BY <1>2, <2>1, <2>3, <2>4, <2>5 DEF BaseInv
<1>4. CASE Continues(p, {"move"}) /\ todo[p] # <<>> /\ UNCHANGED attempts
  <2>1. Frame
    BY <1>1, <1>4 DEF Frame, BaseInv, Types, HistoryTypes
  <2> QED
    BY <1>1, <1>2, <1>4, <2>1, BaseOfActor DEF Continues, Working
<1>5. CASE Leaves(p) /\ todo[p] # <<>> /\ UNCHANGED attempts
  <2>1. Frame
    BY <1>1, <1>5 DEF Frame, BaseInv, Types, HistoryTypes
  <2> QED
    BY <1>1, <1>2, <1>5, <2>1, BaseOfActor
<1>6. CASE /\ Continues(p, {"sending"}) /\ todo[p] # <<>> /\ actor'[p].part = 1
           /\ attempts' = [attempts EXCEPT ![At(p)] = @ + 1]
  <2>1. At(p) \in Deliveries /\ At(p) \in Logged /\ Parts[At(p)] \in Nat \ {0}
    BY <1>1, <1>6, AtWork
  <2>2. Frame
    BY <1>1, <1>6, <2>1 DEF Frame, BaseInv, Types, HistoryTypes
  <2>3. actor'[p].part \in 1 .. Parts[At(p)]
    BY <1>6, <2>1
  <2> QED
    BY <1>1, <1>2, <1>6, <2>2, <2>3, BaseOfActor DEF Continues, Working
<1> QED
  BY <1>3, <1>4, <1>5, <1>6, RoundEffect

\* A pass that stops has nothing left to do.
LEMMA BudgetEffect ==
  ASSUME BaseInv, NEW p \in Passes, OutOfBudget(p)
  PROVE  /\ Others(p) /\ actor[p].at = "loop" /\ actor'[p].at = "cut" /\ todo'[p] = <<>>
         /\ UNCHANGED <<disk, passes, up, faults, history>>
<1> DEFINE new == [actor[p] EXCEPT !.at = "cut"]
<1>1. /\ actor \in [Actors -> ActorStates] /\ todo \in [Passes -> Seq(Items)] /\ p \in Actors
      /\ actor[p] \in ActorStates
  BY Constants DEF BaseInv, Types, ActorTypes
<1>2. new \in ActorStates /\ new.at = "cut"
  BY <1>1 DEF ActorStates, Steps
<1>3. /\ actor' = [actor EXCEPT ![p] = new] /\ todo' = [todo EXCEPT ![p] = <<>>]
      /\ actor[p].at = "loop" /\ UNCHANGED <<disk, passes, up, faults, history>>
  BY <1>1 DEF OutOfBudget
<1> HIDE DEF new
<1>4. <<>> \in Seq(Items)
  OBVIOUS
<1> QED
  BY <1>1, <1>2, <1>3, <1>4 DEF Others

LEMMA BaseBudget ==
  ASSUME BaseInv, NEW p \in Passes, OutOfBudget(p)
  PROVE  BaseInv'
<1>1. /\ Others(p) /\ actor[p].at = "loop" /\ actor'[p].at = "cut" /\ todo'[p] = <<>>
      /\ UNCHANGED <<json, entry, marker, failed, logged, passes, up, faults>>
      /\ UNCHANGED <<received, doubled, acked, aborted, attempts, shared, excused>>
  BY BudgetEffect DEF disk, history
<1>2. Types'
  BY <1>1 DEF Others, BaseInv, Types, DiskTypes, ActorTypes, HistoryTypes, LoggedOnce
<1>3. /\ \A b \in Actors : b # p => actor'[b] = actor[b]
      /\ \A b \in Passes : b # p => todo'[b] = todo[b]
      /\ p \in Actors /\ ~IsLive(p)
  BY <1>1, Constants DEF Others
<1>4. LoggedFirst' /\ IdleIsNew' /\ SenderSteps' /\ ListsAreFit'
  BY <1>1, <1>3, Constants DEF BaseInv, LoggedFirst, IdleIsNew, SenderSteps, ListsAreFit, Logged
<1>5. PassSteps'
  BY <1>1, <1>3, Constants DEF BaseInv, PassSteps, Working
<1>6. PartInRange'
  BY <1>1, <1>3, AtStays DEF BaseInv, PartInRange
<1> QED
  BY <1>2, <1>4, <1>5, <1>6 DEF BaseInv

\* A pass has all the files there are to do, once each, as they are.
LEMMA StartEffect ==
  ASSUME BaseInv, NEW p \in Passes, StartPass(p)
  PROVE  /\ Others(p) /\ actor[p].at = "idle" /\ todo[p] = <<>>
         /\ actor'[p].at = IF todo'[p] = <<>> THEN "over" ELSE "loop"
         /\ \A i \in 1 .. Len(todo'[p]) :
              todo'[p][i].d \in json /\ todo'[p][i].seen = entry[todo'[p][i].d]
         /\ \A i, j \in 1 .. Len(todo'[p]) : todo'[p][i].d = todo'[p][j].d => i = j
         /\ p > passes /\ passes' = p /\ up' = TRUE /\ marker' = {}
         /\ shared' = shared \cup {d \in json : \E a \in Actors : Holds(a, d)}
         /\ UNCHANGED <<json, entry, failed, logged, faults, excused,
                        received, doubled, acked, aborted, attempts>>
<1>1. /\ actor \in [Actors -> ActorStates] /\ todo \in [Passes -> Seq(Items)] /\ p \in Actors
      /\ actor[p] \in ActorStates /\ passes \in 0 .. MaxPasses /\ json \subseteq Deliveries
      /\ entry \in [Deliveries -> Entries] /\ IsFiniteSet(json)
  BY Constants DEF BaseInv, Types, ActorTypes, DiskTypes
<1>2. /\ p = passes + 1 /\ p > passes /\ passes' = p /\ up' = TRUE /\ marker' = {}
      /\ shared' = shared \cup {d \in json : \E a \in Actors : Holds(a, d)}
      /\ UNCHANGED <<json, entry, failed, logged, faults, excused,
                     received, doubled, acked, aborted, attempts>>
  BY <1>1, Constants DEF StartPass
<1>3. actor[p].at = "idle" /\ todo[p] = <<>>
  BY <1>2 DEF BaseInv, PassSteps
<1>4. PICK s \in OldestFirst :
        /\ todo' = [todo EXCEPT ![p] = [i \in DOMAIN s |-> [d |-> s[i], seen |-> entry[s[i]]]]]
        /\ actor' = [actor EXCEPT ![p].at = IF s = <<>> THEN "over" ELSE "loop"]
  BY DEF StartPass
<1>5. /\ s \in Seq(json) /\ \A i, j \in 1 .. Len(s) : s[i] = s[j] => i = j
  BY <1>1, ListsCover DEF OldestFirst
<1> DEFINE list == [i \in DOMAIN s |-> [d |-> s[i], seen |-> entry[s[i]]]]
           at == IF s = <<>> THEN "over" ELSE "loop"
           new == [actor[p] EXCEPT !.at = at]
<1>6. /\ list \in Seq(Items) /\ Len(list) = Len(s)
      /\ \A i \in 1 .. Len(s) : list[i] = [d |-> s[i], seen |-> entry[s[i]]] /\ s[i] \in json
  <2>1. DOMAIN s = 1 .. Len(s) /\ Len(s) \in Nat /\ \A i \in 1 .. Len(s) : s[i] \in json
    BY <1>5
  <2>2. \A i \in 1 .. Len(s) : [d |-> s[i], seen |-> entry[s[i]]] \in Items
    BY <1>1, <2>1 DEF Items
  <2>3. list \in [1 .. Len(s) -> Items]
    BY <2>1, <2>2
  <2>4. list \in Seq(Items) /\ Len(list) = Len(s)
    BY <2>1, <2>3
  <2> QED
    BY <2>1, <2>4
<1>7. new \in ActorStates /\ new.at = at
  BY <1>1 DEF ActorStates, Steps
<1>8. todo' = [todo EXCEPT ![p] = list] /\ actor' = [actor EXCEPT ![p] = new]
  BY <1>1, <1>4
<1>9. list = <<>> <=> s = <<>>
  <2> HIDE DEF list
  <2> QED
    BY <1>5, <1>6
<1> HIDE DEF list, new
<1>10. Others(p) /\ todo'[p] = list /\ actor'[p] = new
  BY <1>1, <1>6, <1>7, <1>8 DEF Others
<1>11. \A i \in 1 .. Len(list) : list[i].d = s[i] /\ list[i].seen = entry[s[i]] /\ s[i] \in json
  <2> SUFFICES ASSUME NEW i \in 1 .. Len(s)
               PROVE  list[i].d = s[i] /\ list[i].seen = entry[s[i]] /\ s[i] \in json
    BY <1>6
  <2>1. list[i] = [d |-> s[i], seen |-> entry[s[i]]] /\ s[i] \in json
    BY <1>6
  <2> QED
    BY <2>1
<1>12. \A i, j \in 1 .. Len(list) : list[i].d = list[j].d => i = j
  BY <1>5, <1>6, <1>11
<1> QED
  BY <1>2, <1>3, <1>7, <1>9, <1>10, <1>11, <1>12

LEMMA BaseStart ==
  ASSUME BaseInv, NEW p \in Passes, StartPass(p)
  PROVE  BaseInv'
<1>1. /\ Others(p) /\ actor[p].at = "idle"
      /\ actor'[p].at = IF todo'[p] = <<>> THEN "over" ELSE "loop"
      /\ \A i \in 1 .. Len(todo'[p]) : todo'[p][i].d \in json
      /\ \A i, j \in 1 .. Len(todo'[p]) : todo'[p][i].d = todo'[p][j].d => i = j
      /\ p > passes /\ passes' = p /\ up' = TRUE /\ marker' = {}
      /\ shared' = shared \cup {d \in json : \E a \in Actors : Holds(a, d)}
      /\ UNCHANGED <<json, entry, failed, logged, faults, excused,
                     received, doubled, acked, aborted, attempts>>
  BY StartEffect
<1>2. Types'
  BY <1>1, Constants
     DEF Others, BaseInv, Types, DiskTypes, ActorTypes, HistoryTypes, LoggedOnce
<1>3. /\ \A b \in Actors : b # p => actor'[b] = actor[b]
      /\ \A b \in Passes : b # p => todo'[b] = todo[b]
      /\ p \in Actors /\ ~IsLive(p) /\ Logged' = Logged /\ json \subseteq Logged
  BY <1>1, Constants DEF Others, Logged, BaseInv, LoggedFirst
<1>4. LoggedFirst' /\ IdleIsNew' /\ SenderSteps'
  BY <1>1, <1>3, Constants DEF BaseInv, LoggedFirst, IdleIsNew, SenderSteps
<1>5. ListsAreFit'
  <2> SUFFICES ASSUME NEW b \in Passes
               PROVE  /\ \A i \in 1 .. Len(todo'[b]) : todo'[b][i].d \in Logged
                      /\ \A i, j \in 1 .. Len(todo'[b]) :
                           todo'[b][i].d = todo'[b][j].d => i = j
    BY <1>3 DEF ListsAreFit
  <2>1. CASE b = p
    BY <1>1, <1>3, <2>1
  <2>2. CASE b # p
    <3>1. todo'[b] = todo[b]
      BY <1>3, <2>2
    <3> QED
      BY <3>1 DEF BaseInv, ListsAreFit
  <2> QED
    BY <2>1, <2>2
<1>6. PassSteps'
  <2> SUFFICES ASSUME NEW b \in Passes
               PROVE  /\ b > p => actor'[b].at = "idle"
                      /\ actor'[b].at \in {"idle", "over", "cut"} => todo'[b] = <<>>
                      /\ actor'[b].at \in Working => todo'[b] # <<>>
    BY <1>1 DEF PassSteps
  <2>1. CASE b = p
    BY <1>1, <2>1, Constants DEF Working
  <2>2. CASE b # p
    <3>1. /\ actor'[b] = actor[b] /\ todo'[b] = todo[b]
      BY <1>3, <2>2, Constants
    <3>2. b > p => b > passes
      BY <1>1, Constants DEF BaseInv, Types, ActorTypes
    <3> QED
      BY <3>1, <3>2 DEF BaseInv, PassSteps
  <2> QED
    BY <2>1, <2>2
<1>7. PartInRange'
  BY <1>1, <1>3, AtStays DEF BaseInv, PartInRange
<1> QED
  BY <1>2, <1>4, <1>5, <1>6, <1>7 DEF BaseInv

LEMMA CrashEffect ==
  ASSUME BaseInv, Crash
  PROVE  /\ actor' \in [Actors -> ActorStates] /\ todo' \in [Passes -> Seq(Items)]
         /\ \A a \in Actors : actor'[a] = IF Busy(a) THEN Returned ELSE actor[a]
         /\ \A p \in Passes : todo'[p] = <<>>
         /\ \A a \in Actors : actor'[a].at \in {"idle", "over", "cut"}
         /\ UNCHANGED <<json, entry, marker, failed, logged, passes,
                        received, doubled, acked, aborted, attempts, shared>>
         /\ up' = FALSE /\ faults < MaxFaults /\ faults' = faults + 1
         /\ excused \subseteq excused' /\ excused' \subseteq Deliveries
<1>1. /\ actor \in [Actors -> ActorStates] /\ excused \subseteq Deliveries
  BY DEF BaseInv, Types, ActorTypes, HistoryTypes
<1>2. /\ actor' = [a \in Actors |-> IF Busy(a) THEN Returned ELSE actor[a]]
      /\ todo' = [p \in Passes |-> <<>>]
      /\ UNCHANGED <<json, entry, marker, failed, logged, passes,
                     received, doubled, acked, aborted, attempts, shared>>
      /\ up' = FALSE /\ faults < MaxFaults /\ faults' = faults + 1
  BY DEF Crash, disk
<1>3. \A a \in Actors : actor'[a] = IF Busy(a) THEN Returned ELSE actor[a]
  BY <1>2
<1>4. \A a \in Actors : actor'[a].at \in {"idle", "over", "cut"}
  BY <1>3, ActorRecords DEF Busy
<1>5. actor' \in [Actors -> ActorStates]
  BY <1>1, <1>2, ActorRecords
<1>6. <<>> \in Seq(Items)
  OBVIOUS
<1>7. excused \subseteq excused' /\ excused' \subseteq Deliveries
  BY <1>1 DEF Crash
<1> QED
  BY <1>2, <1>3, <1>4, <1>5, <1>6, <1>7

LEMMA BaseCrash ==
  ASSUME BaseInv, Crash
  PROVE  BaseInv'
<1>1. /\ actor' \in [Actors -> ActorStates] /\ todo' \in [Passes -> Seq(Items)]
      /\ \A a \in Actors : actor'[a] = IF Busy(a) THEN Returned ELSE actor[a]
      /\ \A p \in Passes : todo'[p] = <<>>
      /\ \A a \in Actors : actor'[a].at \in {"idle", "over", "cut"}
      /\ UNCHANGED <<json, entry, marker, failed, logged, passes,
                     received, doubled, acked, aborted, attempts, shared>>
      /\ up' = FALSE /\ faults < MaxFaults /\ faults' = faults + 1
      /\ excused' \subseteq Deliveries
  BY CrashEffect
<1>2. Types'
  <2>1. faults' \in 0 .. MaxFaults
    BY <1>1, Constants DEF BaseInv, Types, ActorTypes
  <2> QED
    BY <1>1, <2>1 DEF BaseInv, Types, DiskTypes, ActorTypes, HistoryTypes, LoggedOnce
<1>3. LoggedFirst' /\ IdleIsNew' /\ SenderSteps'
  BY <1>1, Constants, ActorRecords DEF BaseInv, LoggedFirst, IdleIsNew, SenderSteps, Logged
<1>4. ListsAreFit' /\ PartInRange'
  BY <1>1 DEF ListsAreFit, PartInRange
<1>5. PassSteps'
  BY <1>1, Constants DEF BaseInv, PassSteps, Working, Busy
<1> QED
  BY <1>2, <1>3, <1>4, <1>5 DEF BaseInv

\* Time changes the ages and nothing else.
LEMMA TickEffect ==
  ASSUME BaseInv, Tick
  PROVE  /\ entry' \in [Deliveries -> Entries] /\ todo' \in [Passes -> Seq(Items)]
         /\ \A d \in Deliveries : entry'[d] = Older(entry[d])
         /\ \A p \in Passes : /\ Len(todo'[p]) = Len(todo[p]) /\ (todo'[p] = <<>> <=> todo[p] = <<>>)
                              /\ \A i \in 1 .. Len(todo[p]) :
                                   /\ todo'[p][i].d = todo[p][i].d
                                   /\ todo'[p][i].seen = Older(todo[p][i].seen)
         /\ UNCHANGED <<json, marker, failed, logged, actor, passes, up, faults>>
         /\ UNCHANGED <<received, doubled, acked, aborted, attempts, shared, excused>>
<1>1. /\ entry \in [Deliveries -> Entries] /\ todo \in [Passes -> Seq(Items)]
  BY DEF BaseInv, Types, DiskTypes, ActorTypes
<1>2. /\ entry' = [d \in Deliveries |-> Older(entry[d])]
      /\ todo' = [p \in Passes |->
                    [i \in DOMAIN todo[p] |-> [todo[p][i] EXCEPT !.seen = Older(todo[p][i].seen)]]]
      /\ UNCHANGED <<json, marker, failed, logged, actor, passes, up, faults>>
      /\ UNCHANGED <<received, doubled, acked, aborted, attempts, shared, excused>>
  BY DEF Tick, history
<1>3. entry' \in [Deliveries -> Entries]
  BY <1>1, <1>2, EntryRecords
<1>4. ASSUME NEW p \in Passes
      PROVE  /\ todo'[p] \in Seq(Items)
             /\ Len(todo'[p]) = Len(todo[p]) /\ (todo'[p] = <<>> <=> todo[p] = <<>>)
             /\ \A i \in 1 .. Len(todo[p]) : /\ todo'[p][i].d = todo[p][i].d
                                             /\ todo'[p][i].seen = Older(todo[p][i].seen)
  <2> DEFINE s == todo[p]
             t == todo'[p]
  <2>1. /\ s \in Seq(Items) /\ DOMAIN s = 1 .. Len(s) /\ Len(s) \in Nat
        /\ \A i \in 1 .. Len(s) : s[i] \in Items
    BY <1>1
  <2>2. t = [i \in DOMAIN s |-> [s[i] EXCEPT !.seen = Older(s[i].seen)]]
    BY <1>2
  <2> HIDE DEF s, t
  <2>3. \A i \in 1 .. Len(s) : /\ [s[i] EXCEPT !.seen = Older(s[i].seen)] \in Items
                               /\ [s[i] EXCEPT !.seen = Older(s[i].seen)].d = s[i].d
                               /\ [s[i] EXCEPT !.seen = Older(s[i].seen)].seen = Older(s[i].seen)
    BY <2>1, EntryRecords DEF Items
  <2>4. t \in [1 .. Len(s) -> Items]
    BY <2>1, <2>2, <2>3
  <2>5. t \in Seq(Items) /\ Len(t) = Len(s)
    BY <2>1, <2>4
  <2>6. t = <<>> <=> s = <<>>
    BY <2>1, <2>5
  <2> QED
    BY <2>1, <2>2, <2>3, <2>5, <2>6 DEF s, t
<1>5. todo' \in [Passes -> Seq(Items)]
  BY <1>2, <1>4
<1> QED
  BY <1>2, <1>3, <1>4, <1>5

LEMMA BaseTick ==
  ASSUME BaseInv, Tick
  PROVE  BaseInv' /\ \A a \in Actors : actor[a].at \in Working => At(a)' = At(a)
<1>1. /\ entry' \in [Deliveries -> Entries] /\ todo' \in [Passes -> Seq(Items)]
      /\ \A p \in Passes : /\ Len(todo'[p]) = Len(todo[p]) /\ (todo'[p] = <<>> <=> todo[p] = <<>>)
                           /\ \A i \in 1 .. Len(todo[p]) : todo'[p][i].d = todo[p][i].d
      /\ UNCHANGED <<json, marker, failed, logged, actor, passes, up, faults>>
      /\ UNCHANGED <<received, doubled, acked, aborted, attempts, shared, excused>>
  BY TickEffect
<1>2. Types'
  BY <1>1 DEF BaseInv, Types, DiskTypes, ActorTypes, HistoryTypes, LoggedOnce
<1>3. LoggedFirst' /\ IdleIsNew' /\ SenderSteps' /\ ListsAreFit' /\ PassSteps'
  BY <1>1 DEF BaseInv, LoggedFirst, IdleIsNew, SenderSteps, ListsAreFit, PassSteps, Logged
<1>4. ASSUME NEW a \in Actors, actor[a].at \in Working
      PROVE  At(a)' = At(a)
  <2>1. CASE IsLive(a)
    BY <2>1 DEF At
  <2>2. CASE ~IsLive(a)
    <3>1. /\ a \in Passes /\ todo[a] \in Seq(Items) /\ todo'[a] \in Seq(Items)
          /\ todo[a] # <<>> /\ todo'[a] # <<>>
      BY <1>1, <1>4, <2>2, AtWork
    <3>2. Head(todo[a]) = todo[a][1] /\ 1 \in 1 .. Len(todo[a]) /\ Head(todo'[a]) = todo'[a][1]
      BY <3>1, TailItems
    <3> QED
      BY <1>1, <2>2, <3>1, <3>2 DEF At
  <2> QED
    BY <2>1, <2>2
<1>5. PartInRange'
  BY <1>1, <1>4 DEF BaseInv, PartInRange, Working
<1> QED
  BY <1>2, <1>3, <1>4, <1>5 DEF BaseInv

LEMMA BaseInit == Init => BaseInv
<1> SUFFICES ASSUME Init PROVE BaseInv
  OBVIOUS
<1>1. /\ Leftover \subseteq Deliveries /\ IsFiniteSet(Leftover)
      /\ json = Leftover /\ marker = {} /\ failed = {} /\ acked = {} /\ shared = {}
      /\ received = {} /\ doubled = {} /\ aborted = {} /\ excused = {}
      /\ passes = 0 /\ up = TRUE /\ faults = 0
  BY DeliveryAssumption DEF Init
<1>2. /\ logged \in Seq(Deliveries) /\ Logged = Leftover /\ LoggedOnce
  <2>1. logged \in Seq(Leftover) /\ Logged = Leftover /\ LoggedOnce
    BY <1>1, ListsCover DEF Init, Logged, LoggedOnce
  <2> QED
    BY <1>1, <2>1
<1>3. /\ entry \in [Deliveries -> Entries] /\ attempts \in [Deliveries -> Nat]
      /\ \A d \in Deliveries \ Leftover : attempts[d] = 0
      /\ \A d \in Deliveries : attempts[d] = entry[d].retry
  <2>1. entry = [d \in Deliveries |-> IF d \in Leftover THEN [retry |-> 1, age |-> 0] ELSE Fresh]
    BY DEF Init
  <2>2. entry \in [Deliveries -> Entries]
    BY <2>1, EntryRecords
  <2>3. attempts = [d \in Deliveries |-> entry[d].retry]
    BY DEF Init
  <2>4. \A d \in Deliveries : entry[d].retry \in Nat
    BY <2>2 DEF Entries
  <2>5. \A d \in Deliveries \ Leftover : entry[d].retry = 0
    BY <2>1, EntryRecords
  <2> QED
    BY <2>2, <2>3, <2>4, <2>5
<1>4. /\ actor \in [Actors -> ActorStates]
      /\ \A a \in Actors : actor[a] = IF a \in Leftover THEN Returned ELSE NobodyYet
  BY ActorRecords DEF Init
<1>5. todo \in [Passes -> Seq(Items)] /\ \A p \in Passes : todo[p] = <<>>
  <2>1. <<>> \in Seq(Items)
    OBVIOUS
  <2> QED
    BY <2>1 DEF Init
<1>6. Types
  BY <1>1, <1>2, <1>3, <1>4, <1>5, Constants DEF Types, DiskTypes, ActorTypes, HistoryTypes
<1>7. LoggedFirst /\ IdleIsNew
  BY <1>1, <1>2, <1>3, <1>4, Constants, ActorRecords DEF LoggedFirst, IdleIsNew
<1>8. SenderSteps /\ ListsAreFit /\ PassSteps /\ PartInRange
  <2>1. \A a \in Actors : actor[a].at \in {"idle", "over"}
    BY <1>4, ActorRecords
  <2>2. \A p \in Passes : actor[p].at = "idle"
    BY <1>1, <1>4, Constants, ActorRecords
  <2> QED
    BY <1>5, <2>1, <2>2, Constants DEF SenderSteps, ListsAreFit, PassSteps, PartInRange, Working
<1> QED
  BY <1>6, <1>7, <1>8 DEF BaseInv

LEMMA BaseStutter ==
  ASSUME BaseInv, UNCHANGED vars
  PROVE  BaseInv'
<1>1. /\ UNCHANGED <<json, entry, marker, failed, logged, actor, todo, passes, up, faults>>
      /\ UNCHANGED <<received, doubled, acked, aborted, attempts, shared, excused>>
  BY DEF vars, disk, history
<1>2. Types'
  BY <1>1 DEF BaseInv, Types, DiskTypes, ActorTypes, HistoryTypes, LoggedOnce
<1>3. LoggedFirst' /\ IdleIsNew' /\ SenderSteps' /\ ListsAreFit' /\ PassSteps'
  BY <1>1 DEF BaseInv, LoggedFirst, IdleIsNew, SenderSteps, ListsAreFit, PassSteps, Logged
<1>4. PartInRange'
  BY <1>1 DEF BaseInv, PartInRange, At
<1> QED
  BY <1>2, <1>3, <1>4 DEF BaseInv

LEMMA BaseNext ==
  ASSUME BaseInv, [Next]_vars
  PROVE  BaseInv'
BY BaseEnqueue, BasePayload, BaseFileStep, BaseStart, BaseBudget, BaseRound, BaseCrash,
   BaseTick, BaseStutter DEF Next, Step

LEMMA BaseTypeOK ==
  ASSUME BaseInv
  PROVE  TypeOK
<1>1. IsInjective(logged)
  BY DEF BaseInv, Types, DiskTypes, LoggedOnce, IsInjective
<1>2. \A a \in Actors : /\ actor[a].at \in Steps /\ actor[a].part \in Nat
                        /\ actor[a].partial \in BOOLEAN /\ actor[a].retry \in Nat
  BY DEF BaseInv, Types, ActorTypes, ActorStates
<1>3. \A x \in received : x[1] \in Deliveries /\ x[2] \in 1 .. Parts[x[1]]
  BY DEF BaseInv, Types, HistoryTypes, Payloads
<1> QED
  BY <1>1, <1>2, <1>3
     DEF TypeOK, BaseInv, Types, DiskTypes, ActorTypes, HistoryTypes, Items

-----------------------------------------------------------------------------
(* Nothing is forgotten                                                     *)

\* What is sent is received payload by payload, and acknowledged at the end, or
\* after an abort.
CarriedBy(a) ==
  At(a) \notin BestEffort =>
    /\ actor[a].at = "sending" => \A i \in 1 .. actor[a].part - 1 : <<At(a), i>> \in received
    /\ actor[a].at = "ack" => AllReceived(At(a)) \/ At(a) \in aborted
Carried == \A a \in Actors : CarriedBy(a)

KeptInv == Carried /\ NothingForgotten

LEMMA CarriedByOthers ==
  ASSUME BaseInv, Carried, NEW a \in Actors, Others(a),
         received \subseteq received', aborted \subseteq aborted',
         actor'[a].at \notin {"sending", "ack"} \/ CarriedBy(a)'
  PROVE  Carried'
<1> SUFFICES ASSUME NEW b \in Actors PROVE CarriedBy(b)'
  BY DEF Carried
<1>1. CASE b = a
  BY <1>1 DEF CarriedBy
<1>2. CASE b # a
  <2>1. actor'[b] = actor[b] /\ At(b)' = At(b)
    BY <1>2, AtStays DEF Others
  <2> QED
    BY <2>1 DEF Carried, CarriedBy, AllReceived
<1> QED
  BY <1>1, <1>2

\* Files and histories only grow.
LEMMA NothingForgottenGrows ==
  ASSUME NothingForgotten, logged' = logged,
         json \subseteq json', failed \subseteq failed', acked \subseteq acked',
         received \subseteq received', aborted \subseteq aborted'
  PROVE  NothingForgotten'
BY DEF NothingForgotten, Kept, AllReceived

LEMMA KeptPayload ==
  ASSUME BaseInv, KeptInv, NEW a \in Actors,
         \/ PayloadSent(a)
         \/ \E kind \in {"transient", "permanent", "abort"}, late \in BOOLEAN :
              PayloadFails(a, kind, late)
  PROVE  KeptInv'
<1>1. /\ actor[a].at = "sending"
      /\ Receive(a) \/ UNCHANGED <<received, doubled>>
      /\ UNCHANGED <<json, failed, logged, acked>> /\ aborted \subseteq aborted'
  BY DEF PayloadSent, PayloadFails, ErrorThrown, disk
<1>2. received \subseteq received'
  BY <1>1, ReceiveTypes
<1>3. NothingForgotten'
  BY <1>1, <1>2, NothingForgottenGrows DEF KeptInv
<1>4. /\ At(a) \in Deliveries /\ Parts[At(a)] \in Nat /\ actor[a].part \in 1 .. Parts[At(a)]
      /\ At(a) \notin BestEffort => \A i \in 1 .. actor[a].part - 1 : <<At(a), i>> \in received
  BY <1>1, AtWork DEF BaseInv, PartInRange, KeptInv, Carried, CarriedBy, Working
<1>5. CASE Leaves(a)
  BY <1>1, <1>2, <1>3, <1>5, CarriedByOthers DEF Leaves, KeptInv
<1>6. CASE Continues(a, {"fail", "move"})
  BY <1>1, <1>2, <1>3, <1>6, CarriedByOthers DEF Continues, KeptInv
<1>7. CASE At(a) \in BestEffort /\ Continues(a, {"sending", "ack"})
  <2>1. CarriedBy(a)' /\ Others(a)
    BY <1>7, AtStays DEF Continues, CarriedBy
  <2> QED
    BY <1>1, <1>2, <1>3, <2>1, CarriedByOthers DEF KeptInv
<1>8. CASE PayloadSent(a) /\ At(a) \notin BestEffort
  <2>1. PayloadDone(a, TRUE) /\ received' = received \cup {<<At(a), actor[a].part>>}
    BY <1>8 DEF PayloadSent, Receive
  <2>2. \A i \in 1 .. actor[a].part : <<At(a), i>> \in received'
    <3> SUFFICES ASSUME NEW i \in 1 .. actor[a].part PROVE <<At(a), i>> \in received'
      OBVIOUS
    <3>1. CASE i = actor[a].part
      BY <2>1, <3>1
    <3>2. CASE i # actor[a].part
      <4>1. i \in 1 .. actor[a].part - 1
        BY <1>4, <3>2
      <4> QED
        BY <1>2, <1>4, <1>8, <4>1
    <3> QED
      BY <3>1, <3>2
  <2>3. CASE Continues(a, {"sending"}) /\ actor'[a].part = actor[a].part + 1
    <3>1. actor'[a].part - 1 = actor[a].part
      BY <1>4, <2>3
    <3>2. CarriedBy(a)' /\ Others(a)
      BY <2>2, <2>3, <3>1, AtStays DEF Continues, CarriedBy
    <3> QED
      BY <1>1, <1>2, <1>3, <3>2, CarriedByOthers DEF KeptInv
  <2>4. CASE Continues(a, {"ack"}) /\ actor[a].part = Parts[At(a)]
    <3>1. CarriedBy(a)' /\ Others(a)
      BY <2>2, <2>4, AtStays DEF Continues, CarriedBy, AllReceived
    <3> QED
      BY <1>1, <1>2, <1>3, <3>1, CarriedByOthers DEF KeptInv
  <2> QED
    BY <1>1, <1>5, <1>6, <2>1, <2>3, <2>4, PayloadDoneEffect DEF Continues
<1>9. CASE Continues(a, {"ack"}) /\ At(a) \in aborted'
  <2>1. CarriedBy(a)' /\ Others(a)
    BY <1>9, AtStays DEF Continues, CarriedBy
  <2> QED
    BY <1>1, <1>2, <1>3, <2>1, CarriedByOthers DEF KeptInv
<1>10. CASE At(a) \in BestEffort /\ \E ok \in BOOLEAN : PayloadDone(a, ok)
  BY <1>1, <1>5, <1>6, <1>7, <1>10, PayloadDoneEffect DEF Continues
<1>11. ASSUME NEW kind \in {"transient", "permanent", "abort"}, NEW late \in BOOLEAN,
              PayloadFails(a, kind, late)
       PROVE  KeptInv'
  BY <1>5, <1>6, <1>9, <1>10, <1>11, PayloadFailsEffect DEF Continues
<1>12. PayloadSent(a) => PayloadDone(a, TRUE)
  BY DEF PayloadSent
<1> QED
  BY <1>8, <1>10, <1>11, <1>12

\* A file leaves the queue for failed/, or acknowledged.
LEMMA KeptFileStep ==
  ASSUME BaseInv, KeptInv, NEW a \in Actors,
         Ack(a) \/ Unlink(a) \/ FailRead(a) \/ Rewrite(a) \/ Move(a)
  PROVE  KeptInv'
<1>1. Leaves(a) \/ Continues(a, {"unlink", "rewrite"}) \/ Continues(a, {"fail"})
  BY FileStepMoves
<1>2. UNCHANGED <<received, aborted, logged>>
  BY DEF Ack, Unlink, FailRead, Rewrite, Move, disk, history
<1>3. Carried'
  BY <1>1, <1>2, CarriedByOthers DEF KeptInv, Leaves, Continues
<1>4. \/ json \subseteq json' /\ failed \subseteq failed' /\ acked \subseteq acked'
      \/ Move(a) /\ json' = json \ {At(a)} /\ failed' = failed \cup {At(a)} /\ acked' = acked
      \/ /\ actor[a].at = "ack" /\ json' = json \ {At(a)} /\ acked' = acked \cup {At(a)}
         /\ failed' = failed
  BY DEF Ack, Unlink, FailRead, Rewrite, Move, RemoveFile, disk, history
<1>5. NothingForgotten'
  <2>1. CASE json \subseteq json' /\ failed \subseteq failed' /\ acked \subseteq acked'
    BY <1>2, <2>1, NothingForgottenGrows DEF KeptInv
  <2>2. CASE /\ json' = json \ {At(a)} /\ failed' = failed \cup {At(a)} /\ acked' = acked
    BY <1>2, <2>2 DEF KeptInv, NothingForgotten, Kept, AllReceived
  <2>3. CASE /\ actor[a].at = "ack" /\ json' = json \ {At(a)} /\ acked' = acked \cup {At(a)}
             /\ failed' = failed
    <3>1. At(a) \notin BestEffort => AllReceived(At(a)) \/ At(a) \in aborted
      BY <2>3 DEF KeptInv, Carried, CarriedBy
    <3> QED
      BY <1>2, <2>3, <3>1 DEF KeptInv, NothingForgotten, Kept, AllReceived
  <2> QED
    BY <1>4, <2>1, <2>2, <2>3
<1> QED
  BY <1>3, <1>5 DEF KeptInv

LEMMA KeptOthers ==
  ASSUME BaseInv, BaseInv', KeptInv,
         \/ \E d \in Deliveries : Enqueue(d)
         \/ \E p \in Passes : StartPass(p) \/ OutOfBudget(p) \/ Round(p)
         \/ Crash \/ Tick \/ UNCHANGED vars
  PROVE  KeptInv'
<1>1. UNCHANGED <<received, aborted, failed, acked>> /\ json \subseteq json'
  BY BaseEnqueue DEF Enqueue, StartPass, OutOfBudget, Round, Crash, Tick, vars, disk, history
<1>2. ASSUME logged' = logged, Carried' PROVE KeptInv'
  BY <1>1, <1>2, NothingForgottenGrows DEF KeptInv
<1>3. ASSUME NEW d \in Deliveries, Enqueue(d) PROVE KeptInv'
  <2>1. /\ Others(d) /\ actor'[d].at = "sending" /\ actor'[d].part = 1 /\ d \in Actors
        /\ Logged' \subseteq Logged \cup {d} /\ (d \in Logged' => d \in json')
    BY <1>3, BaseEnqueue, Constants
  <2>2. CarriedBy(d)'
    BY <2>1 DEF CarriedBy
  <2>3. Carried'
    BY <1>1, <2>1, <2>2, CarriedByOthers DEF KeptInv
  <2>4. NothingForgotten'
    BY <1>1, <2>1 DEF KeptInv, NothingForgotten, Kept, AllReceived, Logged
  <2> QED
    BY <2>3, <2>4 DEF KeptInv
<1>4. ASSUME NEW p \in Passes, StartPass(p) PROVE KeptInv'
  <2>1. /\ Others(p) /\ p \in Actors /\ actor'[p].at \in {"over", "loop"} /\ logged' = logged
    BY <1>4, StartEffect, Constants
  <2>2. Carried'
    BY <1>1, <2>1, CarriedByOthers DEF KeptInv
  <2> QED
    BY <1>2, <2>1, <2>2
<1>5. ASSUME NEW p \in Passes, OutOfBudget(p) PROVE KeptInv'
  <2>1. /\ Others(p) /\ p \in Actors /\ actor'[p].at = "cut" /\ logged' = logged
    BY <1>5, BudgetEffect, Constants DEF disk
  <2>2. Carried'
    BY <1>1, <2>1, CarriedByOthers DEF KeptInv
  <2> QED
    BY <1>2, <2>1, <2>2
<1>6. ASSUME NEW p \in Passes, Round(p) PROVE KeptInv'
  <2>1. /\ Others(p) /\ p \in Actors /\ logged' = logged
        /\ actor'[p].at \notin {"sending", "ack"} \/ (actor'[p].at = "sending" /\ actor'[p].part = 1)
    BY <1>6, RoundEffect DEF disk, Leaves, Continues
  <2>2. actor'[p].at \notin {"sending", "ack"} \/ CarriedBy(p)'
    BY <2>1 DEF CarriedBy
  <2>3. Carried'
    BY <1>1, <2>1, <2>2, CarriedByOthers DEF KeptInv
  <2> QED
    BY <1>2, <2>1, <2>3
<1>7. CASE Crash
  <2>1. Carried' /\ logged' = logged
    BY <1>7, CrashEffect DEF Carried, CarriedBy
  <2> QED
    BY <1>2, <2>1
<1>8. CASE Tick
  <2>1. /\ logged' = logged /\ actor' = actor
        /\ \A a \in Actors : actor[a].at \in Working => At(a)' = At(a)
    BY <1>8, BaseTick, TickEffect
  <2>2. Carried'
    BY <1>1, <2>1 DEF KeptInv, Carried, CarriedBy, Working, AllReceived
  <2> QED
    BY <1>2, <2>1, <2>2
<1>9. CASE UNCHANGED vars
  <2>1. UNCHANGED <<logged, actor, todo, received, aborted>>
    BY <1>9 DEF vars, disk, history
  <2>2. Carried'
    BY <2>1 DEF KeptInv, Carried, CarriedBy, At, AllReceived
  <2> QED
    BY <1>2, <2>1, <2>2
<1> QED
  BY <1>3, <1>4, <1>5, <1>6, <1>7, <1>8, <1>9

\* A logged delivery is on disk until the channel has got all of it or its
\* caller has aborted it, whatever crashes, fails or overlaps
\* (enqueueDelivery, ackDelivery, failDelivery, moveToFailed).
THEOREM NothingIsForgotten == Spec => []NothingForgotten
<1>1. Init => KeptInv
  <2> SUFFICES ASSUME Init PROVE KeptInv
    OBVIOUS
  <2>1. Logged = json
    BY BaseInit, ListsCover, DeliveryAssumption DEF Init, Logged
  <2>2. \A a \in Actors : actor[a].at \in {"idle", "over"}
    BY ActorRecords DEF Init
  <2> QED
    BY <2>1, <2>2 DEF KeptInv, Carried, CarriedBy, NothingForgotten, Kept, Logged
<1>2. BaseInv /\ BaseInv' /\ KeptInv /\ [Next]_vars => KeptInv'
  BY KeptPayload, KeptFileStep, KeptOthers DEF Next, Step
<1>3. KeptInv => NothingForgotten
  BY DEF KeptInv
<1>4. BaseInv /\ [Next]_vars => BaseInv'
  BY BaseNext
<1> QED
  BY <1>1, <1>2, <1>3, <1>4, BaseInit, PTL DEF Spec

-----------------------------------------------------------------------------
(* Who holds what                                                           *)

\* The four ways an actor deals with the files: not at all, it acknowledges,
\* it quarantines, it records a failure.
NoFile(a) ==
  /\ UNCHANGED <<json, entry, acked, failed>>
  /\ \/ Leaves(a)
     \/ Continues(a, {"sending", "ack", "fail", "move"})
     \/ Continues(a, {"rewrite"}) /\ actor'[a].retry = entry[At(a)].retry /\ actor[a].at = "fail"
Acknowledges(a) ==
  /\ actor[a].at = "ack" /\ Continues(a, {"unlink"})
  /\ At(a) \in json /\ json' = json \ {At(a)}
  /\ acked' = acked \cup {At(a)} /\ failed' = failed
Quarantines(a) ==
  /\ actor[a].at = "move" /\ Leaves(a)
  /\ json' = json \ {At(a)} /\ failed' = failed \cup {At(a)} /\ acked' = acked
Records(a) ==
  /\ actor[a].at = "rewrite" /\ Leaves(a)
  /\ json' = json \cup {At(a)} /\ entry'[At(a)].retry = actor[a].retry + 1
  /\ UNCHANGED <<acked, failed>>

LEMMA StepFiles ==
  ASSUME BaseInv, NEW a \in Actors, Step(a)
  PROVE  /\ actor[a].at \in Working /\ At(a) \in Deliveries
         /\ UNCHANGED <<shared, logged, attempts, passes>>
         /\ excused \subseteq excused' /\ faults' \in Nat /\ faults <= faults'
         /\ \A x \in Deliveries : x # At(a) => entry'[x] = entry[x]
         /\ NoFile(a) \/ Acknowledges(a) \/ Quarantines(a) \/ Records(a)
<1>1. CASE \/ PayloadSent(a)
           \/ \E kind \in {"transient", "permanent", "abort"}, late \in BOOLEAN :
                PayloadFails(a, kind, late)
  <2>1. /\ actor[a].at = "sending" /\ UNCHANGED <<shared, logged, attempts, passes, faults>>
        /\ excused \subseteq excused' /\ UNCHANGED <<json, entry, acked, failed>>
    BY <1>1 DEF PayloadSent, PayloadFails, Excuse, disk
  <2>2. Leaves(a) \/ Continues(a, {"sending", "ack", "fail", "move"})
    <3>1. ASSUME NEW ok \in BOOLEAN, PayloadDone(a, ok)
          PROVE  Leaves(a) \/ Continues(a, {"sending", "ack", "fail", "move"})
      BY <2>1, <3>1, PayloadDoneEffect DEF Continues
    <3>2. PayloadSent(a) => PayloadDone(a, TRUE)
      BY DEF PayloadSent
    <3>3. ASSUME NEW kind \in {"transient", "permanent", "abort"}, NEW late \in BOOLEAN,
                 PayloadFails(a, kind, late)
          PROVE  Leaves(a) \/ Continues(a, {"sending", "ack", "fail", "move"})
      BY <3>1, <3>3, PayloadFailsEffect DEF Continues
    <3> QED
      BY <1>1, <3>1, <3>2, <3>3
  <2>3. At(a) \in Deliveries /\ faults \in Nat
    BY <2>1, AtWork DEF Working, BaseInv, Types, ActorTypes
  <2> QED
    BY <2>1, <2>2, <2>3 DEF NoFile, Working
<1>2. CASE Ack(a) \/ Unlink(a) \/ FailRead(a) \/ Rewrite(a) \/ Move(a)
  <2>1. /\ actor[a].at \in Working \ {"sending"} /\ At(a) \in Deliveries
        /\ UNCHANGED <<logged, attempts, passes>>
    BY <1>2, FileStepMoves, AtWork DEF Ack, Unlink, FailRead, Rewrite, Move, disk, history
  <2>2. faults \in Nat
    BY DEF BaseInv, Types, ActorTypes
  <2>3. shared' = shared /\ excused \subseteq excused' /\ faults' \in Nat /\ faults <= faults'
    <3>1. CASE IoError(a)
      BY <2>1, <2>2, <3>1 DEF IoError, Excuse
    <3>2. CASE UNCHANGED <<faults, shared, excused>>
      BY <2>2, <3>2
    <3> QED
      BY <1>2, <3>1, <3>2 DEF Ack, Unlink, FailRead, Rewrite, Move, NoIoError, history
  <2>4. /\ entry \in [Deliveries -> Entries]
        /\ Done(a) => Leaves(a)
    BY <2>1, DoneEffect DEF BaseInv, Types, DiskTypes
  <2>5. "unlink" \in Steps /\ "fail" \in Steps
    BY DEF Steps
  <2>6. CASE Ack(a)
    <3>1. CASE /\ At(a) \in json /\ RemoveFile(At(a)) /\ acked' = acked \cup {At(a)}
               /\ GoTo(a, "unlink")
      BY <2>1, <2>3, <2>4, <2>5, <2>6, <3>1, GoToEffect DEF Ack, RemoveFile, Acknowledges
    <3>2. CASE UNCHANGED <<json, entry, acked>> /\ (Done(a) \/ GoTo(a, "fail"))
      BY <2>1, <2>3, <2>4, <2>5, <2>6, <3>2, GoToEffect DEF Ack, NoFile, Continues
    <3> QED
      BY <2>6, <3>1, <3>2 DEF Ack
  <2>7. CASE Unlink(a)
    BY <2>1, <2>3, <2>4, <2>7 DEF Unlink, NoFile, history
  <2>8. CASE FailRead(a)
    <3>1. UNCHANGED <<json, entry, acked, failed>> /\ actor[a].at = "fail"
      BY <2>8 DEF FailRead, disk
    <3>2. CASE Done(a)
      BY <2>1, <2>3, <2>4, <3>1, <3>2 DEF NoFile
    <3>3. CASE ~Done(a)
      BY <2>1, <2>3, <2>8, <3>1, <3>3, ReadEffect DEF FailRead, NoFile
    <3> QED
      BY <3>2, <3>3
  <2>9. CASE Rewrite(a)
    <3>1. /\ actor[a].at = "rewrite" /\ Leaves(a) /\ UNCHANGED <<acked, failed>>
      BY <2>4, <2>9 DEF Rewrite
    <3>2. CASE UNCHANGED <<json, entry>>
      BY <2>1, <2>3, <3>1, <3>2 DEF NoFile
    <3>3. CASE /\ json' = json \cup {At(a)}
               /\ entry' = [entry EXCEPT ![At(a)] = [retry |-> actor[a].retry + 1, age |-> 0]]
      <4>1. /\ entry'[At(a)].retry = actor[a].retry + 1
            /\ \A x \in Deliveries : x # At(a) => entry'[x] = entry[x]
        BY <2>1, <2>4, <3>3
      <4> QED
        BY <2>1, <2>3, <3>1, <3>3, <4>1 DEF Records
    <3> QED
      BY <2>9, <3>2, <3>3 DEF Rewrite
  <2>10. CASE Move(a)
    <3>1. /\ actor[a].at = "move" /\ Leaves(a) /\ acked' = acked
      BY <2>4, <2>10 DEF Move
    <3>2. CASE UNCHANGED <<json, entry, failed>>
      BY <2>1, <2>3, <3>1, <3>2 DEF NoFile
    <3>3. CASE RemoveFile(At(a)) /\ failed' = failed \cup {At(a)}
      BY <2>1, <2>3, <2>4, <3>1, <3>3 DEF RemoveFile, Quarantines
    <3> QED
      BY <2>10, <3>2, <3>3 DEF Move
  <2> QED
    BY <1>2, <2>6, <2>7, <2>8, <2>9, <2>10
<1> QED
  BY <1>1, <1>2 DEF Step

\* A delivery is held by its sender, or by a pass that has it on its list.
LEMMA HoldsList ==
  ASSUME todo \in [Passes -> Seq(Items)], NEW a \in Actors, NEW d \in Deliveries
  PROVE  Holds(a, d) <=> /\ Busy(a)
                         /\ \/ IsLive(a) /\ a = d
                            \/ /\ a \in Passes /\ ~IsLive(a)
                               /\ \E i \in 1 .. Len(todo[a]) : todo[a][i].d = d
<1>1. CASE IsLive(a)
  BY <1>1, Constants DEF Holds
<1>2. CASE ~IsLive(a)
  <2>1. a \in Passes /\ todo[a] \in Seq(Items)
    BY <1>2, Constants
  <2>2. \A e : e \in ToSet(todo[a]) <=> \E i \in 1 .. Len(todo[a]) : todo[a][i] = e
    BY <2>1, Elements
  <2> QED
    BY <1>2, <2>1, <2>2 DEF Holds
<1> QED
  BY <1>1, <1>2

LEMMA HoldsLists ==
  ASSUME BaseInv, BaseInv'
  PROVE  /\ \A b \in Actors, d \in Deliveries :
              Holds(b, d) <=> /\ Busy(b)
                              /\ \/ IsLive(b) /\ b = d
                                 \/ /\ b \in Passes /\ ~IsLive(b)
                                    /\ \E i \in 1 .. Len(todo[b]) : todo[b][i].d = d
         /\ \A b \in Actors, d \in Deliveries :
              Holds(b, d)' <=> /\ Busy(b)'
                               /\ \/ IsLive(b) /\ b = d
                                  \/ /\ b \in Passes /\ ~IsLive(b)
                                     /\ \E i \in 1 .. Len(todo'[b]) : todo'[b][i].d = d
<1>1. /\ todo \in [Passes -> Seq(Items)] /\ todo' \in [Passes -> Seq(Items)]
  BY DEF BaseInv, Types, ActorTypes
<1>2. \A b \in Actors, d \in Deliveries :
         Holds(b, d) <=> /\ Busy(b)
                         /\ \/ IsLive(b) /\ b = d
                            \/ /\ b \in Passes /\ ~IsLive(b)
                               /\ \E i \in 1 .. Len(todo[b]) : todo[b][i].d = d
  BY <1>1, HoldsList
<1>3. \A b \in Actors, d \in Deliveries :
         Holds(b, d)' <=> /\ Busy(b)'
                          /\ \/ IsLive(b) /\ b = d
                             \/ /\ b \in Passes /\ ~IsLive(b)
                                /\ \E i \in 1 .. Len(todo'[b]) : todo'[b][i].d = d
  <2> SUFFICES ASSUME NEW b \in Actors, NEW d \in Deliveries
               PROVE  Holds(b, d)' <=>
                        /\ Busy(b)'
                        /\ \/ IsLive(b) /\ b = d
                           \/ /\ b \in Passes /\ ~IsLive(b)
                              /\ \E i \in 1 .. Len(todo'[b]) : todo'[b][i].d = d
    OBVIOUS
  <2>1. CASE IsLive(b)
    BY <2>1, Constants DEF Holds
  <2>2. CASE ~IsLive(b)
    <3>1. b \in Passes /\ todo'[b] \in Seq(Items)
      BY <1>1, <2>2, Constants
    <3>2. \A e : e \in ToSet(todo'[b]) <=> \E i \in 1 .. Len(todo'[b]) : todo'[b][i] = e
      BY <3>1, Elements
    <3> QED
      BY <2>2, <3>1, <3>2 DEF Holds
  <2> QED
    BY <2>1, <2>2
<1> QED
  BY <1>2, <1>3

\* An actor at work holds no more than before, and not what it is done with.
LEMMA HoldsShrink ==
  ASSUME BaseInv, BaseInv', NEW a \in Actors,
         actor[a].at \in Working \/ (actor[a].at = "loop" /\ a \in Passes /\ todo[a] # <<>>),
         Leaves(a) \/ Continues(a, Steps)
  PROVE  /\ \A b \in Actors, d \in Deliveries : Holds(b, d)' => Holds(b, d)
         /\ Leaves(a) => \A d \in Deliveries : At(a) = d => ~Holds(a, d)'
<1>1. /\ todo \in [Passes -> Seq(Items)] /\ todo' \in [Passes -> Seq(Items)] /\ Others(a)
  BY DEF BaseInv, Types, ActorTypes, Leaves, Continues
<1>2. /\ \A b \in Actors, d \in Deliveries :
           Holds(b, d) <=> /\ Busy(b)
                           /\ \/ IsLive(b) /\ b = d
                              \/ /\ b \in Passes /\ ~IsLive(b)
                                 /\ \E i \in 1 .. Len(todo[b]) : todo[b][i].d = d
      /\ \A b \in Actors, d \in Deliveries :
           Holds(b, d)' <=> /\ Busy(b)'
                            /\ \/ IsLive(b) /\ b = d
                               \/ /\ b \in Passes /\ ~IsLive(b)
                                  /\ \E i \in 1 .. Len(todo'[b]) : todo'[b][i].d = d
  BY HoldsLists
<1>3. Busy(a)
  BY DEF Busy, Working
<1>4. \A b \in Actors, d \in Deliveries : b # a => (Holds(b, d)' <=> Holds(b, d))
  BY <1>1, <1>2 DEF Others, Busy
<1>5. CASE IsLive(a)
  <2>1. \A d \in Deliveries : Holds(a, d)' => Holds(a, d)
    BY <1>2, <1>3, <1>5
  <2>2. Leaves(a) => ~Busy(a)'
    BY <1>5 DEF Leaves, Busy
  <2> QED
    BY <1>4, <2>1, <2>2 DEF Holds
<1>6. CASE ~IsLive(a) /\ Continues(a, Steps) /\ ~Leaves(a)
  BY <1>2, <1>3, <1>4, <1>6 DEF Continues
<1>7. CASE ~IsLive(a) /\ Leaves(a)
  <2>1. a \in Passes /\ todo[a] \in Seq(Items) /\ todo[a] # <<>> /\ At(a) = Head(todo[a]).d
    BY <1>7, AtWork
  <2>2. /\ Head(todo[a]) = todo[a][1] /\ 1 \in 1 .. Len(todo[a])
        /\ \A i \in 1 .. Len(todo'[a]) : /\ i + 1 \in 1 .. Len(todo[a]) /\ i + 1 # 1
                                         /\ todo'[a][i] = todo[a][i + 1]
    <3>1. todo'[a] = Tail(todo[a])
      BY <1>7 DEF Leaves
    <3>2. /\ Head(todo[a]) = todo[a][1] /\ 1 \in 1 .. Len(todo[a]) /\ Len(todo[a]) \in Nat
          /\ \A i \in 1 .. Len(todo'[a]) : /\ i + 1 \in 1 .. Len(todo[a])
                                           /\ todo'[a][i] = todo[a][i + 1]
      BY <2>1, <3>1, TailItems, Elements
    <3>3. Len(todo'[a]) \in Nat
      BY <1>1, <2>1, Elements
    <3>4. \A i \in 1 .. Len(todo'[a]) : i + 1 # 1
      BY <3>3
    <3> QED
      BY <3>2, <3>4
  <2>3. \A d \in Deliveries : Holds(a, d)' => Holds(a, d)
    BY <1>2, <1>3, <1>7, <2>1, <2>2
  <2>4. \A i \in 1 .. Len(todo'[a]) : todo'[a][i].d # At(a)
    <3> SUFFICES ASSUME NEW i \in 1 .. Len(todo'[a]), todo'[a][i].d = At(a) PROVE FALSE
      OBVIOUS
    <3>1. todo[a][i + 1].d = todo[a][1].d
      BY <2>1, <2>2
    <3> QED
      BY <2>1, <2>2, <3>1 DEF BaseInv, ListsAreFit
  <2>5. ASSUME NEW d \in Deliveries, At(a) = d
        PROVE  ~Holds(a, d)'
    BY <1>2, <1>7, <2>4, <2>5
  <2> QED
    BY <1>4, <2>3, <2>5
<1> QED
  BY <1>5, <1>6, <1>7

-----------------------------------------------------------------------------
(* What is settled stays settled                                            *)

\* Nobody else holds a delivery that is held, unless a pass took it over.
HeldOnce ==
  \A d \in Deliveries \ shared : \A a, b \in Actors : Holds(a, d) /\ Holds(b, d) => a = b

\* Until it is acknowledged, what is held is on disk.
OnDisk ==
  \A d \in Logged \ shared : \A a \in Actors :
    (Holds(a, d) /\ ~(actor[a].at = "unlink" /\ At(a) = d)) => d \in json

\* What a pass has loaded is still what the file says ...
SeenIsEntry ==
  \A p \in Passes : \A i \in 1 .. Len(todo[p]) :
    (todo[p][i].d \notin shared /\ (i > 1 \/ actor[p].at = "loop"))
      => todo[p][i].seen = entry[todo[p][i].d]

\* ... and so is what failDelivery has read.
ReadIsEntry ==
  \A a \in Actors : (actor[a].at = "rewrite" /\ At(a) \notin shared)
                      => actor[a].retry = entry[At(a)].retry

HeldInv == HeldOnce /\ OnDisk /\ SeenIsEntry /\ ReadIsEntry /\ SettledForGood

LEMMA UnlinkLeaves ==
  ASSUME BaseInv, NEW a \in Actors, Step(a), actor[a].at = "unlink"
  PROVE  Leaves(a)
<1>1. Unlink(a)
  BY DEF Step, PayloadSent, PayloadFails, Ack, FailRead, Rewrite, Move
<1> QED
  BY <1>1, DoneEffect DEF Unlink, Working

LEMMA ItemFields ==
  ASSUME NEW s \in Seq(Items), NEW k \in 1 .. Len(s)
  PROVE  s[k].d \in Deliveries /\ s[k].seen \in Entries /\ s # <<>>
<1>1. s[k] \in Items /\ s # <<>>
  OBVIOUS
<1> QED
  BY <1>1 DEF Items

LEMMA HeldStep ==
  ASSUME BaseInv, BaseInv', HeldInv, NEW a \in Actors, Step(a)
  PROVE  HeldInv'
<1>1. /\ actor[a].at \in Working /\ At(a) \in Deliveries /\ Holds(a, At(a))
      /\ shared' = shared /\ Logged' = Logged /\ Logged \subseteq Deliveries
      /\ \A x \in Deliveries : x # At(a) => entry'[x] = entry[x]
      /\ NoFile(a) \/ Acknowledges(a) \/ Quarantines(a) \/ Records(a)
  BY StepFiles, AtWork DEF Logged, BaseInv, Types, DiskTypes, ToSet
<1>2. /\ Leaves(a) \/ Continues(a, Working)
      /\ Continues(a, Working) => Continues(a, Steps)
  BY <1>1 DEF NoFile, Acknowledges, Quarantines, Records, Continues, Working, Steps
<1>3. /\ \A b \in Actors, d \in Deliveries : Holds(b, d)' => Holds(b, d)
      /\ Leaves(a) => \A d \in Deliveries : At(a) = d => ~Holds(a, d)'
      /\ Others(a) /\ \A b \in Actors : b # a => At(b)' = At(b) /\ actor'[b] = actor[b]
  BY <1>1, <1>2, HoldsShrink, AtStays DEF Leaves, Continues, Others
<1>4. HeldOnce'
  BY <1>1, <1>3 DEF HeldInv, HeldOnce
<1>5. \A b \in Actors : (b # a /\ At(a) \notin shared) => ~Holds(b, At(a))
  BY <1>1 DEF HeldInv, HeldOnce
<1>6. At(a) \in Logged \ shared /\ actor[a].at # "unlink" => At(a) \in json
  BY <1>1 DEF HeldInv, OnDisk
<1>7. OnDisk'
  <2> SUFFICES ASSUME NEW d \in Logged \ shared, NEW b \in Actors, Holds(b, d)',
                      ~(actor'[b].at = "unlink" /\ At(b)' = d)
               PROVE  d \in json'
    BY <1>1 DEF OnDisk
  <2>1. d \in Deliveries /\ Holds(b, d)
    BY <1>1, <1>3
  <2>2. CASE d # At(a)
    <3>1. ~(actor[b].at = "unlink" /\ At(b) = d)
      BY <1>3, <2>2
    <3>2. d \in json
      BY <2>1, <3>1 DEF HeldInv, OnDisk
    <3> QED
      BY <1>1, <2>2, <3>2 DEF NoFile, Acknowledges, Quarantines, Records
  <2>3. CASE d = At(a)
    <3>1. b = a /\ ~Leaves(a)
      BY <1>3, <1>5, <2>1, <2>3
    <3>2. actor[a].at # "unlink" /\ Continues(a, Working)
      BY <1>2, <3>1, UnlinkLeaves
    <3>3. d \in json /\ At(a)' = d
      BY <1>3, <1>6, <2>3, <3>2, AtStays DEF Continues
    <3>4. NoFile(a)
      BY <1>1, <3>1, <3>3 DEF Acknowledges, Quarantines, Records, Continues
    <3> QED
      BY <3>3, <3>4 DEF NoFile
  <2> QED
    BY <2>2, <2>3
<1>8. SeenIsEntry'
  <2> SUFFICES ASSUME NEW p \in Passes, NEW i \in 1 .. Len(todo'[p]),
                      todo'[p][i].d \notin shared, i > 1 \/ actor'[p].at = "loop"
               PROVE  todo'[p][i].seen = entry'[todo'[p][i].d]
    BY <1>1 DEF SeenIsEntry
  <2>1. /\ p \in Actors /\ ~IsLive(p) /\ todo[p] \in Seq(Items) /\ todo'[p] \in Seq(Items)
    BY Constants DEF BaseInv, Types, ActorTypes
  <2>2. ASSUME NEW k \in 1 .. Len(todo[p]), todo[p][k] = todo'[p][i],
               todo[p][k].d # At(a), k > 1 \/ actor[p].at = "loop"
        PROVE  todo'[p][i].seen = entry'[todo'[p][i].d]
    <3>1. todo[p][k].d \in Deliveries
      BY <2>1, ItemFields
    <3>2. todo[p][k].seen = entry[todo[p][k].d]
      BY <2>2 DEF HeldInv, SeenIsEntry
    <3> QED
      BY <1>1, <2>2, <3>1, <3>2
  <2>3. CASE p # a
    <3>1. todo'[p] = todo[p] /\ actor'[p] = actor[p]
      BY <1>3, <2>1, <2>3 DEF Others
    <3>2. todo[p] # <<>> /\ Busy(p) /\ todo[p][i].d \in Deliveries
      <4>1. todo[p] # <<>> /\ todo[p][i].d \in Deliveries
        BY <2>1, <3>1, ItemFields
      <4> QED
        BY <4>1 DEF BaseInv, PassSteps, Busy
    <3>3. Holds(p, todo[p][i].d)
      BY <2>1, <3>1, <3>2, HoldsList DEF BaseInv, Types, ActorTypes
    <3>4. todo[p][i].d # At(a)
      BY <1>5, <2>1, <2>3, <3>1, <3>3
    <3> QED
      BY <2>2, <3>1, <3>4
  <2>4. CASE p = a /\ Leaves(a)
    <3>1. /\ todo[a] # <<>> /\ todo'[a] = Tail(todo[a]) /\ actor'[a].at = "loop"
          /\ At(a) = Head(todo[a]).d
      BY <1>1, <2>1, <2>4, AtWork DEF Leaves
    <3>2. /\ i + 1 \in 1 .. Len(todo[a]) /\ todo'[a][i] = todo[a][i + 1]
          /\ At(a) = todo[a][1].d /\ 1 \in 1 .. Len(todo[a]) /\ i \in Nat \ {0}
      BY <2>1, <2>4, <3>1, TailItems, Elements
    <3>3. i + 1 > 1 /\ i + 1 # 1
      BY <3>2
    <3>4. todo[a][i + 1].d # At(a)
      BY <2>4, <3>2, <3>3 DEF BaseInv, ListsAreFit
    <3> QED
      BY <2>2, <2>4, <3>2, <3>3, <3>4
  <2>5. CASE p = a /\ ~Leaves(a)
    <3>1. /\ todo' = todo /\ actor'[a].at # "loop" /\ todo[a] # <<>>
          /\ At(a) = Head(todo[a]).d
      BY <1>1, <1>2, <2>1, <2>5, AtWork DEF Continues, Working
    <3>2. i > 1 /\ i \in 1 .. Len(todo[a]) /\ At(a) = todo[a][1].d /\ 1 \in 1 .. Len(todo[a])
      BY <2>1, <2>5, <3>1, TailItems
    <3>3. todo[a][i].d # At(a)
      BY <2>5, <3>2 DEF BaseInv, ListsAreFit
    <3> QED
      BY <2>2, <2>5, <3>1, <3>2, <3>3
  <2> QED
    BY <2>3, <2>4, <2>5
<1>9. ReadIsEntry'
  <2> SUFFICES ASSUME NEW b \in Actors, actor'[b].at = "rewrite", At(b)' \notin shared
               PROVE  actor'[b].retry = entry'[At(b)'].retry
    BY <1>1 DEF ReadIsEntry
  <2>1. CASE b # a
    <3>1. actor'[b] = actor[b] /\ At(b)' = At(b) /\ At(b) \in Deliveries /\ Holds(b, At(b))
      BY <1>3, <2>1, AtWork DEF Working
    <3>2. At(b) # At(a)
      BY <1>5, <2>1, <3>1
    <3> QED
      BY <1>1, <3>1, <3>2 DEF HeldInv, ReadIsEntry
  <2>2. CASE b = a
    <3>1. ~Leaves(a) /\ NoFile(a)
      BY <1>1, <2>2 DEF Leaves, Acknowledges, Quarantines, Records, Continues
    <3>2. Continues(a, {"rewrite"}) /\ actor'[a].retry = entry[At(a)].retry /\ entry' = entry
      BY <2>2, <3>1 DEF NoFile, Continues
    <3>3. At(a)' = At(a)
      BY <1>3, <3>2, AtStays DEF Continues
    <3> QED
      BY <2>2, <3>2, <3>3
  <2> QED
    BY <2>1, <2>2
<1>10. SettledForGood'
  <2> SUFFICES ASSUME NEW d \in Deliveries, d \in acked' \cup failed', d \notin shared
               PROVE  d \notin json'
    BY <1>1 DEF SettledForGood
  <2>1. CASE NoFile(a) \/ Acknowledges(a) \/ Quarantines(a)
    BY <2>1 DEF NoFile, Acknowledges, Quarantines, HeldInv, SettledForGood
  <2>2. CASE Records(a)
    <3>1. d \in acked \cup failed /\ d \notin json
      BY <2>2 DEF Records, HeldInv, SettledForGood
    <3>2. d \in Logged
      BY <3>1 DEF BaseInv, LoggedFirst
    <3>3. d # At(a)
      BY <1>6, <2>2, <3>1, <3>2 DEF Records
    <3> QED
      BY <2>2, <3>1, <3>3 DEF Records
  <2> QED
    BY <1>1, <2>1, <2>2
<1> QED
  BY <1>4, <1>7, <1>8, <1>9, <1>10 DEF HeldInv

LEMMA HeldEnqueue ==
  ASSUME BaseInv, BaseInv', HeldInv, NEW d \in Deliveries, Enqueue(d)
  PROVE  HeldInv'
<1>1. /\ Others(d) /\ todo' = todo /\ actor'[d].at = "sending" /\ d \notin Logged
      /\ Logged' \subseteq Logged \cup {d} /\ (d \in Logged' => d \in json')
      /\ json \subseteq json' /\ json' \subseteq json \cup {d}
      /\ \A x \in Deliveries : x # d => entry'[x] = entry[x]
      /\ shared' = shared /\ IsLive(d) /\ d \in Actors /\ d \notin Passes
      /\ UNCHANGED <<acked, failed>>
  BY BaseEnqueue, Constants DEF Enqueue
<1>2. \A b \in Actors : b # d => actor'[b] = actor[b] /\ At(b)' = At(b)
  BY <1>1, AtStays DEF Others
<1>3. \A p \in Passes : \A i \in 1 .. Len(todo[p]) :
        todo[p][i].d \in Logged /\ todo[p][i].d # d /\ todo[p][i].d \in Deliveries
  BY <1>1, ItemFields DEF BaseInv, ListsAreFit, Types, ActorTypes
<1>4. \A b \in Actors, x \in Deliveries :
        /\ b # d => (Holds(b, x)' <=> Holds(b, x)) /\ ~Holds(b, d)
        /\ Holds(d, x)' => x = d
  BY <1>1, <1>2, <1>3, HoldsLists DEF Busy, IsLive
<1>5. HeldOnce'
  <2> SUFFICES ASSUME NEW x \in Deliveries \ shared, NEW b \in Actors, NEW c \in Actors,
                      Holds(b, x)', Holds(c, x)'
               PROVE  b = c
    BY <1>1 DEF HeldOnce
  <2> QED
    BY <1>4 DEF HeldInv, HeldOnce
<1>6. OnDisk'
  <2> SUFFICES ASSUME NEW x \in Logged' \ shared, NEW b \in Actors, Holds(b, x)',
                      ~(actor'[b].at = "unlink" /\ At(b)' = x)
               PROVE  x \in json'
    BY <1>1 DEF OnDisk
  <2>1. CASE x = d
    BY <1>1, <2>1
  <2>2. CASE x # d
    <3>1. x \in Logged /\ x \in Deliveries
      BY <1>1, <2>2 DEF Logged, BaseInv, Types, DiskTypes, ToSet
    <3>2. b # d /\ Holds(b, x)
      BY <1>4, <2>2, <3>1
    <3> QED
      BY <1>1, <1>2, <3>1, <3>2 DEF HeldInv, OnDisk
  <2> QED
    BY <2>1, <2>2
<1>7. SeenIsEntry'
  <2>1. \A p \in Passes : p \in Actors /\ p # d
    BY <1>1, Constants
  <2> QED
    BY <1>1, <1>2, <1>3, <2>1 DEF HeldInv, SeenIsEntry
<1>8. ReadIsEntry'
  <2> SUFFICES ASSUME NEW b \in Actors, actor'[b].at = "rewrite", At(b)' \notin shared
               PROVE  actor'[b].retry = entry'[At(b)'].retry
    BY <1>1 DEF ReadIsEntry
  <2>1. b # d
    BY <1>1
  <2>2. actor'[b] = actor[b] /\ At(b)' = At(b) /\ At(b) \in Deliveries /\ Holds(b, At(b))
    BY <1>2, <2>1, AtWork DEF Working
  <2>3. At(b) # d
    BY <1>4, <2>1, <2>2
  <2> QED
    BY <1>1, <2>2, <2>3 DEF HeldInv, ReadIsEntry
<1>9. SettledForGood'
  BY <1>1 DEF HeldInv, SettledForGood, BaseInv, LoggedFirst
<1> QED
  BY <1>5, <1>6, <1>7, <1>8, <1>9 DEF HeldInv

LEMMA HeldStart ==
  ASSUME BaseInv, BaseInv', HeldInv, NEW p \in Passes, StartPass(p)
  PROVE  HeldInv'
<1>1. /\ Others(p) /\ actor'[p].at \in {"over", "loop"} /\ p \in Actors /\ ~IsLive(p)
      /\ \A i \in 1 .. Len(todo'[p]) :
           todo'[p][i].d \in json /\ todo'[p][i].seen = entry[todo'[p][i].d]
      /\ shared' = shared \cup {x \in json : \E a \in Actors : Holds(a, x)}
      /\ UNCHANGED <<json, entry, failed, logged, acked>>
  BY StartEffect, Constants
<1>2. \A b \in Actors : b # p => actor'[b] = actor[b] /\ At(b)' = At(b)
  BY <1>1, AtStays DEF Others
<1>3. \A b \in Actors, x \in Deliveries :
        /\ b # p => (Holds(b, x)' <=> Holds(b, x))
        /\ Holds(p, x)' => x \in json
  BY <1>1, <1>2, HoldsLists DEF Busy, Others
<1>4. HeldOnce'
  <2> SUFFICES ASSUME NEW x \in Deliveries \ shared', NEW b \in Actors, NEW c \in Actors,
                      Holds(b, x)', Holds(c, x)'
               PROVE  b = c
    BY DEF HeldOnce
  <2>1. CASE b # p /\ c # p
    BY <1>1, <1>3, <2>1 DEF HeldInv, HeldOnce
  <2>2. CASE b = p /\ c # p
    BY <1>1, <1>3, <2>2
  <2>3. CASE b # p /\ c = p
    BY <1>1, <1>3, <2>3
  <2> QED
    BY <2>1, <2>2, <2>3
<1>5. OnDisk'
  <2> SUFFICES ASSUME NEW x \in Logged' \ shared', NEW b \in Actors, Holds(b, x)',
                      ~(actor'[b].at = "unlink" /\ At(b)' = x)
               PROVE  x \in json
    BY <1>1 DEF OnDisk
  <2>1. x \in Logged \ shared /\ x \in Deliveries
    BY <1>1 DEF Logged, BaseInv, Types, DiskTypes, ToSet
  <2>2. CASE b = p
    BY <1>3, <2>1, <2>2
  <2>3. CASE b # p
    BY <1>2, <1>3, <2>1, <2>3 DEF HeldInv, OnDisk
  <2> QED
    BY <2>2, <2>3
<1>6. SeenIsEntry'
  <2> SUFFICES ASSUME NEW q \in Passes, NEW i \in 1 .. Len(todo'[q]),
                      todo'[q][i].d \notin shared', i > 1 \/ actor'[q].at = "loop"
               PROVE  todo'[q][i].seen = entry[todo'[q][i].d]
    BY <1>1 DEF SeenIsEntry
  <2>1. CASE q = p
    BY <1>1, <2>1
  <2>2. CASE q # p
    <3>1. todo'[q] = todo[q] /\ actor'[q] = actor[q]
      BY <1>1, <1>2, <2>2, Constants DEF Others
    <3> QED
      BY <1>1, <3>1 DEF HeldInv, SeenIsEntry
  <2> QED
    BY <2>1, <2>2
<1>7. ReadIsEntry'
  BY <1>1, <1>2 DEF HeldInv, ReadIsEntry
<1>8. SettledForGood'
  BY <1>1 DEF HeldInv, SettledForGood
<1> QED
  BY <1>4, <1>5, <1>6, <1>7, <1>8 DEF HeldInv

\* A pass between two entries touches no file.
LEMMA HeldLoop ==
  ASSUME BaseInv, BaseInv', HeldInv, NEW p \in Passes, OutOfBudget(p) \/ Round(p)
  PROVE  HeldInv'
<1>1. /\ Others(p) /\ p \in Actors /\ ~IsLive(p) /\ actor[p].at = "loop"
      /\ actor'[p].at \in {"over", "cut", "move", "sending", "loop"}
      /\ UNCHANGED <<json, entry, failed, logged, acked, shared>>
  BY RoundEffect, BudgetEffect, Constants DEF disk, history, Leaves, Continues
<1>2. \A b \in Actors : b # p => actor'[b] = actor[b] /\ At(b)' = At(b)
  BY <1>1, AtStays DEF Others
<1>3. \A i \in 1 .. Len(todo'[p]) : \E k \in 1 .. Len(todo[p]) : todo'[p][i] = todo[p][k]
  <2>1. CASE todo'[p] = <<>>
    BY <2>1
  <2>2. CASE todo'[p] = todo[p]
    BY <2>2
  <2>3. CASE todo'[p] = Tail(todo[p]) /\ todo[p] # <<>>
    <3>1. todo[p] \in Seq(Items)
      BY DEF BaseInv, Types, ActorTypes
    <3>2. \A i \in 1 .. Len(todo'[p]) : /\ i + 1 \in 1 .. Len(todo[p])
                                        /\ todo'[p][i] = todo[p][i + 1]
      BY <2>3, <3>1, TailItems
    <3> QED
      BY <3>2
  <2> QED
    BY <1>1, <2>1, <2>2, <2>3, RoundEffect, BudgetEffect DEF Leaves, Continues
<1>4. \A b \in Actors, x \in Deliveries : Holds(b, x)' => Holds(b, x)
  <2>1. \A b \in Actors, x \in Deliveries : b # p => (Holds(b, x)' => Holds(b, x))
    BY <1>1, <1>2, HoldsLists DEF Busy, Others
  <2>2. Busy(p)
    BY <1>1 DEF Busy
  <2>3. \A x \in Deliveries : Holds(p, x)' => Holds(p, x)
    BY <1>1, <1>3, <2>2, HoldsLists
  <2> QED
    BY <2>1, <2>3
<1>5. HeldOnce'
  BY <1>1, <1>4 DEF HeldInv, HeldOnce
<1>6. OnDisk'
  <2> SUFFICES ASSUME NEW x \in Logged \ shared, NEW b \in Actors, Holds(b, x)',
                      ~(actor'[b].at = "unlink" /\ At(b)' = x)
               PROVE  x \in json
    BY <1>1 DEF OnDisk, Logged
  <2>1. x \in Deliveries
    BY DEF Logged, BaseInv, Types, DiskTypes, ToSet
  <2>2. ~(actor[b].at = "unlink" /\ At(b) = x)
    BY <1>1, <1>2
  <2> QED
    BY <1>4, <2>1, <2>2 DEF HeldInv, OnDisk
<1>7. SeenIsEntry'
  <2> SUFFICES ASSUME NEW q \in Passes, NEW i \in 1 .. Len(todo'[q]),
                      todo'[q][i].d \notin shared, i > 1 \/ actor'[q].at = "loop"
               PROVE  todo'[q][i].seen = entry[todo'[q][i].d]
    BY <1>1 DEF SeenIsEntry
  <2>1. CASE q = p
    BY <1>1, <1>3, <2>1 DEF HeldInv, SeenIsEntry
  <2>2. CASE q # p
    <3>1. todo'[q] = todo[q] /\ actor'[q] = actor[q]
      BY <1>1, <1>2, <2>2, Constants DEF Others
    <3> QED
      BY <1>1, <3>1 DEF HeldInv, SeenIsEntry
  <2> QED
    BY <2>1, <2>2
<1>8. ReadIsEntry'
  BY <1>1, <1>2 DEF HeldInv, ReadIsEntry
<1>9. SettledForGood'
  BY <1>1 DEF HeldInv, SettledForGood
<1> QED
  BY <1>5, <1>6, <1>7, <1>8, <1>9 DEF HeldInv

LEMMA HeldTick ==
  ASSUME BaseInv, BaseInv', HeldInv, Tick
  PROVE  HeldInv'
<1>1. /\ \A d \in Deliveries : entry'[d] = Older(entry[d]) /\ entry'[d].retry = entry[d].retry
      /\ \A p \in Passes : /\ Len(todo'[p]) = Len(todo[p])
                           /\ \A i \in 1 .. Len(todo[p]) :
                                /\ todo'[p][i].d = todo[p][i].d
                                /\ todo'[p][i].seen = Older(todo[p][i].seen)
      /\ UNCHANGED <<json, failed, acked, logged, actor, shared>>
      /\ \A a \in Actors : actor[a].at \in Working => At(a)' = At(a)
  BY TickEffect, BaseTick, EntryRecords DEF BaseInv, Types, DiskTypes
<1>2. \A b \in Actors, x \in Deliveries : Holds(b, x)' <=> Holds(b, x)
  BY <1>1, HoldsLists DEF Busy
<1>3. HeldOnce'
  BY <1>1, <1>2 DEF HeldInv, HeldOnce
<1>4. OnDisk'
  <2>1. Logged \subseteq Deliveries /\ Logged' = Logged
    BY <1>1 DEF Logged, BaseInv, Types, DiskTypes, ToSet
  <2> QED
    BY <1>1, <1>2, <2>1 DEF HeldInv, OnDisk, Working
<1>5. SeenIsEntry'
  <2>1. \A p \in Passes : \A i \in 1 .. Len(todo[p]) : todo[p][i].d \in Deliveries
    BY ItemFields DEF BaseInv, Types, ActorTypes
  <2> QED
    BY <1>1, <2>1 DEF HeldInv, SeenIsEntry
<1>6. ReadIsEntry'
  <2>1. \A a \in Actors : actor[a].at = "rewrite" => At(a) \in Deliveries
    BY AtWork DEF Working
  <2> QED
    BY <1>1, <2>1 DEF HeldInv, ReadIsEntry, Working
<1>7. SettledForGood'
  BY <1>1 DEF HeldInv, SettledForGood
<1> QED
  BY <1>3, <1>4, <1>5, <1>6, <1>7 DEF HeldInv

\* When nobody is at work there is only what is settled.
LEMMA HeldByNobody ==
  ASSUME \A a \in Actors : actor[a].at \in {"idle", "over", "cut"},
         \A p \in Passes : todo[p] = <<>>, SettledForGood
  PROVE  HeldInv
BY DEF HeldInv, HeldOnce, OnDisk, SeenIsEntry, ReadIsEntry, Holds, Busy

LEMMA HeldCrash ==
  ASSUME BaseInv, HeldInv, Crash
  PROVE  HeldInv'
<1>1. /\ \A a \in Actors : actor'[a].at \in {"idle", "over", "cut"}
      /\ \A p \in Passes : todo'[p] = <<>>
      /\ UNCHANGED <<json, failed, acked, shared>>
  BY CrashEffect
<1>2. HeldOnce' /\ OnDisk' /\ SeenIsEntry' /\ ReadIsEntry'
  BY <1>1 DEF HeldOnce, OnDisk, SeenIsEntry, ReadIsEntry, Holds, Busy
<1> QED
  BY <1>1, <1>2 DEF HeldInv, SettledForGood

LEMMA HeldStutter ==
  ASSUME HeldInv, UNCHANGED vars
  PROVE  HeldInv'
BY DEF HeldInv, HeldOnce, OnDisk, SeenIsEntry, ReadIsEntry, SettledForGood, Holds, Busy, At,
       Logged, vars, disk, history

LEMMA HeldInit == Init => HeldInv
<1> SUFFICES ASSUME Init PROVE HeldInv
  OBVIOUS
<1>1. \A a \in Actors : actor[a].at \in {"idle", "over"}
  BY ActorRecords DEF Init
<1>2. SettledForGood /\ \A p \in Passes : todo[p] = <<>>
  BY DEF Init, SettledForGood
<1> QED
  BY <1>1, <1>2, HeldByNobody

LEMMA HeldNext ==
  ASSUME BaseInv, BaseInv', HeldInv, [Next]_vars
  PROVE  HeldInv'
BY HeldEnqueue, HeldStep, HeldStart, HeldLoop, HeldCrash, HeldTick, HeldStutter DEF Next

\* What is acknowledged or quarantined never comes back to the queue, unless a
\* pass took it over from who was at work on it (ackDelivery, failDelivery,
\* moveToFailed).
THEOREM SettledStaysSettled == Spec => []SettledForGood
<1>1. HeldInv => SettledForGood
  BY DEF HeldInv
<1>2. BaseInv /\ BaseInv' /\ HeldInv /\ [Next]_vars => HeldInv'
  BY HeldNext
<1>3. BaseInv /\ [Next]_vars => BaseInv'
  BY BaseNext
<1> QED
  BY <1>1, <1>2, <1>3, BaseInit, HeldInit, PTL DEF Spec

-----------------------------------------------------------------------------
(* What a pass does with an entry                                           *)

\* A pass starts to send only in its own loop, and leaves the others alone.
LEMMA PassMoves ==
  ASSUME BaseInv, [Next]_vars, NEW p \in Passes
  PROVE  \/ actor'[p] = actor[p] /\ Len(todo'[p]) = Len(todo[p])
         \/ Step(p)
         \/ actor[p].at = "idle" /\ todo[p] = <<>>
         \/ Round(p)
         \/ actor'[p].at = "cut"
         \/ ~up' /\ actor'[p].at \in {"idle", "over", "cut"}
<1>1. p \in Actors /\ p \notin Deliveries
  BY Constants
<1>2. ASSUME NEW a \in Actors, Others(a), a # p
      PROVE  actor'[p] = actor[p] /\ Len(todo'[p]) = Len(todo[p])
  BY <1>1, <1>2 DEF Others
<1>3. ASSUME NEW d \in Deliveries, Enqueue(d)
      PROVE  actor'[p] = actor[p] /\ Len(todo'[p]) = Len(todo[p])
  BY <1>1, <1>2, <1>3, BaseEnqueue, Constants
<1>4. ASSUME NEW a \in Actors, Step(a), a # p
      PROVE  actor'[p] = actor[p] /\ Len(todo'[p]) = Len(todo[p])
  BY <1>2, <1>4, StepFiles DEF NoFile, Acknowledges, Quarantines, Records, Leaves, Continues
<1>5. ASSUME NEW q \in Passes, StartPass(q) \/ OutOfBudget(q) \/ Round(q), q # p
      PROVE  actor'[p] = actor[p] /\ Len(todo'[p]) = Len(todo[p])
  BY <1>2, <1>5, StartEffect, BudgetEffect, RoundEffect, Constants DEF Leaves, Continues
<1>6. ASSUME StartPass(p)
      PROVE  actor[p].at = "idle" /\ todo[p] = <<>>
  BY <1>6, StartEffect
<1>7. OutOfBudget(p) => actor'[p].at = "cut"
  BY BudgetEffect
<1>8. Crash => ~up' /\ actor'[p].at \in {"idle", "over", "cut"}
  BY <1>1, CrashEffect
<1>9. Tick => actor'[p] = actor[p] /\ Len(todo'[p]) = Len(todo[p])
  BY TickEffect
<1>10. UNCHANGED vars => actor'[p] = actor[p] /\ Len(todo'[p]) = Len(todo[p])
  BY DEF vars
<1> QED
  BY <1>3, <1>4, <1>5, <1>6, <1>7, <1>8, <1>9, <1>10 DEF Next

LEMMA HeadOrTail ==
  ASSUME NEW S, NEW s \in Seq(S), s # <<>>
  PROVE  \A e \in ToSet(s) : e = Head(s) \/ e \in ToSet(Tail(s))
<1> SUFFICES ASSUME NEW e \in ToSet(s), e # Head(s) PROVE e \in ToSet(Tail(s))
  OBVIOUS
<1>1. PICK i \in 1 .. Len(s) : s[i] = e
  BY Elements
<1>2. /\ Head(s) = s[1] /\ Tail(s) \in Seq(S) /\ Len(Tail(s)) = Len(s) - 1 /\ Len(s) \in Nat
      /\ \A k \in 1 .. Len(Tail(s)) : Tail(s)[k] = s[k + 1]
  BY TailItems, Elements
<1>3. i - 1 \in 1 .. Len(Tail(s)) /\ (i - 1) + 1 = i
  BY <1>1, <1>2
<1>4. Tail(s)[i - 1] = e
  BY <1>1, <1>2, <1>3
<1> QED
  BY <1>2, <1>3, <1>4, Elements

\* An eligible entry is as old as the delay of its retries.
LEMMA EligibleIsOld ==
  ASSUME NEW e \in Entries, Eligible(e), e.retry > 0
  PROVE  e.age >= BackoffOf(e.retry)
<1>1. e.retry \in Nat \ {0} /\ e.retry + 1 \in Nat \ {0} /\ e.age \in Int /\ e.retry <= e.retry + 1
  BY Delays DEF Entries
<1>2. /\ BackoffOf(e.retry) \in Nat /\ BackoffOf(e.retry) <= LongAgo
      /\ BackoffOf(e.retry + 1) \in Nat /\ BackoffOf(e.retry) <= BackoffOf(e.retry + 1)
      /\ LongAgo \in Nat /\ Never = LongAgo + 1
  BY <1>1, Delays
<1>3. e.age = Never \/ e.age >= BackoffOf(e.retry + 1)
  BY DEF Eligible
<1> QED
  BY <1>1, <1>2, <1>3

\* A replay comes no sooner after the last recorded failure than the delay of
\* that many retries (isEntryEligibleForRecoveryRetry, computeBackoffMs).
THEOREM DelaysAreKept == Spec => BackoffKept
<1> DEFINE Waits(p) == (actor[p].at = "loop" /\ actor'[p].at = "sending" /\ At(p) \notin shared)
                          => LET e == entry[At(p)] IN
                             e.retry > 0 => e.age >= BackoffOf(e.retry)
<1>1. ASSUME BaseInv, HeldInv, [Next]_vars, NEW p \in Passes
      PROVE  Waits(p)
  <2> SUFFICES ASSUME actor[p].at = "loop", actor'[p].at = "sending", At(p) \notin shared,
                      entry[At(p)].retry > 0
               PROVE  entry[At(p)].age >= BackoffOf(entry[At(p)].retry)
    OBVIOUS
  <2>1. Round(p)
    <3>1. ~Step(p)
      BY <1>1, StepFiles, Constants DEF Working
    <3> QED
      BY <1>1, <3>1, PassMoves
  <2>2. todo[p] # <<>> /\ Eligible(Head(todo[p]).seen)
    BY <1>1, <2>1, RoundEffect DEF Leaves, Continues
  <2>3. /\ todo[p] \in Seq(Items) /\ p \in Actors /\ ~IsLive(p) /\ At(p) = Head(todo[p]).d
    BY <1>1, Constants DEF BaseInv, Types, ActorTypes, At
  <2>4. 1 \in 1 .. Len(todo[p]) /\ Head(todo[p]) = todo[p][1] /\ Head(todo[p]) \in Items
    BY <2>2, <2>3, TailItems
  <2>5. Head(todo[p]).seen = entry[At(p)] /\ Head(todo[p]).seen \in Entries
    BY <1>1, <2>3, <2>4 DEF HeldInv, SeenIsEntry, Items
  <2> QED
    BY <2>2, <2>5, EligibleIsOld
<1>2. BaseInv /\ HeldInv /\ [Next]_vars => \A p \in Passes : Waits(p)
  BY <1>1
<1>3. BaseInv /\ BaseInv' /\ HeldInv /\ [Next]_vars => HeldInv'
  BY HeldNext
<1>4. BaseInv /\ [Next]_vars => BaseInv'
  BY BaseNext
<1>5. BaseInv /\ HeldInv /\ [Next]_vars => [\A p \in Passes : Waits(p)]_vars
  BY <1>2
<1> QED
  BY <1>3, <1>4, <1>5, BaseInit, HeldInit, PTL DEF Spec, BackoffKept

\* An entry that is ready leaves the list of a pass only once it was replayed,
\* or the budget is used up, or the process dies (recoverPendingDeliveries).
THEOREM ReadyEntriesAreReached == Spec => ReadyIsReached
<1> DEFINE Reached(p) == Len(todo'[p]) < Len(todo[p]) =>
             \/ actor'[p].at = "cut" \/ ~up'
             \/ actor[p].at # "loop" /\ todo'[p] = Tail(todo[p])
             \/ \A e \in ToSet(todo[p]) \ ToSet(todo'[p]) : ~Eligible(e.seen)
<1>1. ASSUME BaseInv, [Next]_vars, NEW p \in Passes
      PROVE  Reached(p)
  <2>1. todo[p] \in Seq(Items) /\ p \in Actors /\ ~IsLive(p) /\ Len(todo[p]) \in Nat
    BY <1>1, Constants DEF BaseInv, Types, ActorTypes
  <2>2. CASE Step(p)
    <3>1. /\ actor[p].at \in Working
          /\ todo'[p] = todo[p] \/ todo'[p] = Tail(todo[p])
      BY <1>1, <2>1, <2>2, StepFiles
         DEF NoFile, Acknowledges, Quarantines, Records, Leaves, Continues
    <3> QED
      BY <2>1, <3>1 DEF Working
  <2>3. CASE Round(p)
    <3>1. CASE todo'[p] = todo[p]
      BY <2>1, <3>1
    <3>2. CASE todo'[p] = Tail(todo[p]) /\ todo[p] # <<>> /\ ~Eligible(Head(todo[p]).seen)
      <4>1. \A e \in ToSet(todo[p]) : e = Head(todo[p]) \/ e \in ToSet(todo'[p])
        BY <2>1, <3>2, HeadOrTail
      <4> QED
        BY <3>2, <4>1
    <3> QED
      BY <1>1, <2>1, <2>3, <3>1, <3>2, RoundEffect DEF Leaves, Continues
  <2>4. CASE todo[p] = <<>>
    <3>1. Len(todo[p]) = 0 /\ ToSet(todo[p]) = {}
      BY <2>4 DEF ToSet
    <3> QED
      BY <3>1
  <2>5. CASE Len(todo'[p]) = Len(todo[p])
    BY <2>1, <2>5
  <2> QED
    BY <1>1, <2>2, <2>3, <2>4, <2>5, PassMoves
<1>2. BaseInv /\ [Next]_vars => [\A p \in Passes : Reached(p)]_vars
  BY <1>1
<1>3. BaseInv /\ [Next]_vars => BaseInv'
  BY BaseNext
<1> QED
  BY <1>2, <1>3, BaseInit, PTL DEF Spec, ReadyIsReached

-----------------------------------------------------------------------------
(* Retries are bounded                                                      *)

\* A pass has replayed d and has not settled or recorded the attempt yet.
TryingBy(p, d) ==
  actor[p].at \in {"sending", "ack", "fail", "rewrite", "move"} /\ At(p) = d
Trying(d) == \E p \in Passes : TryingBy(p, d)

\* The file of d counts its replays, but for the one that goes on and those
\* that a crash or a failing disk left unrecorded.
Recorded(d) ==
  d \in json \ shared => attempts[d] <= entry[d].retry + faults + (IF Trying(d) THEN 1 ELSE 0)
RetriesRecorded == \A d \in Deliveries : Recorded(d)

RetryInv == RetriesRecorded /\ RetriesBounded

\* A pass leaves an entry on disk as it is only if a file operation failed.
LEMMA UnrecordedIsAFault ==
  ASSUME BaseInv, NEW a \in Actors, ~IsLive(a), Step(a), Leaves(a), NoFile(a), At(a) \in json,
         actor[a].at # "unlink"
  PROVE  faults' = faults + 1 \/ Records(a)
<1>1. actor'[a].at = "loop"
  BY DEF Leaves
<1>2. /\ actor \in [Actors -> ActorStates] /\ json' = json /\ acked' = acked /\ failed' = failed
  BY DEF BaseInv, Types, ActorTypes, NoFile
<1>3. ASSUME NEW step \in Steps \ {"loop"}
      PROVE  ~Continues(a, {step})
  BY <1>1 DEF Continues
<1>4. ~PayloadSent(a)
  <2> SUFFICES ASSUME PayloadSent(a) PROVE FALSE
    OBVIOUS
  <2>1. actor[a].at = "sending" /\ PayloadDone(a, TRUE)
    BY DEF PayloadSent
  <2> QED
    BY <1>1, <2>1, PayloadDoneEffect DEF Continues
<1>5. ASSUME NEW kind \in {"transient", "permanent", "abort"}, NEW late \in BOOLEAN
      PROVE  ~PayloadFails(a, kind, late)
  <2> SUFFICES ASSUME PayloadFails(a, kind, late) PROVE FALSE
    OBVIOUS
  <2>1. actor[a].at = "sending" /\ PayloadDone(a, FALSE)
    BY <1>1, PayloadFailsEffect DEF Continues
  <2> QED
    BY <1>1, <2>1, PayloadDoneEffect DEF Continues
<1>6. CASE Ack(a)
  <2>1. ~GoTo(a, "unlink") /\ ~GoTo(a, "fail")
    BY <1>3, GoToEffect DEF Steps
  <2> QED
    BY <1>6, <2>1 DEF Ack
<1>7. CASE FailRead(a)
  <2>1. "rewrite" # "loop" /\ a \in Actors
    OBVIOUS
  <2>2. ~(actor' = [actor EXCEPT ![a].at = "rewrite", ![a].retry = entry[At(a)].retry])
    <3> SUFFICES ASSUME actor' = [actor EXCEPT ![a].at = "rewrite", ![a].retry = entry[At(a)].retry]
                 PROVE  FALSE
      OBVIOUS
    <3>1. actor'[a] = [actor[a] EXCEPT !.at = "rewrite", !.retry = entry[At(a)].retry]
      BY <1>2
    <3>2. actor'[a].at = "rewrite"
      BY <1>2, <3>1 DEF ActorStates
    <3> QED
      BY <1>1, <3>2
  <2> QED
    BY <1>7, <2>2 DEF FailRead, IoError
<1>8. CASE Rewrite(a)
  <2>1. entry \in [Deliveries -> Entries] /\ At(a) \in Deliveries
    BY StepFiles DEF BaseInv, Types, DiskTypes
  <2>2. CASE IoError(a)
    BY <2>2 DEF IoError
  <2>3. CASE /\ json' = json \cup {At(a)}
             /\ entry' = [entry EXCEPT ![At(a)] = [retry |-> actor[a].retry + 1, age |-> 0]]
    <3>1. entry'[At(a)].retry = actor[a].retry + 1
      BY <2>1, <2>3
    <3> QED
      BY <1>2, <1>8, <2>3, <3>1 DEF Records, Rewrite
  <2> QED
    BY <1>8, <2>2, <2>3 DEF Rewrite
<1>9. CASE Move(a)
  BY <1>2, <1>9 DEF Move, IoError, RemoveFile
<1>10. ~Unlink(a)
  BY DEF Unlink
<1> QED
  BY <1>4, <1>5, <1>6, <1>7, <1>8, <1>9, <1>10 DEF Step

LEMMA RecordedKept ==
  ASSUME NEW d \in Deliveries, Recorded(d), d \in json, shared \subseteq shared',
         attempts[d] \in Nat, attempts'[d] = attempts[d], faults \in Nat, faults' \in Nat,
         entry[d].retry \in Nat, entry'[d].retry \in Nat,
         faults <= faults', entry[d].retry <= entry'[d].retry,
         \/ ~Trying(d) \/ Trying(d)'
         \/ faults' = faults + 1 \/ entry'[d].retry = entry[d].retry + 1
  PROVE  Recorded(d)'
<1> SUFFICES ASSUME d \notin shared'
             PROVE  attempts'[d] <= entry'[d].retry + faults' + (IF Trying(d)' THEN 1 ELSE 0)
  BY DEF Recorded
<1>1. attempts[d] <= entry[d].retry + faults + (IF Trying(d) THEN 1 ELSE 0)
  BY DEF Recorded
<1> HIDE DEF Trying
<1>2. CASE ~Trying(d)
  BY <1>1, <1>2
<1>3. CASE Trying(d)'
  BY <1>1, <1>3
<1>4. CASE faults' = faults + 1 \/ entry'[d].retry = entry[d].retry + 1
  BY <1>1, <1>4
<1> QED
  BY <1>2, <1>3, <1>4

LEMMA Numbers ==
  ASSUME BaseInv
  PROVE  /\ faults \in Nat
         /\ \A d \in Deliveries : attempts[d] \in Nat /\ entry[d].retry \in Nat
<1>1. /\ entry \in [Deliveries -> Entries] /\ attempts \in [Deliveries -> Nat] /\ faults \in Nat
  BY DEF BaseInv, Types, DiskTypes, ActorTypes, HistoryTypes
<1> QED
  BY <1>1 DEF Entries

LEMMA NumbersNext ==
  ASSUME BaseInv'
  PROVE  /\ faults' \in Nat
         /\ \A d \in Deliveries : attempts'[d] \in Nat /\ entry'[d].retry \in Nat
<1>1. /\ entry' \in [Deliveries -> Entries] /\ attempts' \in [Deliveries -> Nat] /\ faults' \in Nat
  BY DEF BaseInv, Types, DiskTypes, ActorTypes, HistoryTypes
<1> QED
  BY <1>1 DEF Entries

LEMMA BoundKept ==
  ASSUME BaseInv, BaseInv', RetriesBounded,
         attempts' = attempts, faults <= faults', shared \subseteq shared'
  PROVE  RetriesBounded'
BY Numbers, NumbersNext, Constants DEF RetriesBounded

\* Whoever else works does not try what it did not try.
LEMMA TryingByOthers ==
  ASSUME NEW a \in Actors, Others(a), NEW d \in Deliveries,
         TryingBy(a, d) => TryingBy(a, d)'
  PROVE  Trying(d) => Trying(d)'
<1> SUFFICES ASSUME NEW p \in Passes, TryingBy(p, d) PROVE Trying(d)'
  BY DEF Trying
<1>1. p \in Actors
  BY Constants
<1>2. CASE p = a
  BY <1>2 DEF Trying
<1>3. CASE p # a
  <2>1. actor'[p] = actor[p] /\ At(p)' = At(p)
    BY <1>1, <1>3, AtStays DEF Others
  <2> QED
    BY <2>1 DEF Trying, TryingBy
<1> QED
  BY <1>2, <1>3

LEMMA RetryStep ==
  ASSUME BaseInv, BaseInv', HeldInv, RetryInv, NEW a \in Actors, Step(a)
  PROVE  RetryInv'
<1>1. /\ actor[a].at \in Working /\ At(a) \in Deliveries
      /\ UNCHANGED <<shared, logged, attempts>> /\ faults <= faults'
      /\ \A x \in Deliveries : x # At(a) => entry'[x] = entry[x]
      /\ NoFile(a) \/ Acknowledges(a) \/ Quarantines(a) \/ Records(a)
  BY StepFiles
<1>2. Others(a) /\ (Leaves(a) \/ Continues(a, Working)) /\ Holds(a, At(a))
  BY <1>1, AtWork
     DEF NoFile, Acknowledges, Quarantines, Records, Leaves, Continues, Working
<1>3. RetriesBounded'
  BY <1>1, BoundKept DEF RetryInv
<1>4. ASSUME NEW d \in Deliveries, d \in json' \ shared'
      PROVE  Recorded(d)'
  <2>1. Recorded(d) /\ d \notin shared
    BY <1>1, <1>4 DEF RetryInv, RetriesRecorded
  <2>2. /\ faults \in Nat /\ faults' \in Nat /\ attempts[d] \in Nat
        /\ entry[d].retry \in Nat /\ entry'[d].retry \in Nat
    BY Numbers, NumbersNext
  <2>3. CASE d # At(a)
    <3>1. d \in json /\ entry'[d] = entry[d]
      BY <1>1, <1>4, <2>3 DEF NoFile, Acknowledges, Quarantines, Records
    <3>2. Trying(d) => Trying(d)'
      BY <1>2, <2>3, TryingByOthers DEF TryingBy
    <3> QED
      BY <1>1, <2>1, <2>2, <3>1, <3>2, RecordedKept
  <2>4. CASE d = At(a)
    <3>1. NoFile(a) \/ Records(a)
      BY <1>1, <1>4, <2>4 DEF Acknowledges, Quarantines
    <3>2. d \in json
      <4>1. CASE NoFile(a)
        BY <1>4, <4>1 DEF NoFile
      <4>2. CASE Records(a)
        <5>1. d \in Logged /\ actor[a].at = "rewrite"
          BY <2>4, <4>2, AtWork DEF Records, Working, BaseInv, SenderSteps, IsLive
        <5> QED
          BY <1>2, <2>1, <2>4, <5>1 DEF HeldInv, OnDisk
      <4> QED
        BY <3>1, <4>1, <4>2
    <3>3. /\ Records(a) => entry'[d].retry = entry[d].retry + 1
          /\ ~Records(a) => entry'[d] = entry[d]
      <4>1. Records(a) => actor[a].retry = entry[d].retry
        BY <2>1, <2>4 DEF Records, HeldInv, ReadIsEntry
      <4> QED
        BY <2>4, <3>1, <4>1 DEF Records, NoFile
    <3>4. Trying(d) => a \in Passes
      <4> SUFFICES ASSUME NEW p \in Passes, TryingBy(p, d) PROVE p = a
        BY DEF Trying
      <4>1. p \in Actors /\ Holds(p, d)
        BY AtWork, Constants DEF TryingBy, Working
      <4> QED
        BY <1>2, <2>1, <2>4, <4>1 DEF HeldInv, HeldOnce
    <3>5. ~Trying(d) \/ Trying(d)' \/ faults' = faults + 1 \/ Records(a)
      <4> SUFFICES ASSUME Trying(d), ~Records(a) PROVE Trying(d)' \/ faults' = faults + 1
        OBVIOUS
      <4>1. a \in Passes /\ ~IsLive(a) /\ NoFile(a)
        BY <3>1, <3>4, Constants
      <4>2. PICK p \in Passes : TryingBy(p, d)
        BY DEF Trying
      <4>3. p = a
        <5>1. p \in Actors /\ Holds(p, d)
          BY <4>2, AtWork, Constants DEF TryingBy, Working
        <5> QED
          BY <1>2, <2>1, <2>4, <5>1 DEF HeldInv, HeldOnce
      <4>4. actor[a].at # "unlink"
        BY <4>2, <4>3 DEF TryingBy
      <4>5. CASE Leaves(a)
        BY <2>4, <3>2, <4>1, <4>4, <4>5, UnrecordedIsAFault
      <4>6. CASE ~Leaves(a)
        <5>1. At(a)' = d /\ actor'[a].at \in {"sending", "ack", "fail", "rewrite", "move"}
          BY <1>2, <2>4, <4>1, <4>6, AtStays DEF NoFile, Continues
        <5> QED
          BY <4>1, <5>1 DEF Trying, TryingBy
      <4> QED
        BY <4>5, <4>6
    <3> QED
      BY <1>1, <2>1, <2>2, <3>2, <3>3, <3>5, RecordedKept
  <2> QED
    BY <2>3, <2>4
<1>5. RetriesRecorded'
  BY <1>4 DEF RetriesRecorded, Recorded
<1> QED
  BY <1>3, <1>5 DEF RetryInv

LEMMA RetryEnqueue ==
  ASSUME BaseInv, BaseInv', RetryInv, NEW d \in Deliveries, Enqueue(d)
  PROVE  RetryInv'
<1>1. /\ Others(d) /\ d \in Actors /\ d \notin Passes /\ attempts[d] = 0
      /\ json' \subseteq json \cup {d} /\ faults <= faults'
      /\ \A x \in Deliveries : x # d => entry'[x] = entry[x]
      /\ shared' = shared /\ attempts' = attempts
  BY BaseEnqueue, Constants DEF Enqueue, BaseInv, IdleIsNew
<1>2. RetriesBounded'
  BY <1>1, BoundKept DEF RetryInv
<1>3. ASSUME NEW x \in Deliveries, x \in json' \ shared'
      PROVE  Recorded(x)'
  <2>1. /\ faults \in Nat /\ faults' \in Nat /\ attempts[x] \in Nat
        /\ entry[x].retry \in Nat /\ entry'[x].retry \in Nat
    BY Numbers, NumbersNext
  <2>2. CASE x = d
    <3>1. attempts'[x] = 0
      BY <1>1, <2>2
    <3> QED
      BY <2>1, <3>1 DEF Recorded
  <2>3. CASE x # d
    <3>1. x \in json /\ entry'[x] = entry[x] /\ Recorded(x)
      BY <1>1, <1>3, <2>3 DEF RetryInv, RetriesRecorded
    <3>2. Trying(x) => Trying(x)'
      <4>1. ~TryingBy(d, x) \/ TryingBy(d, x)'
        BY <1>1, <2>3, BaseEnqueue DEF TryingBy
      <4> QED
        BY <1>1, <4>1, TryingByOthers
    <3> QED
      BY <1>1, <2>1, <3>1, <3>2, RecordedKept
  <2> QED
    BY <2>2, <2>3
<1>4. RetriesRecorded'
  BY <1>3 DEF RetriesRecorded, Recorded
<1> QED
  BY <1>2, <1>4 DEF RetryInv

\* Steps that replay nothing and keep the files.
LEMMA RetryQuiet ==
  ASSUME BaseInv, BaseInv', RetryInv,
         json' = json, attempts' = attempts, shared \subseteq shared', faults <= faults',
         \A d \in Deliveries : entry'[d].retry = entry[d].retry,
         faults' = faults + 1 \/ \A d \in Deliveries : Trying(d) => Trying(d)'
  PROVE  RetryInv'
<1>1. RetriesBounded'
  BY BoundKept DEF RetryInv
<1>2. ASSUME NEW d \in Deliveries, d \in json' \ shared'
      PROVE  Recorded(d)'
  <2>1. /\ faults \in Nat /\ faults' \in Nat /\ attempts[d] \in Nat
        /\ entry[d].retry \in Nat /\ entry'[d].retry \in Nat
    BY Numbers, NumbersNext
  <2>2. entry[d].retry <= entry'[d].retry
    BY <2>1
  <2>3. Recorded(d)
    BY DEF RetryInv, RetriesRecorded
  <2> QED
    BY <1>2, <2>1, <2>2, <2>3, RecordedKept
<1>3. RetriesRecorded'
  BY <1>2 DEF RetriesRecorded, Recorded
<1> QED
  BY <1>1, <1>3 DEF RetryInv

\* A replay finds the delivery on disk with its failures counted.
LEMMA RetryReplay ==
  ASSUME BaseInv, BaseInv', HeldInv, RetryInv, NEW p \in Passes, Round(p),
         Continues(p, {"sending"}), todo[p] # <<>>, Head(todo[p]).seen.retry < MaxRetries,
         attempts' = [attempts EXCEPT ![At(p)] = @ + 1]
  PROVE  RetryInv'
<1>1. /\ p \in Actors /\ ~IsLive(p) /\ actor[p].at = "loop"
      /\ UNCHANGED <<json, entry, faults, shared>> /\ Others(p) /\ actor'[p].at = "sending"
      /\ At(p)' = At(p)
  BY RoundEffect, AtStays DEF disk, Continues
<1>2. At(p) \in Deliveries /\ Holds(p, At(p)) /\ At(p) \in Logged
  BY <1>1, AtWork
<1>3. At(p) \notin shared => entry[At(p)].retry < MaxRetries
  <2>1. /\ todo[p] \in Seq(Items) /\ At(p) = Head(todo[p]).d
    BY <1>1 DEF BaseInv, Types, ActorTypes, At
  <2>2. 1 \in 1 .. Len(todo[p]) /\ Head(todo[p]) = todo[p][1]
    BY <2>1, TailItems
  <2> QED
    BY <1>1, <2>1, <2>2 DEF HeldInv, SeenIsEntry
<1>4. At(p) \notin shared => At(p) \in json /\ ~Trying(At(p))
  <2> SUFFICES ASSUME At(p) \notin shared PROVE At(p) \in json /\ ~Trying(At(p))
    OBVIOUS
  <2>1. At(p) \in json
    BY <1>1, <1>2 DEF HeldInv, OnDisk
  <2>2. ASSUME NEW q \in Passes, TryingBy(q, At(p)) PROVE FALSE
    <3>1. q \in Actors /\ Holds(q, At(p)) /\ q # p
      BY <1>1, <2>2, AtWork, Constants DEF TryingBy, Working
    <3> QED
      BY <1>1, <1>2, <3>1 DEF HeldInv, HeldOnce
  <2> QED
    BY <2>1, <2>2 DEF Trying
<1>5. ASSUME NEW d \in Deliveries, d \notin shared, d = At(p)
      PROVE  Recorded(d)' /\ attempts'[d] <= MaxRetries + faults'
  <2>1. /\ faults \in Nat /\ attempts[d] \in Nat /\ entry[d].retry \in Nat
        /\ attempts'[d] = attempts[d] + 1 /\ MaxRetries \in Nat
    BY <1>5, Numbers, Constants DEF BaseInv, Types, HistoryTypes
  <2>2. attempts[d] <= entry[d].retry + faults
    BY <1>4, <1>5, <2>1 DEF RetryInv, RetriesRecorded, Recorded
  <2>3. attempts'[d] <= entry'[d].retry + faults' + 1 /\ attempts'[d] <= MaxRetries + faults'
    BY <1>1, <1>3, <1>5, <2>1, <2>2
  <2>4. Trying(d)'
    BY <1>1, <1>5 DEF Trying, TryingBy
  <2> QED
    BY <2>3, <2>4 DEF Recorded
<1>6. ASSUME NEW d \in Deliveries, d \notin shared, d # At(p)
      PROVE  attempts'[d] = attempts[d] /\ Recorded(d)'
  <2>1. /\ faults \in Nat /\ faults' \in Nat /\ attempts[d] \in Nat
        /\ entry[d].retry \in Nat /\ entry'[d].retry \in Nat
    BY Numbers, NumbersNext
  <2>2. attempts'[d] = attempts[d]
    BY <1>2, <1>6 DEF BaseInv, Types, HistoryTypes
  <2>3. Trying(d) => Trying(d)'
    BY <1>1, TryingByOthers DEF TryingBy
  <2>4. Recorded(d)
    BY DEF RetryInv, RetriesRecorded
  <2>5. CASE d \in json
    BY <1>1, <2>1, <2>2, <2>3, <2>4, <2>5, RecordedKept
  <2>6. CASE d \notin json
    <3>1. d \notin json'
      BY <1>1, <2>6
    <3> QED
      BY <2>2, <3>1 DEF Recorded
  <2> QED
    BY <2>2, <2>5, <2>6
<1>7. RetriesBounded'
  BY <1>1, <1>5, <1>6 DEF RetryInv, RetriesBounded
<1>8. RetriesRecorded'
  <2> SUFFICES ASSUME NEW d \in Deliveries PROVE Recorded(d)'
    BY DEF RetriesRecorded
  <2>1. CASE d \in shared
    BY <1>1, <2>1 DEF Recorded
  <2>2. CASE d \notin shared
    BY <1>5, <1>6, <2>2
  <2> QED
    BY <2>1, <2>2
<1> QED
  BY <1>7, <1>8 DEF RetryInv

LEMMA RetryOthers ==
  ASSUME BaseInv, BaseInv', HeldInv, RetryInv,
         \/ \E p \in Passes : StartPass(p) \/ OutOfBudget(p) \/ Round(p)
         \/ Crash \/ Tick \/ UNCHANGED vars
  PROVE  RetryInv'
<1>0. faults \in Nat
  BY Numbers
<1>1. ASSUME NEW p \in Passes, Others(p),
             actor[p].at \in {"idle", "loop"},
             UNCHANGED <<json, entry, faults, attempts>>, shared \subseteq shared'
      PROVE  RetryInv'
  <2>1. \A d \in Deliveries : Trying(d) => Trying(d)'
    BY <1>1, Constants, TryingByOthers DEF TryingBy
  <2> QED
    BY <1>0, <1>1, <2>1, RetryQuiet
<1>2. ASSUME NEW p \in Passes, StartPass(p) PROVE RetryInv'
  BY <1>1, <1>2, StartEffect
<1>3. ASSUME NEW p \in Passes, OutOfBudget(p) PROVE RetryInv'
  BY <1>1, <1>3, BudgetEffect DEF disk, history
<1>4. ASSUME NEW p \in Passes, Round(p) PROVE RetryInv'
  <2>1. /\ actor[p].at = "loop" /\ UNCHANGED <<json, entry, faults, shared>>
    BY <1>4, RoundEffect DEF disk
  <2>2. CASE UNCHANGED attempts /\ Others(p)
    BY <1>1, <2>1, <2>2
  <2> QED
    BY <1>4, <2>2, RoundEffect, RetryReplay DEF Leaves, Continues
<1>5. CASE Crash
  <2>1. UNCHANGED <<json, entry, attempts, shared>> /\ faults' = faults + 1
    BY <1>5, CrashEffect
  <2>2. faults <= faults'
    BY <1>0, <2>1
  <2> QED
    BY <2>1, <2>2, RetryQuiet
<1>6. CASE Tick
  <2>1. /\ UNCHANGED <<json, attempts, shared, faults, actor>>
        /\ \A a \in Actors : actor[a].at \in Working => At(a)' = At(a)
        /\ \A d \in Deliveries : entry'[d].retry = entry[d].retry
    BY <1>6, TickEffect, BaseTick, EntryRecords DEF BaseInv, Types, DiskTypes
  <2>2. \A d \in Deliveries : Trying(d) => Trying(d)'
    BY <2>1, Constants DEF Trying, TryingBy, Working
  <2> QED
    BY <1>0, <2>1, <2>2, RetryQuiet
<1>7. CASE UNCHANGED vars
  BY <1>7 DEF RetryInv, RetriesRecorded, Recorded, Trying, TryingBy, At, RetriesBounded,
              vars, disk, history
<1> QED
  BY <1>2, <1>3, <1>4, <1>5, <1>6, <1>7

\* A delivery is replayed at most MAX_RETRIES times, plus once for each attempt
\* whose failure was left unrecorded (failDelivery, recoverPendingDeliveries);
\* and the state is well typed.
THEOREM RetriesAreBounded == Spec => []Inv
<1>1. Init => RetryInv
  <2> SUFFICES ASSUME Init PROVE RetryInv
    OBVIOUS
  <2>1. BaseInv /\ faults = 0 /\ \A d \in Deliveries : attempts[d] = entry[d].retry
    BY BaseInit DEF Init
  <2>2. \A d \in Deliveries : entry[d].retry \in Nat /\ attempts[d] <= 1
    BY <2>1, Numbers DEF Init, Fresh
  <2>3. RetriesBounded
    BY <2>1, <2>2, Numbers, Constants DEF RetriesBounded
  <2>4. RetriesRecorded
    BY <2>1, <2>2 DEF RetriesRecorded, Recorded
  <2> QED
    BY <2>3, <2>4 DEF RetryInv
<1>2. BaseInv /\ BaseInv' /\ HeldInv /\ RetryInv /\ [Next]_vars => RetryInv'
  BY RetryEnqueue, RetryStep, RetryOthers DEF Next
<1>3. BaseInv /\ BaseInv' /\ HeldInv /\ [Next]_vars => HeldInv'
  BY HeldNext
<1>4. BaseInv /\ [Next]_vars => BaseInv'
  BY BaseNext
<1>5. BaseInv /\ RetryInv => Inv
  BY BaseTypeOK DEF RetryInv, Inv
<1> QED
  BY <1>1, <1>2, <1>3, <1>4, <1>5, BaseInit, HeldInit, PTL DEF Spec

-----------------------------------------------------------------------------
(* What is sent twice                                                       *)

Untouched(d) == \A i \in 1 .. Parts[d] : <<d, i>> \notin received
Works(a, d, steps) == actor[a].at \in steps /\ At(a) = d

\* Without a reason to be sent again, a delivery that waits was never sent, and
\* one that is sent has nothing received of what is left.
Once(d) ==
  d \notin excused \cup shared =>
    /\ actor[d].at = "idle" => Untouched(d)
    /\ \A a \in Actors : Works(a, d, {"sending"}) =>
         /\ actor[a].partial = FALSE
         /\ \A i \in actor[a].part .. Parts[d] : <<d, i>> \notin received
    /\ (d \in json /\ \A a \in Actors : ~Works(a, d, {"sending", "ack"})) => Untouched(d)

OnceInv == (\A d \in Deliveries : Once(d)) /\ DoubledForAReason

\* A step is no concern of the deliveries that it leaves alone.
LEMMA OnceKept ==
  ASSUME NEW d \in Deliveries, Once(d),
         \A i : <<d, i>> \in received' <=> <<d, i>> \in received,
         d \in json' => d \in json, excused \subseteq excused', shared \subseteq shared',
         actor'[d].at = "idle" => actor[d].at = "idle",
         \A a \in Actors : Works(a, d, {"sending"})' => actor'[a] = actor[a] /\ At(a) = d,
         \A a \in Actors : Works(a, d, {"sending", "ack"}) => Works(a, d, {"sending", "ack"})'
  PROVE  Once(d)'
<1> SUFFICES ASSUME d \notin excused' \cup shared'
             PROVE  /\ actor'[d].at = "idle" => Untouched(d)'
                    /\ \A a \in Actors : Works(a, d, {"sending"})' =>
                         /\ actor'[a].partial = FALSE
                         /\ \A i \in actor'[a].part .. Parts[d] : <<d, i>> \notin received'
                    /\ (d \in json' /\ \A a \in Actors : ~Works(a, d, {"sending", "ack"})')
                         => Untouched(d)'
  BY DEF Once
<1>1. d \notin excused \cup shared
  OBVIOUS
<1>2. Untouched(d) => Untouched(d)'
  BY DEF Untouched
<1>3. actor'[d].at = "idle" => Untouched(d)'
  BY <1>1, <1>2 DEF Once
<1>4. ASSUME NEW a \in Actors, Works(a, d, {"sending"})'
      PROVE  /\ actor'[a].partial = FALSE
             /\ \A i \in actor'[a].part .. Parts[d] : <<d, i>> \notin received'
  <2>1. actor'[a] = actor[a] /\ Works(a, d, {"sending"})
    BY <1>4 DEF Works
  <2> QED
    BY <1>1, <2>1 DEF Once
<1>5. (d \in json' /\ \A a \in Actors : ~Works(a, d, {"sending", "ack"})') => Untouched(d)'
  BY <1>1, <1>2 DEF Once
<1> QED
  BY <1>3, <1>4, <1>5

\* Only one actor is at work on a delivery that no pass took over.
LEMMA WorksAlone ==
  ASSUME BaseInv, HeldInv, NEW a \in Actors, NEW b \in Actors,
         actor[a].at \in Working, Works(b, At(a), Working), At(a) \notin shared
  PROVE  a = b
<1>1. At(a) \in Deliveries /\ Holds(a, At(a)) /\ Holds(b, At(a))
  BY AtWork DEF Works
<1> QED
  BY <1>1 DEF HeldInv, HeldOnce

\* A delivery that is sent is new to the channel.
LEMMA SendingOnce ==
  ASSUME BaseInv, HeldInv, OnceInv, NEW a \in Actors, Step(a), actor[a].at = "sending",
         At(a) \notin excused' \cup shared
  PROVE  /\ Once(At(a))
         /\ actor[a].partial = FALSE /\ actor[a].part \in 1 .. Parts[At(a)]
         /\ \A i \in actor[a].part .. Parts[At(a)] : <<At(a), i>> \notin received
<1>1. At(a) \in Deliveries /\ At(a) \notin excused \cup shared
  BY AtWork, StepFiles DEF Working
<1>2. Works(a, At(a), {"sending"})
  BY DEF Works
<1> QED
  BY <1>1, <1>2 DEF OnceInv, Once, BaseInv, PartInRange

\* What is received.
LEMMA ReceiveEffect ==
  ASSUME NEW a \in Actors, Receive(a)
  PROVE  /\ \A d, i : <<d, i>> \in received' <=>
                        (<<d, i>> \in received \/ (d = At(a) /\ i = actor[a].part))
         /\ doubled' \subseteq doubled \cup {At(a)}
         /\ At(a) \in doubled' => At(a) \in doubled \/ <<At(a), actor[a].part>> \in received
BY DEF Receive

\* What a step does to the deliveries of others.
LEMMA OnceOfOthers ==
  ASSUME BaseInv, BaseInv', OnceInv, NEW a \in Actors, Step(a), NEW d \in Deliveries, d # At(a)
  PROVE  Once(d)'
<1>1. /\ Leaves(a) \/ Continues(a, Working)
      /\ d \in json' => d \in json
      /\ excused \subseteq excused' /\ shared' = shared
  BY StepFiles DEF NoFile, Acknowledges, Quarantines, Records, Continues, Working
<1>2. /\ Others(a) /\ \A b \in Actors : b # a => actor'[b] = actor[b] /\ At(b)' = At(b)
  BY <1>1, AtStays DEF Leaves, Continues, Others
<1>3. /\ Works(a, d, {"sending"})' => FALSE
      /\ ~Works(a, d, {"sending", "ack"})
  BY <1>1, AtStays DEF Works, Leaves, Continues
<1>4. \A i : <<d, i>> \in received' <=> <<d, i>> \in received
  BY ReceiveEffect
     DEF Step, PayloadSent, PayloadFails, Ack, Unlink, FailRead, Rewrite, Move, history
<1>5. actor'[d].at = "idle" => actor[d].at = "idle"
  BY <1>1, <1>2, Constants DEF Leaves, Continues, Working
<1>6. /\ \A b \in Actors : Works(b, d, {"sending"})' => actor'[b] = actor[b] /\ At(b) = d
      /\ \A b \in Actors : Works(b, d, {"sending", "ack"}) => Works(b, d, {"sending", "ack"})'
  BY <1>2, <1>3 DEF Works
<1> QED
  BY <1>1, <1>4, <1>5, <1>6, OnceKept DEF OnceInv

\* Nobody else sends or acknowledges what a is at work on, then or later.
LEMMA OthersDoNotWork ==
  ASSUME BaseInv, HeldInv, NEW a \in Actors, actor[a].at \in Working, Others(a),
         At(a) \notin shared, NEW d, d = At(a), NEW b \in Actors, b # a
  PROVE  /\ ~Works(b, d, {"sending", "ack"})
         /\ ~(actor'[b].at \in {"sending", "ack"} /\ At(b)' = d)
<1>1. ~Works(b, d, {"sending", "ack"})
  BY WorksAlone DEF Works, Working
<1>2. actor'[b] = actor[b] /\ At(b)' = At(b)
  BY AtStays DEF Others
<1> QED
  BY <1>1, <1>2 DEF Works

\* A delivery that somebody is at work on is not idle.
LEMMA WorkIsNotIdle ==
  ASSUME BaseInv, BaseInv', NEW a \in Actors, Step(a), NEW d, d = At(a)
  PROVE  actor'[d].at # "idle" /\ d \in Deliveries
<1>1. /\ actor[a].at \in Working /\ d \in Deliveries /\ logged' = logged
      /\ Leaves(a) \/ Continues(a, Working)
  BY StepFiles DEF NoFile, Acknowledges, Quarantines, Records, Continues, Working
<1>2. CASE IsLive(a)
  <2>1. d = a
    BY <1>1, <1>2, AtWork
  <2> QED
    BY <1>1, <1>2, <2>1 DEF Leaves, Continues, Working
<1>3. CASE ~IsLive(a)
  <2>1. d \in Logged'
    BY <1>1, <1>3, AtWork DEF Logged
  <2> QED
    BY <1>1, <2>1 DEF BaseInv, IdleIsNew
<1> QED
  BY <1>2, <1>3

LEMMA OnceSent ==
  ASSUME BaseInv, BaseInv', HeldInv, OnceInv, NEW a \in Actors, PayloadSent(a),
         NEW d, d = At(a)
  PROVE  Once(d)' /\ (d \in doubled' => d \in excused' \cup shared')
<1>1. /\ actor[a].at = "sending" /\ Step(a) /\ d \in Deliveries /\ actor'[d].at # "idle"
      /\ UNCHANGED <<json, logged, shared, excused>>
      /\ actor[a] \in ActorStates /\ Parts[d] \in Nat
  BY WorkIsNotIdle, Constants DEF PayloadSent, Step, disk, BaseInv, Types, ActorTypes
<1> SUFFICES ASSUME d \notin excused \cup shared
             PROVE  Once(d)' /\ d \notin doubled'
  BY <1>1 DEF Once
<1>2. /\ actor[a].partial = FALSE /\ actor[a].part \in 1 .. Parts[d]
      /\ \A i \in actor[a].part .. Parts[d] : <<d, i>> \notin received
  BY <1>1, SendingOnce
<1>3. /\ \A i : <<d, i>> \in received' <=> (<<d, i>> \in received \/ i = actor[a].part)
      /\ d \in doubled' => d \in doubled \/ <<d, actor[a].part>> \in received
  BY ReceiveEffect DEF PayloadSent
<1>4. d \notin doubled'
  <2>1. actor[a].part \in actor[a].part .. Parts[d]
    BY <1>2
  <2>2. d \notin doubled
    BY DEF OnceInv, DoubledForAReason
  <2> QED
    BY <1>2, <1>3, <2>1, <2>2
<1>5. \/ /\ Continues(a, {"sending"}) /\ actor'[a].part = actor[a].part + 1
         /\ actor'[a].partial = FALSE
      \/ Continues(a, {"ack"})
      \/ Leaves(a) /\ IsLive(a) /\ a \notin Logged
  BY <1>1, <1>2, PayloadDoneEffect DEF PayloadSent
<1>6. /\ Others(a)
      /\ \A b \in Actors : b # a => ~(actor'[b].at \in {"sending", "ack"} /\ At(b)' = d)
  BY <1>1, <1>5, OthersDoNotWork DEF Working, Leaves, Continues
<1>7. ASSUME NEW b \in Actors, Works(b, d, {"sending"})'
      PROVE  /\ actor'[b].partial = FALSE
             /\ \A i \in actor'[b].part .. Parts[d] : <<d, i>> \notin received'
  <2>1. b = a /\ actor'[a].at = "sending"
    BY <1>6, <1>7 DEF Works
  <2>2. actor'[a].part = actor[a].part + 1 /\ actor'[a].partial = FALSE
    BY <1>5, <2>1 DEF Continues, Leaves
  <2>3. \A i \in actor'[a].part .. Parts[d] : i \in actor[a].part .. Parts[d] /\ i # actor[a].part
    BY <1>1, <1>2, <2>2 DEF ActorStates
  <2> QED
    BY <1>2, <1>3, <2>1, <2>2, <2>3
<1>8. d \in json' => \E b \in Actors : Works(b, d, {"sending", "ack"})'
  <2>1. CASE Continues(a, {"sending"}) \/ Continues(a, {"ack"})
    <3>1. Works(a, d, {"sending", "ack"})'
      BY <2>1, AtStays DEF Works, Continues
    <3> QED
      BY <3>1
  <2>2. CASE Leaves(a) /\ IsLive(a) /\ a \notin Logged
    BY <1>1, <2>2, AtWork DEF Working, BaseInv, LoggedFirst
  <2> QED
    BY <1>5, <2>1, <2>2
<1>9. Once(d)'
  BY <1>1, <1>7, <1>8 DEF Once
<1> QED
  BY <1>4, <1>9

LEMMA OnceFails ==
  ASSUME BaseInv, BaseInv', HeldInv, OnceInv, NEW a \in Actors,
         NEW kind \in {"transient", "permanent", "abort"}, NEW late \in BOOLEAN,
         PayloadFails(a, kind, late), NEW d, d = At(a)
  PROVE  Once(d)' /\ (d \in doubled' => d \in excused' \cup shared')
<1>1. /\ actor[a].at = "sending" /\ Step(a) /\ d \in Deliveries /\ actor'[d].at # "idle"
      /\ shared' = shared /\ excused' = excused \cup {x \in {d} : late \/ Parts[d] > 1}
      /\ Parts[d] \in Nat \ {0}
  BY WorkIsNotIdle, Constants DEF PayloadFails, Step, Excuse
<1> SUFFICES ASSUME d \notin excused' \cup shared'
             PROVE  Once(d)' /\ d \notin doubled'
  BY DEF Once
<1>2. ~late /\ Parts[d] = 1 /\ d \notin excused \cup shared /\ d \notin doubled
  BY <1>1 DEF OnceInv, DoubledForAReason
<1>3. received' = received /\ doubled' = doubled
  BY <1>2 DEF PayloadFails
<1>4. actor[a].part = 1 /\ \A i \in actor[a].part .. Parts[d] : <<d, i>> \notin received
  <2>1. d \notin excused' \cup shared
    BY <1>1
  <2>2. /\ actor[a].part \in 1 .. Parts[d]
        /\ \A i \in actor[a].part .. Parts[d] : <<d, i>> \notin received
    BY <1>1, <2>1, SendingOnce
  <2>3. actor[a].part = 1
    BY <1>2, <2>2
  <2> QED
    BY <2>2, <2>3
<1>5. Untouched(d)'
  BY <1>2, <1>3, <1>4 DEF Untouched
<1>6. Leaves(a) \/ Continues(a, {"ack", "fail", "move"})
  <2>1. ~PayloadDone(a, FALSE) \/ Leaves(a) \/ Continues(a, {"ack", "fail"})
    BY <1>1, <1>2, <1>4, PayloadDoneEffect DEF Continues
  <2> QED
    BY <2>1, PayloadFailsEffect DEF Continues
<1>7. \A b \in Actors : ~Works(b, d, {"sending"})'
  <2>1. Others(a) /\ actor'[a].at # "sending"
    BY <1>6 DEF Leaves, Continues
  <2> QED
    BY <1>1, <1>2, <2>1, OthersDoNotWork DEF Works, Working
<1>8. Once(d)'
  BY <1>5, <1>7 DEF Once
<1> QED
  BY <1>2, <1>3, <1>8

LEMMA OnceFile ==
  ASSUME BaseInv, BaseInv', HeldInv, OnceInv, NEW a \in Actors,
         Ack(a) \/ Unlink(a) \/ FailRead(a) \/ Rewrite(a) \/ Move(a), NEW d, d = At(a)
  PROVE  Once(d)' /\ (d \in doubled' => d \in excused' \cup shared')
<1>1. /\ Step(a) /\ actor[a].at \in Working \ {"sending"}
      /\ d \in Deliveries /\ actor'[d].at # "idle"
      /\ received' = received /\ doubled' = doubled
  <2>1. Step(a)
    BY DEF Step
  <2>2. received' = received /\ doubled' = doubled /\ actor[a].at \in Working \ {"sending"}
    BY DEF Ack, Unlink, FailRead, Rewrite, Move, history, Working
  <2> QED
    BY <2>1, <2>2, WorkIsNotIdle
<1>2. /\ shared' = shared /\ excused \subseteq excused'
      /\ NoFile(a) \/ Acknowledges(a) \/ Quarantines(a) \/ Records(a)
  BY <1>1, StepFiles
<1> SUFFICES ASSUME d \notin excused' \cup shared'
             PROVE  Once(d)' /\ d \notin doubled'
  BY DEF Once
<1>3. d \notin excused \cup shared /\ d \notin doubled /\ Others(a) /\ actor'[a].at # "sending"
  <2>1. d \notin excused \cup shared /\ d \notin doubled
    BY <1>2 DEF OnceInv, DoubledForAReason
  <2>2. Others(a)
    BY <1>2 DEF NoFile, Acknowledges, Quarantines, Records, Leaves, Continues
  <2>3. actor'[a].at # "sending"
    BY <1>1, FileStepMoves DEF Leaves, Continues
  <2> QED
    BY <2>1, <2>2, <2>3
<1>4. \A b \in Actors : ~Works(b, d, {"sending"})'
  BY <1>1, <1>3, OthersDoNotWork DEF Works
<1>5. ASSUME d \in json'
      PROVE  Untouched(d)'
  <2>1. d \in json
    <3>1. CASE Records(a)
      <4>1. d \in Logged /\ actor[a].at = "rewrite" /\ Holds(a, d)
        BY <3>1, AtWork DEF Records, Working, BaseInv, SenderSteps, IsLive
      <4> QED
        BY <1>3, <4>1 DEF HeldInv, OnDisk
    <3> QED
      BY <1>2, <1>5, <3>1 DEF NoFile, Acknowledges, Quarantines
  <2>2. CASE actor[a].at = "ack"
    <3>1. Ack(a)
      BY <2>2 DEF Unlink, FailRead, Rewrite, Move
    <3>2. d \in excused'
      BY <1>5, <2>1, <3>1 DEF Ack, RemoveFile, IoError, Excuse
    <3> QED
      BY <3>2
  <2>3. CASE actor[a].at # "ack"
    <3>1. \A b \in Actors : ~Works(b, d, {"sending", "ack"})
      BY <1>1, <1>3, <2>3, OthersDoNotWork DEF Works
    <3>2. Untouched(d)
      BY <1>1, <1>3, <2>1, <3>1 DEF OnceInv, Once
    <3> QED
      BY <1>1, <3>2 DEF Untouched
  <2> QED
    BY <2>2, <2>3
<1>6. Once(d)'
  BY <1>1, <1>4, <1>5 DEF Once
<1> QED
  BY <1>1, <1>3, <1>6

LEMMA OnceStep ==
  ASSUME BaseInv, BaseInv', HeldInv, OnceInv, NEW a \in Actors, Step(a)
  PROVE  OnceInv'
<1>1. /\ At(a) \in Deliveries /\ excused \subseteq excused' /\ shared' = shared
  BY StepFiles
<1>2. doubled' \subseteq doubled \cup {At(a)}
  BY ReceiveEffect
     DEF Step, PayloadSent, PayloadFails, Ack, Unlink, FailRead, Rewrite, Move, history
<1>3. ASSUME NEW x \in Deliveries, x = At(a)
      PROVE  Once(x)' /\ (x \in doubled' => x \in excused' \cup shared')
  BY <1>3, OnceSent, OnceFails, OnceFile DEF Step
<1>4. \A x \in Deliveries : Once(x)'
  BY <1>3, OnceOfOthers
<1>5. DoubledForAReason'
  <2> SUFFICES ASSUME NEW x \in doubled' PROVE x \in excused' \cup shared'
    BY DEF DoubledForAReason
  <2>1. CASE x = At(a)
    BY <1>1, <1>3, <2>1
  <2>2. CASE x # At(a)
    BY <1>1, <1>2, <2>2 DEF OnceInv, DoubledForAReason
  <2> QED
    BY <2>1, <2>2
<1> QED
  BY <1>4, <1>5 DEF OnceInv

LEMMA OnceEnqueue ==
  ASSUME BaseInv, BaseInv', OnceInv, NEW d \in Deliveries, Enqueue(d)
  PROVE  OnceInv'
<1>1. /\ Others(d) /\ d \in Actors /\ actor[d].at = "idle" /\ At(d) = d /\ At(d)' = d
      /\ actor'[d].at = "sending" /\ actor'[d].part = 1 /\ actor'[d].partial = FALSE
      /\ json' \subseteq json \cup {d} /\ excused \subseteq excused' /\ shared' = shared
      /\ received' = received /\ doubled' = doubled /\ d \notin Logged /\ todo' = todo
  BY BaseEnqueue, Constants DEF Enqueue
<1>2. \A b \in Actors : b # d => actor'[b] = actor[b] /\ At(b)' = At(b)
  BY <1>1, AtStays DEF Others
<1>3. DoubledForAReason'
  BY <1>1 DEF OnceInv, DoubledForAReason
<1>4. ASSUME NEW x \in Deliveries, x # d
      PROVE  Once(x)'
  <2>1. x \in json' => x \in json
    BY <1>1, <1>4
  <2>2. actor'[x].at = "idle" => actor[x].at = "idle"
    BY <1>2, <1>4, Constants
  <2>3. /\ \A b \in Actors : Works(b, x, {"sending"})' => actor'[b] = actor[b] /\ At(b) = x
        /\ \A b \in Actors : Works(b, x, {"sending", "ack"}) => Works(b, x, {"sending", "ack"})'
    BY <1>1, <1>2, <1>4 DEF Works
  <2> QED
    BY <1>1, <2>1, <2>2, <2>3, OnceKept DEF OnceInv
<1>5. Once(d)'
  <2> SUFFICES ASSUME d \notin excused' \cup shared' PROVE Once(d)'
    BY DEF Once
  <2>1. Untouched(d)'
    BY <1>1 DEF OnceInv, Once, Untouched
  <2>2. ASSUME NEW b \in Actors, Works(b, d, {"sending"})'
        PROVE  b = d
    <3> SUFFICES ASSUME b # d PROVE FALSE
      OBVIOUS
    <3>1. actor[b].at = "sending" /\ At(b) = d
      BY <1>2, <2>2 DEF Works
    <3> QED
      BY <1>1, <3>1, AtWork DEF Working
  <2>3. ASSUME NEW b \in Actors, Works(b, d, {"sending"})'
        PROVE  /\ actor'[b].partial = FALSE
               /\ \A i \in actor'[b].part .. Parts[d] : <<d, i>> \notin received'
    <3>1. b = d
      BY <2>2, <2>3
    <3> QED
      BY <1>1, <2>1, <3>1 DEF Untouched
  <2> QED
    BY <2>1, <2>3 DEF Once
<1> QED
  BY <1>3, <1>4, <1>5 DEF OnceInv

\* A pass begins to send only what was not sent.
LEMMA OncePass ==
  ASSUME BaseInv, HeldInv, OnceInv, NEW p \in Passes,
         StartPass(p) \/ OutOfBudget(p) \/ Round(p)
  PROVE  OnceInv'
<1>1. /\ Others(p) /\ p \in Actors /\ ~IsLive(p) /\ actor[p].at \in {"idle", "loop"}
      /\ actor'[p].at \in {"over", "cut", "move", "loop"} \/ (Round(p) /\ Continues(p, {"sending"}))
      /\ received' = received /\ doubled' = doubled /\ json' = json
      /\ excused \subseteq excused' /\ shared \subseteq shared'
  BY StartEffect, BudgetEffect, RoundEffect, Constants DEF disk, history, Leaves, Continues
<1>2. \A b \in Actors : b # p => actor'[b] = actor[b] /\ At(b)' = At(b)
  BY <1>1, AtStays DEF Others
<1>3. DoubledForAReason'
  BY <1>1 DEF OnceInv, DoubledForAReason
<1>4. ASSUME NEW x \in Deliveries, ~Works(p, x, {"sending"})'
      PROVE  Once(x)'
  <2>1. actor'[x].at = "idle" => actor[x].at = "idle"
    BY <1>2, Constants
  <2>2. /\ \A b \in Actors : Works(b, x, {"sending"})' => actor'[b] = actor[b] /\ At(b) = x
        /\ \A b \in Actors : Works(b, x, {"sending", "ack"}) => Works(b, x, {"sending", "ack"})'
    BY <1>1, <1>2, <1>4 DEF Works
  <2> QED
    BY <1>1, <2>1, <2>2, OnceKept DEF OnceInv
<1>5. ASSUME NEW x \in Deliveries, Works(p, x, {"sending"})', x \notin excused' \cup shared'
      PROVE  Once(x)'
  <2>1. /\ Round(p) /\ Continues(p, {"sending"}) /\ actor[p].at = "loop" /\ At(p)' = At(p)
        /\ x = At(p) /\ actor'[p].at = "sending"
    BY <1>1, <1>5, RoundEffect, AtStays DEF Works, Continues
  <2>2. todo[p] # <<>> /\ actor'[p].part = 1 /\ actor'[p].partial = FALSE
    BY <2>1, RoundEffect DEF Continues, Leaves
  <2>3. Holds(p, x) /\ x \in Logged /\ x \notin excused \cup shared
    BY <1>1, <1>5, <2>1, <2>2, AtWork
  <2>4. x \in json
    BY <1>1, <2>1, <2>3 DEF HeldInv, OnDisk
  <2>5. ASSUME NEW b \in Actors
        PROVE  ~Works(b, x, {"sending", "ack"}) /\ (b # p => ~Works(b, x, {"sending", "ack"})')
    <3>1. Works(b, x, {"sending", "ack"}) => b = p
      BY <1>1, <2>3, AtWork DEF HeldInv, HeldOnce, Works, Working
    <3>2. ~Works(p, x, {"sending", "ack"})
      BY <2>1 DEF Works
    <3>3. ~Works(b, x, {"sending", "ack"})
      BY <3>1, <3>2
    <3> QED
      BY <1>2, <3>3 DEF Works
  <2>6. Untouched(x)
    BY <2>3, <2>4, <2>5 DEF OnceInv, Once
  <2>7. Untouched(x)'
    BY <1>1, <2>6 DEF Untouched
  <2>8. ASSUME NEW b \in Actors, Works(b, x, {"sending"})'
        PROVE  /\ actor'[b].partial = FALSE
               /\ \A i \in actor'[b].part .. Parts[x] : <<x, i>> \notin received'
    <3>1. b = p
      BY <2>5, <2>8 DEF Works
    <3> QED
      BY <2>2, <2>7, <3>1 DEF Untouched
  <2> QED
    BY <2>7, <2>8 DEF Once
<1>6. \A x \in Deliveries : x \in excused' \cup shared' => Once(x)'
  BY DEF Once
<1> QED
  BY <1>3, <1>4, <1>5, <1>6 DEF OnceInv

\* A crash in the middle of an attempt is a reason.
LEMMA OnceCrash ==
  ASSUME BaseInv, OnceInv, Crash
  PROVE  OnceInv'
<1>1. /\ \A a \in Actors : actor'[a] = IF Busy(a) THEN Returned ELSE actor[a]
      /\ \A a \in Actors : actor'[a].at \in {"idle", "over", "cut"}
      /\ UNCHANGED <<received, doubled, json, shared>> /\ excused \subseteq excused'
  BY CrashEffect
<1>2. \A d \in Deliveries, a \in Actors :
        (Holds(a, d) /\ At(a) = d /\ (actor[a].at = "ack" \/ actor[a].part > 1)) => d \in excused'
  BY DEF Crash
<1>3. DoubledForAReason'
  BY <1>1 DEF OnceInv, DoubledForAReason
<1>4. ASSUME NEW d \in Deliveries, d \notin excused' \cup shared'
      PROVE  Once(d)'
  <2>1. d \notin excused \cup shared
    BY <1>1, <1>4
  <2>2. Untouched(d) => Untouched(d)'
    BY <1>1 DEF Untouched
  <2>3. actor'[d].at = "idle" => Untouched(d)
    BY <1>1, <2>1, Constants, ActorRecords DEF OnceInv, Once
  <2>4. d \in json => Untouched(d)
    <3>1. CASE \A a \in Actors : ~Works(a, d, {"sending", "ack"})
      BY <2>1, <3>1 DEF OnceInv, Once
    <3>2. ASSUME NEW a \in Actors, Works(a, d, {"sending", "ack"})
          PROVE  Untouched(d)
      <4>1. Holds(a, d) /\ At(a) = d
        BY <3>2, AtWork DEF Works, Working
      <4>2. actor[a].at = "sending" /\ ~(actor[a].part > 1)
        BY <1>2, <1>4, <3>2, <4>1 DEF Works
      <4>3. actor[a].part \in 1 .. Parts[d] /\ Parts[d] \in Nat
        BY <4>1, <4>2, Constants DEF BaseInv, PartInRange
      <4>4. actor[a].part = 1
        BY <4>2, <4>3
      <4> QED
        BY <2>1, <3>2, <4>2, <4>4 DEF OnceInv, Once, Works, Untouched
    <3> QED
      BY <3>1, <3>2
  <2> QED
    BY <1>1, <2>2, <2>3, <2>4 DEF Once, Works
<1>5. \A d \in Deliveries : d \in excused' \cup shared' => Once(d)'
  BY DEF Once
<1> QED
  BY <1>3, <1>4, <1>5 DEF OnceInv

LEMMA OnceQuiet ==
  ASSUME BaseInv, OnceInv, Tick \/ UNCHANGED vars
  PROVE  OnceInv'
<1>1. UNCHANGED <<actor, received, doubled, json, shared, excused>>
  BY TickEffect DEF vars, disk, history
<1>2. \A a \in Actors : actor[a].at \in Working => At(a)' = At(a)
  <2>1. UNCHANGED vars => \A a \in Actors : At(a)' = At(a)
    BY DEF vars, At
  <2> QED
    BY <2>1, BaseTick
<1>3. \A d \in Deliveries, a \in Actors :
        /\ Works(a, d, {"sending"})' <=> Works(a, d, {"sending"})
        /\ Works(a, d, {"sending", "ack"})' <=> Works(a, d, {"sending", "ack"})
  BY <1>1, <1>2 DEF Works, Working
<1>4. ASSUME NEW d \in Deliveries
      PROVE  Once(d)'
  <2>1. \A a \in Actors : Works(a, d, {"sending"})' => actor'[a] = actor[a] /\ At(a) = d
    BY <1>1, <1>3 DEF Works
  <2>2. \A i : <<d, i>> \in received' <=> <<d, i>> \in received
    BY <1>1
  <2> QED
    BY <1>1, <1>3, <2>1, <2>2, OnceKept DEF OnceInv
<1>5. DoubledForAReason'
  BY <1>1 DEF OnceInv, DoubledForAReason
<1> QED
  BY <1>4, <1>5 DEF OnceInv

\* A payload reaches the channel twice only for a reason: a crash between sending
\* and acknowledging, an attempt that failed or seemed to, a file that could not
\* be written, or a pass that replayed what was being sent (ackDelivery after
\* deliverOutboundPayloadsCore, recoverPendingDeliveries).
THEOREM SentTwiceForAReason == Spec => []DoubledForAReason
<1>1. Init => OnceInv
  <2> SUFFICES ASSUME Init PROVE OnceInv
    OBVIOUS
  <2>1. received = {} /\ doubled = {} /\ \A a \in Actors : actor[a].at \in {"idle", "over"}
    BY ActorRecords DEF Init
  <2> QED
    BY <2>1 DEF OnceInv, Once, Untouched, Works, DoubledForAReason
<1>2. BaseInv /\ BaseInv' /\ HeldInv /\ OnceInv /\ [Next]_vars => OnceInv'
  BY OnceEnqueue, OnceStep, OncePass, OnceCrash, OnceQuiet DEF Next
<1>3. BaseInv /\ BaseInv' /\ HeldInv /\ [Next]_vars => HeldInv'
  BY HeldNext
<1>4. BaseInv /\ [Next]_vars => BaseInv'
  BY BaseNext
<1>5. OnceInv => DoubledForAReason
  BY DEF OnceInv
<1> QED
  BY <1>1, <1>2, <1>3, <1>4, <1>5, BaseInit, HeldInit, PTL DEF Spec
=============================================================================
