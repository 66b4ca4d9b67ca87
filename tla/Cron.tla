---------------------------------- MODULE Cron ----------------------------------
(***************************************************************************)
(* The scheduler of jobs: cron/service/ops.ts, timer.ts, jobs.ts, store.ts *)
(* and locked.ts, with the reload of gateway/server-reload-handlers.ts.    *)
(*                                                                         *)
(* The jobs are a file; every service keeps a copy of it in memory.  What  *)
(* reads or changes jobs runs under a lock that all services of that file  *)
(* share, so a locked section is one action.  The bodies of jobs run       *)
(* outside the lock: an action starts one and another ends it, and in      *)
(* between anything may happen: a request, a reload of the configuration,  *)
(* which puts a second service beside the first, or a crash.               *)
(*                                                                         *)
(* A job is executed by a runner.  Each service has three: its start       *)
(* (jobs missed while the gateway was down), its timer tick (jobs that are *)
(* due) and a request to run a job by hand.                                *)
(*                                                                         *)
(* Abstracted: one unit of time is longer than the floor and the ceiling   *)
(* of the timer's delay, so an armed timer may fire at any time; grids of  *)
(* every and cron schedules are the multiples of Every; the delay after an *)
(* error is a constant; a timeout of a body is one of its errors; writes   *)
(* of the file succeed.  0 stands for a time that is not set.              *)
(***************************************************************************)
EXTENDS Integers, Sequences, FiniteSets, SequencesExt, FiniteSetsExt, Functions

CONSTANTS
  Jobs,          \* ids, numbered by their place in the file
  Stored,        \* what the file may hold at first: job -> schedule [kind, deletes]
  Schedules,     \* schedules of jobs added later
  Outcomes,      \* ways in which a body may end
  Modes,         \* modes of a request to run a job, among "due" and "force"
  Every,         \* period of recurring jobs
  Backoff,       \* errorBackoffMs
  MaxAttempts,   \* retryConfig.maxAttempts
  MaxImmediate,  \* maxMissedJobsPerRestart
  Stagger,       \* missedJobStaggerMs
  Stuck,         \* STUCK_RUN_MS
  Workers,       \* maxConcurrentRuns
  MaxTime,       \* bound: the clock
  MaxServices,   \* bound: services created, by a restart or by a reload
  MaxEvents      \* bound: jobs ever created, crashes, reloads, and requests but for reads

ASSUME CronAssumption ==
  /\ Jobs \subseteq Nat \ {0} /\ IsFiniteSet(Jobs)
  /\ \A file \in Stored : DOMAIN file \subseteq Jobs
  /\ Schedules \cup UNION {Range(file) : file \in Stored}
       \subseteq [kind : {"at", "every", "cron"}, deletes : BOOLEAN]
  /\ Outcomes \subseteq {"ok", "skipped", "error", "fatal"}
  /\ Modes \subseteq {"due", "force"}
  /\ {Every, Backoff, Stagger, Workers, MaxTime, MaxServices} \subseteq Nat \ {0}
  /\ {MaxAttempts, MaxImmediate, Stuck, MaxEvents} \subseteq Nat

VARIABLES
  now,       \* the clock
  disk,      \* the jobs in the file: job id -> job
  mem,       \* mem[s]: the copy of service s
  service,   \* the newest service
  up,        \* the gateway runs
  armed,     \* services whose timer is armed
  born,      \* ids given to a job so far; a new job gets a new one
  run,       \* run[<<s, role>>]: what a runner of s does
  events,    \* number of crashes, reloads and requests so far
  done,      \* history: one-shot jobs whose success is recorded
  excused    \* history: jobs that may run twice at a time, see Excuse

vars == <<now, disk, mem, service, up, armed, born, run, events, done, excused>>

Services == 1 .. MaxServices
Runners == Services \X {"start", "tick", "manual"}

NoJobs == [j \in {} |-> 0]
Waiting == [st |-> "queued", from |-> 0, to |-> 0, how |-> "ok"]

\* at: where the runner stands; slot: the jobs it has taken; own: they are
\* still the objects that the copy in memory holds; the rest is for the start
\* (jobs to skip, jobs put off) and for a manual run (its time and mode).
Idle == [at |-> "idle", slot |-> NoJobs, own |-> TRUE,
         skip |-> {}, later |-> <<>>, asked |-> 0, mode |-> "due"]

Steps == {"idle", "clear", "plan", "bodies", "final", "reserve"}
Job == [kind : {"at", "every", "cron"}, deletes : BOOLEAN, at : Nat, enabled : BOOLEAN,
        next : Nat, marker : Nat, last : Nat, status : {"none", "ok", "skipped", "error"},
        errs : 0 .. MaxAttempts + 1]
Slot == [st : {"queued", "running", "done"}, from : Nat, to : Nat, how : Outcomes \cup {"ok"}]

IsStore(f) == DOMAIN f \subseteq Jobs /\ \A j \in DOMAIN f : f[j] \in Job

TypeOK ==
  /\ now \in 1 .. MaxTime
  /\ IsStore(disk) /\ \A s \in Services : IsStore(mem[s])
  /\ service \in Services /\ up \in BOOLEAN
  /\ armed \subseteq Services
  /\ DOMAIN disk \subseteq born /\ born \subseteq Jobs
  /\ \A r \in Runners :
       /\ run[r].at \in Steps
       /\ DOMAIN run[r].slot \subseteq Jobs
       /\ \A j \in DOMAIN run[r].slot : run[r].slot[j] \in Slot
       /\ run[r].skip \subseteq Jobs
       /\ ToSet(run[r].later) \subseteq Jobs
  /\ events \in 0 .. MaxEvents
  /\ done \subseteq Jobs /\ excused \subseteq Jobs

-----------------------------------------------------------------------------
(* When a job is to run, cron/service/jobs.ts and cron/schedule.ts. *)

GridFrom(t) == Every * ((t + Every - 1) \div Every)
GridAfter(t) == GridFrom(t + 1)
GridBefore(t) == Every * ((t - 1) \div Every)

NextRun(job, t) ==
  CASE ~job.enabled -> 0
    [] job.enabled /\ job.kind = "every" ->
         IF job.last # 0 /\ job.last + Every > t THEN job.last + Every ELSE GridFrom(t)
    [] job.enabled /\ job.kind = "at" ->
         IF job.status = "ok" /\ job.at <= job.last THEN 0 ELSE job.at
    [] job.enabled /\ job.kind = "cron" -> GridAfter(t)

\* A disabled job has no next run and no marker; an old marker is dropped.
Normalized(job, t) ==
  IF ~job.enabled THEN [job EXCEPT !.next = 0, !.marker = 0]
  ELSE IF job.marker # 0 /\ t - job.marker > Stuck THEN [job EXCEPT !.marker = 0]
  ELSE job

Renewed(job, t) == [job EXCEPT !.next = NextRun(job, t)]

\* recomputeNextRuns: a next run that is missing or past is computed anew.
Recomputed(store, t) ==
  [j \in DOMAIN store |->
     LET job == Normalized(store[j], t)
     IN  IF job.enabled /\ job.next <= t THEN Renewed(job, t) ELSE job]

\* (mistake) Every past next run is computed anew.
MaintainedFully(store, t, expired) == Recomputed(store, t)

\* recomputeNextRunsForMaintenance: a past one is kept, unless expired is
\* asked for and the job has run since.
Maintained(store, t, expired) ==
  [j \in DOMAIN store |->
     LET job == Normalized(store[j], t)
         over == expired /\ job.next <= t /\ job.marker = 0 /\ job.last >= job.next
     IN  IF job.enabled /\ (job.next = 0 \/ over) THEN Renewed(job, t) ELSE job]

Due(job, t) == job.enabled /\ job.marker = 0 /\ job.next # 0 /\ job.next <= t

BackoffPending(job, t) ==
  job.kind # "at" /\ job.status = "error" /\ job.last # 0 /\ t < job.last + Backoff

\* What a start runs of the jobs it finds.
Missed(job, t) ==
  /\ job.enabled /\ job.marker = 0
  /\ IF job.kind = "at" /\ job.status # "none"
     THEN job.status = "error" /\ job.last # 0 /\ job.next > job.last /\ t >= job.next
     ELSE \/ Due(job, t)
          \/ /\ job.kind = "cron"
             /\ ~(job.next > t /\ BackoffPending(job, t))
             /\ job.last # 0 /\ GridBefore(t) > job.last

Deleted(job, res) == job.kind = "at" /\ job.deletes /\ res.how = "ok"

\* (mistake) A one-shot job that is over stays enabled.
FinishedEnabled(job, res, keep) ==
  [job EXCEPT !.marker = 0, !.last = res.from, !.status = IF res.how = "fatal" THEN "error" ELSE res.how]

\* applyJobResult, but for the deletion; keep: the schedule is preserved.
Finished(job, res, keep) ==
  LET failed == res.how \in {"error", "fatal"}
      j1 == [job EXCEPT !.marker = 0, !.last = res.from,
               !.status = IF failed THEN "error" ELSE res.how,
               !.errs = IF failed THEN Min({@ + 1, MaxAttempts + 1}) ELSE 0]
      natural == IF keep /\ job.kind = "every"
                 THEN NextRun([j1 EXCEPT !.last = job.last], res.to)
                 ELSE NextRun(j1, res.to)
  IN  CASE job.kind = "at" /\ res.how = "error" /\ j1.errs <= MaxAttempts ->
             [j1 EXCEPT !.next = res.to + Backoff]
        [] job.kind = "at" /\ ~(res.how = "error" /\ j1.errs <= MaxAttempts) ->
             [j1 EXCEPT !.next = 0, !.enabled = FALSE]
        [] job.kind # "at" /\ ~job.enabled -> [j1 EXCEPT !.next = 0]
        [] job.kind # "at" /\ job.enabled ->
             [j1 EXCEPT !.next = IF failed THEN Max({natural, res.to + Backoff}) ELSE natural]

-----------------------------------------------------------------------------
Without(store, gone) == Restrict(store, DOMAIN store \ gone)

Marked(store, js, t) ==
  [j \in DOMAIN store |-> IF j \in js THEN [store[j] EXCEPT !.marker = t] ELSE store[j]]

\* applyOutcomeToStoredJob for every job of a batch; a job that is gone is
\* passed over.
Applied(store, slot) ==
  LET over == DOMAIN store \cap DOMAIN slot
  IN  [j \in DOMAIN store \ {x \in over : Deleted(store[x], slot[x])} |->
         IF j \in over THEN Finished(store[j], slot[j], FALSE) ELSE store[j]]

\* (mistake) A timer is armed only for a run that lies ahead.
WakesAhead(store) == \E j \in DOMAIN store : store[j].enabled /\ store[j].next > now

Wakes(store) == \E j \in DOMAIN store : store[j].enabled /\ store[j].next # 0

\* armTimer, which also replaces the timer there was.
ArmTimer(s, store) == armed' = IF Wakes(store) THEN armed \cup {s} ELSE armed \ {s}

Persist(s, store) ==
  /\ disk' = store
  /\ mem' = [mem EXCEPT ![s] = store]

\* The copy of s is read anew, or merged: runners of s lose hold of it.
Detached(s) == [r \in Runners |-> IF r[1] = s THEN [run[r] EXCEPT !.own = FALSE] ELSE run[r]]

Active(r) == {j \in DOMAIN run[r].slot : run[r].slot[j].st \in {"queued", "running"}}
Running(r) == {j \in DOMAIN run[r].slot : run[r].slot[j].st = "running"}

\* The jobs that a runner has taken and whose outcome is not recorded yet.
Held(runner) == IF runner.at = "bodies" THEN DOMAIN runner.slot ELSE {}

\* Held jobs whose marker the new contents of the file have lost are no longer
\* kept from being taken once more.
Excuse(store) ==
  excused' = excused \cup
    {j \in DOMAIN store : store[j].marker = 0 /\ \E r \in Runners : j \in Held(run'[r])}

Record(store, slot) ==
  done' = done \cup {j \in DOMAIN slot : /\ j \in DOMAIN store
                                         /\ store[j].kind = "at" /\ slot[j].how = "ok"}

NoHistory == UNCHANGED <<done, excused>>

NewJob(sched, a, t) ==
  LET job == [kind |-> sched.kind, deletes |-> sched.deletes, at |-> a, enabled |-> TRUE,
              next |-> 0, marker |-> 0, last |-> 0, status |-> "none", errs |-> 0]
  IN  Renewed(job, t)

-----------------------------------------------------------------------------

Counted == events + Cardinality(born) < MaxEvents /\ events' = events + 1

(* The start of a service, ops.ts and timer.ts. *)

Starting(s, step) == run[<<s, "start">>].at = step

\* First locked section: every marker is taken for a leftover.
Clear(s) ==
  /\ Starting(s, "clear")
  /\ LET marked == {j \in DOMAIN disk : disk[j].marker # 0}
     IN  /\ Persist(s, Marked(disk, marked, 0))
         /\ run' = [run EXCEPT ![<<s, "start">>] = [Idle EXCEPT !.at = "plan", !.skip = marked]]
  /\ UNCHANGED <<now, service, up, armed, born, events, done, excused>>

\* The jobs js of a store by their next run, then as they are in the file.
Sorted(store, js) ==
  {s \in Injection(1 .. Cardinality(js), js) :
     \A i, k \in DOMAIN s : i < k =>
       \/ store[s[i]].next < store[s[k]].next
       \/ store[s[i]].next = store[s[k]].next /\ s[i] < s[k]}

\* planStartupCatchup: the first MaxImmediate missed jobs are to run now.
Plan(s) ==
  /\ Starting(s, "plan")
  /\ LET jobs == mem[s]
         missed == {j \in DOMAIN jobs : Missed(jobs[j], now)} \ run[<<s, "start">>].skip
     IN  \/ /\ missed = {}
            /\ run' = [run EXCEPT ![<<s, "start">>].at = "final"]
            /\ UNCHANGED <<disk, mem>>
         \/ /\ missed # {}
            /\ \E order \in Sorted(jobs, missed) :
                 LET first == {order[i] : i \in {k \in DOMAIN order : k <= MaxImmediate}}
                 IN  /\ Persist(s, Marked(jobs, first, now))
                     /\ run' = [run EXCEPT ![<<s, "start">>] =
                          [Idle EXCEPT !.at = "bodies", !.slot = [j \in first |-> Waiting],
                                       !.later = SubSeq(order, MaxImmediate + 1, Len(order))]]
  /\ UNCHANGED <<now, service, up, armed, born, events, done, excused>>

\* The jobs that were put off and are still enabled get runs one after another.
Staggered(store, later) ==
  LET waits == {k \in DOMAIN later : later[k] \in DOMAIN store /\ store[later[k]].enabled}
      Place(k) == Cardinality({i \in waits : i <= k})
  IN  [j \in DOMAIN store |->
         IF \E k \in waits : later[k] = j
         THEN [store[j] EXCEPT !.next =
                 now + Stagger * Place(CHOOSE k \in waits : later[k] = j)]
         ELSE store[j]]

\* applyStartupCatchupOutcomes; the slot is kept until the start is over.
FinishCatchup(s) ==
  /\ Starting(s, "bodies") /\ Active(<<s, "start">>) = {}
  /\ LET r == run[<<s, "start">>]
         store == Maintained(Staggered(Applied(disk, r.slot), r.later), now, FALSE)
     IN  /\ Persist(s, store)
         /\ Record(disk, r.slot)
         /\ run' = [Detached(s) EXCEPT ![<<s, "start">>].at = "final"]
         /\ Excuse(store)
  /\ UNCHANGED <<now, service, up, armed, born, events>>

\* Last section: past next runs are computed anew, the timer is armed.
FinishStart(s) ==
  /\ Starting(s, "final")
  /\ Persist(s, Recomputed(disk, now))
  /\ ArmTimer(s, Recomputed(disk, now))
  /\ run' = [Detached(s) EXCEPT ![<<s, "start">>] = Idle]
  /\ Excuse(Recomputed(disk, now))
  /\ UNCHANGED <<now, service, up, born, events, done>>

-----------------------------------------------------------------------------
(* Bodies. *)

Limit(r) == IF r[2] = "tick" THEN Workers ELSE 1

\* The next job of the batch; a tick notes the time in its captured object.
StartBody(r, j) ==
  /\ run[r].at = "bodies"
  /\ j \in DOMAIN run[r].slot /\ run[r].slot[j].st = "queued"
  /\ Cardinality(Running(r)) < Limit(r)
  /\ r[2] = "tick" => \A i \in DOMAIN run[r].slot : i < j => run[r].slot[i].st # "queued"
  /\ run' = [run EXCEPT ![r].slot[j] = [Waiting EXCEPT !.st = "running", !.from = now]]
  /\ mem' = IF r[2] = "tick" /\ run[r].own /\ j \in DOMAIN mem[r[1]]
            THEN [mem EXCEPT ![r[1]][j].marker = now] ELSE mem
  /\ UNCHANGED <<now, disk, service, up, armed, born, events, done, excused>>

EndBody(r, j, how) ==
  /\ j \in Running(r)
  /\ run' = [run EXCEPT ![r].slot[j] = [@ EXCEPT !.st = "done", !.to = now, !.how = how]]
  /\ UNCHANGED <<now, disk, mem, service, up, armed, born, events, done, excused>>

-----------------------------------------------------------------------------
(* The timer, onTimer of timer.ts.  A timer that fires during a tick is     *)
(* armed again and changes nothing.                                         *)

Tick(s) ==
  /\ s \in armed /\ run[<<s, "tick">>].at = "idle"
  /\ LET due == {j \in DOMAIN disk : Due(disk[j], now)}
         kept == Maintained(disk, now, TRUE)
     IN  \/ /\ due = {}
            /\ Persist(s, kept)
            /\ ArmTimer(s, kept)
            /\ run' = Detached(s)
            /\ Excuse(kept)
         \/ /\ due # {}
            /\ Persist(s, Marked(disk, due, now))
            /\ run' = [Detached(s) EXCEPT ![<<s, "tick">>] =
                 [Idle EXCEPT !.at = "bodies", !.slot = [j \in due |-> Waiting]]]
            /\ UNCHANGED <<armed, excused>>
  /\ UNCHANGED <<now, service, up, born, events, done>>

\* Outcomes are recorded; the timer is armed, be the service stopped or not.
FinishTick(s) ==
  /\ run[<<s, "tick">>].at = "bodies" /\ Active(<<s, "tick">>) = {}
  /\ LET slot == run[<<s, "tick">>].slot
         store == Maintained(Applied(disk, slot), now, FALSE)
     IN  /\ Persist(s, store)
         /\ ArmTimer(s, store)
         /\ Record(disk, slot)
         /\ run' = [Detached(s) EXCEPT ![<<s, "tick">>] = Idle]
         /\ Excuse(store)
  /\ UNCHANGED <<now, service, up, born, events>>

-----------------------------------------------------------------------------
(* Requests reach the newest service, once it has read the jobs. *)

Requestable(s) == up /\ s = service /\ run[<<s, "start">>].at # "clear"

\* inspectManualRunPreflight: only the copy in memory is maintained, but what
\* is reserved is decided on it.
Ask(s, j, mode) ==
  /\ Requestable(s) /\ Counted /\ j \in DOMAIN mem[s]
  /\ run[<<s, "manual">>].at = "idle"
  /\ LET store == Maintained(mem[s], now, FALSE)
         ready == store[j].marker = 0 /\ (mode = "force" \/ Due(store[j], now))
     IN  /\ mem' = [mem EXCEPT ![s] = store]
         /\ run' = IF ready
                   THEN [run EXCEPT ![<<s, "manual">>] =
                     [Idle EXCEPT !.at = "reserve", !.slot = [i \in {j} |-> Waiting],
                                  !.asked = now, !.mode = mode]]
                   ELSE run
         /\ Excuse(store)
  /\ UNCHANGED <<now, disk, service, up, armed, born, done>>

\* (mistake) The marker is not looked at again.
ReserveUnchecked(s) ==
  /\ run[<<s, "manual">>].at = "reserve"
  /\ LET r == run[<<s, "manual">>] IN
     \E j \in DOMAIN r.slot :
         /\ j \in DOMAIN mem[s]
         /\ Persist(s, Marked(mem[s], {j}, r.asked))
         /\ run' = [run EXCEPT ![<<s, "manual">>].at = "bodies",
               ![<<s, "manual">>].slot[j] = [Waiting EXCEPT !.st = "running", !.from = r.asked]]
  /\ UNCHANGED <<now, service, up, armed, born, events, done, excused>>

\* Second section of prepareManualRun: the marker is looked at once more.
Reserve(s) ==
  /\ run[<<s, "manual">>].at = "reserve"
  /\ LET r == run[<<s, "manual">>] IN
     \E j \in DOMAIN r.slot :
         IF j \in DOMAIN mem[s] /\ mem[s][j].marker = 0
         THEN /\ Persist(s, Marked(mem[s], {j}, r.asked))
              /\ run' = [run EXCEPT ![<<s, "manual">>].at = "bodies",
                    ![<<s, "manual">>].slot[j] = [Waiting EXCEPT !.st = "running", !.from = r.asked]]
         ELSE /\ run' = [run EXCEPT ![<<s, "manual">>] = Idle]
              /\ UNCHANGED <<disk, mem>>
  /\ UNCHANGED <<now, service, up, armed, born, events, done, excused>>

\* finishPreparedManualRun: the outcome is applied to the job in memory, the
\* file is read, and what the job became replaces what the file says of it.
FinishManual(s) ==
  /\ run[<<s, "manual">>].at = "bodies" /\ Active(<<s, "manual">>) = {}
  /\ \E j \in DOMAIN run[<<s, "manual">>].slot :
     LET r == run[<<s, "manual">>]
         job == Finished(mem[s][j], r.slot[j], r.mode = "force")
         merged == IF Deleted(mem[s][j], r.slot[j]) THEN Without(disk, {j})
                   ELSE [i \in DOMAIN disk |->
                     IF i = j THEN [job EXCEPT !.kind = disk[j].kind, !.at = disk[j].at,
                                               !.deletes = disk[j].deletes]
                     ELSE disk[i]]
         store == Maintained(merged, now, TRUE)
     IN  IF j \in DOMAIN mem[s]
         THEN /\ Persist(s, store)
              /\ ArmTimer(s, store)
              /\ Record(mem[s], r.slot)
              /\ run' = [Detached(s) EXCEPT ![<<s, "manual">>] = Idle]
              /\ Excuse(store)
         ELSE /\ run' = [run EXCEPT ![<<s, "manual">>] = Idle]
              /\ UNCHANGED <<disk, mem, armed, done, excused>>
  /\ UNCHANGED <<now, service, up, born, events>>

\* A request changes the copy in memory, writes the file and arms the timer.
Change(s, store) ==
  /\ Persist(s, store)
  /\ ArmTimer(s, store)
  /\ UNCHANGED <<now, service, up, run>>
  /\ Excuse(store)

\* ops.ts add: the job is the last one; every past next run is computed anew.
Add(s, j, sched, a) ==
  /\ Requestable(s) /\ Counted /\ \A i \in born : i < j
  /\ Change(s, Recomputed([i \in DOMAIN mem[s] \cup {j} |->
                  IF i = j THEN NewJob(sched, a, now) ELSE mem[s][i]], now))
  /\ born' = born \cup {j}
  /\ UNCHANGED done

\* ops.ts update with a new schedule or a new value of enabled.
Rescheduled(job) ==
  IF job.enabled THEN Renewed(job, now) ELSE [job EXCEPT !.next = 0, !.marker = 0]

Update(s, j, job) ==
  /\ Requestable(s) /\ Counted
  /\ Change(s, [mem[s] EXCEPT ![j] = Rescheduled(job)])
  /\ done' = done \ {j}
  /\ UNCHANGED born

Enable(s, j, value) ==
  j \in DOMAIN mem[s] /\ Update(s, j, [mem[s][j] EXCEPT !.enabled = value])

Reschedule(s, j, a) ==
  /\ j \in DOMAIN mem[s] /\ mem[s][j].kind = "at"
  /\ Update(s, j, [mem[s][j] EXCEPT !.at = a])

\* ops.ts update of anything else: a missing next run is computed.
Edit(s, j) ==
  /\ Requestable(s) /\ Counted /\ j \in DOMAIN mem[s]
  /\ Change(s, IF mem[s][j].enabled /\ mem[s][j].next = 0
               THEN [mem[s] EXCEPT ![j] = Renewed(mem[s][j], now)] ELSE mem[s])
  /\ UNCHANGED <<born, done>>

RemoveJob(s, j) ==
  /\ Requestable(s) /\ Counted /\ j \in DOMAIN mem[s]
  /\ Change(s, Without(mem[s], {j}))
  /\ UNCHANGED <<born, done>>

\* status, list: maintained in memory, and written if that changed anything.
Read(s) ==
  /\ Requestable(s)
  /\ LET store == Maintained(mem[s], now, FALSE)
     IN  /\ store # mem[s] /\ Persist(s, store)
         /\ UNCHANGED <<now, service, up, armed, born, run, events, done>>
         /\ Excuse(store)

-----------------------------------------------------------------------------
(* The gateway. *)

\* A service is created and its start begins.
Create(old) ==
  /\ service < MaxServices
  /\ service' = service + 1
  /\ run' = [old EXCEPT ![<<service + 1, "start">>] = [Idle EXCEPT !.at = "clear"]]

\* Hot reload: stop() only clears the timer.  What the old service still does
\* is no longer coordinated with the new one, which takes its markers away.
Reload ==
  /\ up /\ Counted /\ Create(run)
  /\ armed' = armed \ {service}
  /\ excused' = IF \E r \in Runners : run[r].at # "idle" THEN Jobs ELSE excused
  /\ UNCHANGED <<now, disk, mem, up, born, done>>

Crash ==
  /\ up /\ Counted /\ up' = FALSE
  /\ mem' = [s \in Services |-> NoJobs] /\ armed' = {}
  /\ run' = [r \in Runners |-> Idle]
  /\ UNCHANGED <<now, disk, service, born, done, excused>>

Boot ==
  /\ ~up /\ up' = TRUE /\ Create(run)
  /\ UNCHANGED <<now, disk, mem, armed, born, events, done, excused>>

Advance ==
  /\ now < MaxTime /\ now' = now + 1
  /\ UNCHANGED <<disk, mem, service, up, armed, born, run, events, done, excused>>

Init ==
  /\ now = 1
  /\ \E file \in Stored : disk = [j \in DOMAIN file |-> NewJob(file[j], 2, 1)]
  /\ born = DOMAIN disk
  /\ mem = [s \in Services |-> NoJobs]
  /\ service = 1 /\ up = TRUE /\ armed = {}
  /\ run = [r \in Runners |-> IF r = <<1, "start">> THEN [Idle EXCEPT !.at = "clear"] ELSE Idle]
  /\ events = 0 /\ done = {} /\ excused = {}

StartStep(s) == Clear(s) \/ Plan(s) \/ FinishCatchup(s) \/ FinishStart(s)

BodyStep(r) ==
  \E j \in Jobs : StartBody(r, j) \/ \E how \in Outcomes : EndBody(r, j, how)

RunnerStep(s) == FinishTick(s) \/ Reserve(s) \/ FinishManual(s)

Request(s) ==
  \/ \E j \in Jobs, mode \in Modes : Ask(s, j, mode)
  \/ \E j \in Jobs, sched \in Schedules : Add(s, j, sched, now + 1)
  \/ \E j \in Jobs, value \in BOOLEAN : Enable(s, j, value)
  \/ \E j \in Jobs : Reschedule(s, j, now + 1) \/ Edit(s, j) \/ RemoveJob(s, j)
  \/ Read(s)

Next ==
  \/ \E s \in Services : StartStep(s) \/ Tick(s) \/ RunnerStep(s) \/ Request(s)
  \/ \E r \in Runners : BodyStep(r)
  \/ Reload \/ Crash \/ Boot \/ Advance

Spec == Init /\ [][Next]_vars

-----------------------------------------------------------------------------
\* A job that a runner holds keeps its marker in the file.
MarkersHold ==
  \A r \in Runners : \A j \in Held(run[r]) \cap DOMAIN disk :
    j \notin excused => disk[j].marker # 0

\* From being taken until its outcome is recorded, a job is held by one runner:
\* the tick, the start and a request do not run it beside each other, although
\* none of them holds the lock meanwhile.  Excused is a job whose marker was
\* taken away, in the file or in memory, by a reload during a run, by a request
\* that disables it, or for its age.  (A body that goes on after its timeout is
\* not counted.)
NoOverlap ==
  \A j \in Jobs \ excused :
    Cardinality({r \in Runners : j \in Held(run[r])}) <= 1

Inv == TypeOK /\ MarkersHold /\ NoOverlap

Skips(j) ==
  /\ j \in DOMAIN disk /\ j \in DOMAIN disk'
  /\ disk[j].next # 0 /\ disk[j].next <= now
  /\ disk'[j].enabled /\ disk'[j].next > disk[j].next
  /\ ~\E r \in Runners : j \in DOMAIN run[r].slot /\ run'[r].at # run[r].at

\* A run that has become due is not put off without having taken place:
\* timers, outcomes of other jobs, reads and requests to run leave it as it
\* is.  Only a request to add or change a job, or a start, may move it.
DueSlotsKept ==
  [][\A j \in Jobs \ excused' :
       Skips(j) => \/ events' # events
                   \/ \E s \in Services : run'[<<s, "start">>] # run[<<s, "start">>]]_vars

\* A one-shot job whose success is recorded is not run again by a timer or a
\* start, through crashes and reloads, unless it is enabled or rescheduled.
OnceIsOnce ==
  [][\A s \in Services, role \in {"start", "tick"} : \A j \in done \ excused :
       j \in Running(<<s, role>>)' => j \in Running(<<s, role>>)]_vars

\* The scheduler never falls asleep: while the gateway runs and a job has a
\* next run, the newest service has a timer armed, or it is still starting.
\* Nothing but what a service does itself arms its timer, so one that loses
\* its last timer serves no job until somebody changes one.
NeverAsleep ==
  \A j \in DOMAIN disk \ excused :
    up /\ disk[j].enabled /\ disk[j].next # 0
      => service \in armed \/ run[<<service, "start">>].at # "idle"

\* timer.ts: "Preserve any new past-due nextRunAtMs values that became due
\* while startup catch-up was running.  They should execute on a future tick
\* instead of being silently advanced."  A start that has run missed jobs
\* moves no run that is due, other than that of a job it found interrupted.
CatchupKeepsDueSlots ==
  [][\A s \in Services, j \in Jobs :
       run[<<s, "start">>].slot # NoJobs /\ run'[<<s, "start">>].at = "idle" /\ up' => ~Skips(j)]_vars

\* timer.ts: "Preserve recurring "every" anchors for manual force runs."  A
\* forced run leaves alone the next run of a recurring job that lies ahead.
ForceKeepsSchedule ==
  [][\A s \in Services : \A j \in DOMAIN run[<<s, "manual">>].slot \cap DOMAIN disk :
       /\ run[<<s, "manual">>].mode = "force" /\ run[<<s, "manual">>].slot[j].how = "ok"
       /\ run'[<<s, "manual">>].at = "idle" /\ run[<<s, "manual">>].at = "bodies" /\ up'
       /\ disk[j].kind = "every" /\ disk[j].enabled /\ disk[j].next > now
       => disk'[j].next = disk[j].next]_vars
=============================================================================
