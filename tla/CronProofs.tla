-------------------------------- MODULE CronProofs --------------------------------
(***************************************************************************)
(* Proofs about Cron, for any jobs, schedules, outcomes and periods, and   *)
(* any number of services and requests.                                    *)
(***************************************************************************)
EXTENDS Cron, FiniteSetTheorems, SequenceTheorems, TLAPS

\* A job of the program at time t: its time is set, and it last ran in the past.
IsJob(job, t) == job \in Job /\ job.at > 0 /\ job.last <= t
IsPlain(f, t) == DOMAIN f \subseteq Jobs /\ \A j \in DOMAIN f : IsJob(f[j], t)

\* The next run agrees with the rest of the job: a disabled job has none, an
\* enabled one lacks it only if it is a one-shot job that has succeeded, and it
\* lies after the last run, except that a one-shot job keeps its own time.
Sound(job) ==
  /\ ~job.enabled => job.next = 0
  /\ (job.enabled /\ job.next = 0) =>
        (job.kind = "at" /\ job.status = "ok" /\ job.at <= job.last)
  /\ (job.enabled /\ job.next # 0) =>
        (job.last < job.next \/ (job.kind = "at" /\ job.next = job.at))

\* The same but for the next run and the marker; the same but for the marker.
Alike(a, b) ==
  /\ a.kind = b.kind /\ a.deletes = b.deletes /\ a.at = b.at /\ a.enabled = b.enabled
  /\ a.last = b.last /\ a.status = b.status /\ a.errs = b.errs
Same(a, b) == Alike(a, b) /\ a.next = b.next

Times == Nat \ {0}

LEMMA Constants ==
  /\ Jobs \subseteq Nat \ {0} /\ IsFiniteSet(Jobs)
  /\ Outcomes \subseteq {"ok", "skipped", "error", "fatal"}
  /\ Modes \subseteq {"due", "force"}
  /\ Every \in Nat \ {0} /\ Backoff \in Nat \ {0} /\ Stagger \in Nat \ {0}
  /\ MaxServices \in Nat \ {0} /\ MaxTime \in Nat \ {0}
  /\ MaxAttempts \in Nat /\ MaxImmediate \in Nat /\ Stuck \in Nat /\ MaxEvents \in Nat
BY CronAssumption

-----------------------------------------------------------------------------
(* When a job is to run                                                     *)

LEMMA Grid ==
  ASSUME NEW t \in Nat
  PROVE  /\ GridFrom(t) \in Nat /\ GridFrom(t) >= t
         /\ GridAfter(t) \in Nat /\ GridAfter(t) > t
<1>1. ASSUME NEW u \in Nat
      PROVE  GridFrom(u) \in Nat /\ GridFrom(u) >= u
  <2> DEFINE n == u + Every - 1
             q == n \div Every
  <2>1. Every \in Nat \ {0} /\ n \in Nat
    BY Constants
  <2>2. Every * q \in Nat /\ Every * q + Every > n
    BY <2>1
  <2> QED
    BY <2>1, <2>2 DEF GridFrom
<1>2. t + 1 \in Nat
  OBVIOUS
<1> QED
  BY <1>1, <1>2 DEF GridAfter

LEMMA NextRunNat ==
  ASSUME NEW job \in Job, NEW t \in Nat
  PROVE  NextRun(job, t) \in Nat
BY Grid, Constants DEF NextRun, Job

LEMMA NextRunFacts ==
  ASSUME NEW t \in Times, NEW job, IsJob(job, t), job.enabled
  PROVE  /\ NextRun(job, t) = 0 => job.kind = "at" /\ job.status = "ok" /\ job.at <= job.last
         /\ NextRun(job, t) # 0 => \/ job.last < NextRun(job, t)
                                   \/ job.kind = "at" /\ NextRun(job, t) = job.at
<1>1. job \in Job /\ job.at > 0 /\ job.last <= t /\ job.last \in Nat /\ job.at \in Nat
  BY DEF IsJob, Job
<1>2. CASE job.kind = "every"
  BY <1>1, <1>2, Grid, Constants DEF NextRun, Times
<1>3. CASE job.kind = "cron"
  BY <1>1, <1>3, Grid, Constants DEF NextRun, Times
<1>4. CASE job.kind = "at"
  BY <1>1, <1>4 DEF NextRun
<1> QED
  BY <1>1, <1>2, <1>3, <1>4 DEF Job
\* Job computed with a new next run, or with a marker that is dropped.
LEMMA RenewedFacts ==
  ASSUME NEW t \in Times, NEW job, IsJob(job, t)
  PROVE  /\ IsJob(Renewed(job, t), t) /\ Sound(Renewed(job, t))
         /\ Alike(Renewed(job, t), job) /\ Renewed(job, t).marker = job.marker
         /\ Renewed(job, t).next = NextRun(job, t)
<1>1. job \in Job /\ NextRun(job, t) \in Nat
  BY NextRunNat DEF IsJob, Times
<1>2. /\ Renewed(job, t) \in Job /\ Alike(Renewed(job, t), job)
      /\ Renewed(job, t).marker = job.marker /\ Renewed(job, t).next = NextRun(job, t)
  BY <1>1 DEF Renewed, Job, Alike
<1>3. IsJob(Renewed(job, t), t)
  BY <1>2 DEF IsJob, Alike
<1>4. Sound(Renewed(job, t))
  <2>1. CASE ~job.enabled
    BY <1>1, <1>2, <2>1 DEF Sound, Alike, NextRun, Job
  <2>2. CASE job.enabled
    BY <1>1, <1>2, <2>2, NextRunFacts DEF Sound, Alike
  <2> QED
    BY <2>1, <2>2
<1> QED
  BY <1>2, <1>3, <1>4

LEMMA NormalizedFacts ==
  ASSUME NEW t \in Times, NEW job, IsJob(job, t)
  PROVE  /\ IsJob(Normalized(job, t), t) /\ Alike(Normalized(job, t), job)
         /\ Normalized(job, t).marker \in {0, job.marker}
         /\ job.enabled => Normalized(job, t).next = job.next
         /\ ~job.enabled => Normalized(job, t).next = 0
         /\ (job.enabled => Sound(job)) => Sound(Normalized(job, t))
         /\ Sound(job) => Same(Normalized(job, t), job)
<1>1. job \in Job
  BY DEF IsJob
<1>2. /\ Normalized(job, t) \in Job /\ Alike(Normalized(job, t), job)
      /\ Normalized(job, t).marker \in {0, job.marker}
      /\ job.enabled => Normalized(job, t).next = job.next
      /\ ~job.enabled => Normalized(job, t).next = 0
  BY <1>1 DEF Normalized, Job, Alike
<1> QED
  BY <1>2 DEF IsJob, Sound, Same, Alike

LEMMA RecomputedFacts ==
  ASSUME NEW t \in Times, NEW f, IsPlain(f, t)
  PROVE  /\ IsPlain(Recomputed(f, t), t) /\ DOMAIN Recomputed(f, t) = DOMAIN f
         /\ \A j \in DOMAIN f :
              /\ Alike(Recomputed(f, t)[j], f[j])
              /\ Recomputed(f, t)[j].marker \in {0, f[j].marker}
              /\ Sound(f[j]) => Sound(Recomputed(f, t)[j])
<1> DEFINE g == Recomputed(f, t)
<1>1. DOMAIN g = DOMAIN f
  BY DEF Recomputed
<1>2. ASSUME NEW j \in DOMAIN f
      PROVE  /\ IsJob(g[j], t) /\ Alike(g[j], f[j]) /\ g[j].marker \in {0, f[j].marker}
             /\ Sound(f[j]) => Sound(g[j])
  <2> DEFINE n == Normalized(f[j], t)
  <2>1. IsJob(f[j], t)
    BY DEF IsPlain
  <2>2. /\ IsJob(n, t) /\ Alike(n, f[j]) /\ n.marker \in {0, f[j].marker}
        /\ Sound(f[j]) => Sound(n)
    BY <2>1, NormalizedFacts
  <2>3. IsJob(Renewed(n, t), t) /\ Alike(Renewed(n, t), n) /\ Sound(Renewed(n, t))
        /\ Renewed(n, t).marker = n.marker
    BY <2>2, RenewedFacts
  <2>4. g[j] = Renewed(n, t) \/ g[j] = n
    BY DEF Recomputed
  <2> QED
    BY <2>2, <2>3, <2>4 DEF Alike
<1> QED
  BY <1>1, <1>2 DEF IsPlain

\* Maintenance computes what is missing, and with expired what has run since;
\* nothing else but old markers is changed.
LEMMA MaintainedFacts ==
  ASSUME NEW t \in Times, NEW f, IsPlain(f, t), NEW expired \in BOOLEAN
  PROVE  /\ IsPlain(Maintained(f, t, expired), t)
         /\ DOMAIN Maintained(f, t, expired) = DOMAIN f
         /\ \A j \in DOMAIN f :
              /\ Alike(Maintained(f, t, expired)[j], f[j])
              /\ Maintained(f, t, expired)[j].marker \in {0, f[j].marker}
              /\ (f[j].enabled => Sound(f[j])) => Sound(Maintained(f, t, expired)[j])
              /\ (Sound(f[j]) /\ ~expired) => Same(Maintained(f, t, expired)[j], f[j])
              /\ (Sound(f[j]) /\ Maintained(f, t, expired)[j].next # f[j].next) =>
                    /\ f[j].enabled /\ f[j].next # 0 /\ f[j].next <= t /\ f[j].last >= f[j].next
                    /\ Maintained(f, t, expired)[j].marker = 0
                    /\ f[j].kind = "at" => Maintained(f, t, expired)[j].next \in {0, f[j].at}
              /\ (f[j].marker = 0 /\ f[j].next <= t /\ f[j].last >= f[j].next /\ expired) =>
                    Sound(Maintained(f, t, expired)[j])
<1> DEFINE g == Maintained(f, t, expired)
<1>1. DOMAIN g = DOMAIN f
  BY DEF Maintained
<1>2. ASSUME NEW j \in DOMAIN f
      PROVE  /\ IsJob(g[j], t) /\ Alike(g[j], f[j]) /\ g[j].marker \in {0, f[j].marker}
             /\ (f[j].enabled => Sound(f[j])) => Sound(g[j])
             /\ (Sound(f[j]) /\ ~expired) => Same(g[j], f[j])
             /\ (Sound(f[j]) /\ g[j].next # f[j].next) =>
                  /\ f[j].enabled /\ f[j].next # 0 /\ f[j].next <= t /\ f[j].last >= f[j].next
                  /\ g[j].marker = 0
                  /\ f[j].kind = "at" => g[j].next \in {0, f[j].at}
             /\ (f[j].marker = 0 /\ f[j].next <= t /\ f[j].last >= f[j].next /\ expired) =>
                  Sound(g[j])
  <2> DEFINE n == Normalized(f[j], t)
             r == Renewed(n, t)
             over == expired /\ n.next <= t /\ n.marker = 0 /\ n.last >= n.next
  <2>1. IsJob(f[j], t)
    BY DEF IsPlain
  <2>2. /\ IsJob(n, t) /\ Alike(n, f[j]) /\ n.marker \in {0, f[j].marker}
        /\ f[j].enabled => n.next = f[j].next
        /\ ~f[j].enabled => n.next = 0
        /\ (f[j].enabled => Sound(f[j])) => Sound(n)
        /\ Sound(f[j]) => Same(n, f[j])
    BY <2>1, NormalizedFacts
  <2>3. IsJob(r, t) /\ Alike(r, n) /\ Sound(r) /\ r.marker = n.marker /\ r.next = NextRun(n, t)
    BY <2>2, RenewedFacts
  <2>4. g[j] = IF n.enabled /\ (n.next = 0 \/ over) THEN r ELSE n
    BY DEF Maintained
  <2>5. n.enabled /\ n.next = 0 /\ Sound(n) => r.next = 0
    BY <2>2, <2>3 DEF Sound, NextRun
  <2>6. n.kind = "at" /\ n.enabled => r.next \in {0, n.at}
    BY <2>2, <2>3 DEF NextRun
  <2> HIDE DEF n, r
  <2>7. CASE n.enabled /\ (n.next = 0 \/ over)
    <3>1. g[j] = r
      BY <2>4, <2>7
    <3> QED
      BY <2>2, <2>3, <2>5, <2>6, <2>7, <3>1 DEF Alike, Same
  <2>8. CASE ~(n.enabled /\ (n.next = 0 \/ over))
    <3>1. g[j] = n
      BY <2>4, <2>8
    <3>2. (f[j].marker = 0 /\ f[j].next <= t /\ f[j].last >= f[j].next /\ expired) => Sound(n)
      BY <2>2, <2>8 DEF Sound, Alike
    <3> QED
      BY <2>2, <3>1, <3>2 DEF Alike, Same
  <2> QED
    BY <2>7, <2>8
<1> QED
  BY <1>1, <1>2 DEF IsPlain
\* Maintenance after a body or a request, which leaves sound jobs alone, and
\* maintenance by a timer that finds nothing due.
LEMMA MaintainedAlone ==
  ASSUME NEW t \in Times, NEW f, IsPlain(f, t)
  PROVE  /\ IsPlain(Maintained(f, t, FALSE), t)
         /\ DOMAIN Maintained(f, t, FALSE) = DOMAIN f
         /\ \A j \in DOMAIN f :
              /\ Alike(Maintained(f, t, FALSE)[j], f[j])
              /\ Maintained(f, t, FALSE)[j].marker \in {0, f[j].marker}
              /\ (f[j].enabled => Sound(f[j])) => Sound(Maintained(f, t, FALSE)[j])
              /\ Sound(f[j]) => Same(Maintained(f, t, FALSE)[j], f[j])
<1> DEFINE g == Maintained(f, t, FALSE)
<1>1. FALSE \in BOOLEAN
  OBVIOUS
<1>2. DOMAIN g = DOMAIN f
  BY DEF Maintained
<1>3. IsPlain(g, t)
  BY <1>1, MaintainedFacts
<1>4. \A j \in DOMAIN f : Alike(g[j], f[j])
  BY <1>1, MaintainedFacts
<1>5. \A j \in DOMAIN f : g[j].marker \in {0, f[j].marker}
  BY <1>1, MaintainedFacts
<1>6. \A j \in DOMAIN f : (f[j].enabled => Sound(f[j])) => Sound(g[j])
  BY <1>1, MaintainedFacts
<1>7. \A j \in DOMAIN f : Sound(f[j]) => Same(g[j], f[j])
  BY <1>1, MaintainedFacts
<1> QED
  BY <1>2, <1>3, <1>4, <1>5, <1>6, <1>7

LEMMA MaintainedExpired ==
  ASSUME NEW t \in Times, NEW f, IsPlain(f, t)
  PROVE  /\ IsPlain(Maintained(f, t, TRUE), t)
         /\ DOMAIN Maintained(f, t, TRUE) = DOMAIN f
         /\ \A j \in DOMAIN f :
              /\ Alike(Maintained(f, t, TRUE)[j], f[j])
              /\ Maintained(f, t, TRUE)[j].marker \in {0, f[j].marker}
              /\ (f[j].enabled => Sound(f[j])) => Sound(Maintained(f, t, TRUE)[j])
              /\ (f[j].marker = 0 /\ f[j].next <= t /\ f[j].last >= f[j].next) =>
                    Sound(Maintained(f, t, TRUE)[j])
<1> DEFINE g == Maintained(f, t, TRUE)
<1>1. TRUE \in BOOLEAN
  OBVIOUS
<1>2. DOMAIN g = DOMAIN f
  BY DEF Maintained
<1>3. IsPlain(g, t)
  BY <1>1, MaintainedFacts
<1>4. \A j \in DOMAIN f : Alike(g[j], f[j])
  BY <1>1, MaintainedFacts
<1>5. \A j \in DOMAIN f : g[j].marker \in {0, f[j].marker}
  BY <1>1, MaintainedFacts
<1>6. \A j \in DOMAIN f : (f[j].enabled => Sound(f[j])) => Sound(g[j])
  BY <1>1, MaintainedFacts
<1>7. \A j \in DOMAIN f : (f[j].marker = 0 /\ f[j].next <= t /\ f[j].last >= f[j].next) =>
                            Sound(g[j])
  BY <1>1, MaintainedFacts
<1> QED
  BY <1>2, <1>3, <1>4, <1>5, <1>6, <1>7

-----------------------------------------------------------------------------
(* Outcomes                                                                 *)

LEMMA MinMax ==
  ASSUME NEW a \in Nat, NEW b \in Nat
  PROVE  /\ Min({a, b}) \in {a, b} /\ Min({a, b}) <= a /\ Min({a, b}) <= b
         /\ Max({a, b}) \in {a, b} /\ Max({a, b}) >= a /\ Max({a, b}) >= b
<1>1. \E x \in {a, b} : \A y \in {a, b} : x =< y
  <2>1. CASE a <= b
    BY <2>1
  <2>2. CASE b <= a
    BY <2>2
  <2> QED
    BY <2>1, <2>2
<1>2. \E x \in {a, b} : \A y \in {a, b} : x >= y
  <2>1. CASE a >= b
    BY <2>1
  <2>2. CASE b >= a
    BY <2>2
  <2> QED
    BY <2>1, <2>2
<1>3. Min({a, b}) \in {a, b} /\ \A y \in {a, b} : Min({a, b}) =< y
  BY <1>1 DEF Min
<1>4. Max({a, b}) \in {a, b} /\ \A y \in {a, b} : Max({a, b}) >= y
  BY <1>2 DEF Max
<1> QED
  BY <1>3, <1>4

\* The outcome of a body that has ended by time t.
IsOutcome(res, t) ==
  /\ res.from \in Times /\ res.to \in Nat /\ res.from <= res.to /\ res.to <= t
  /\ res.how \in {"ok", "skipped", "error", "fatal"}

\* A job that is over has no marker, and if it is still enabled it has a next
\* run, after this one unless its schedule is preserved.
LEMMA FinishedFacts ==
  ASSUME NEW t \in Times, NEW job, IsJob(job, t), NEW res, IsOutcome(res, t),
         NEW keep \in BOOLEAN
  PROVE  LET f == Finished(job, res, keep) IN
         /\ IsJob(f, t) /\ f.marker = 0 /\ f.last = res.from
         /\ f.kind = job.kind /\ f.deletes = job.deletes /\ f.at = job.at
         /\ f.enabled => job.enabled /\ f.next # 0 /\ f.last <= f.next
         /\ (~keep /\ f.enabled) => Sound(f)
         /\ (job.kind = "at" /\ res.how = "ok") => ~f.enabled
<1> DEFINE failed == res.how \in {"error", "fatal"}
           st == IF failed THEN "error" ELSE res.how
           errs == IF failed THEN Min({job.errs + 1, MaxAttempts + 1}) ELSE 0
           j1 == [job EXCEPT !.marker = 0, !.last = res.from, !.status = st, !.errs = errs]
           j2 == [j1 EXCEPT !.last = job.last]
           f == Finished(job, res, keep)
<1>1. /\ job \in Job /\ job.at > 0 /\ job.last <= t /\ job.errs \in 0 .. MaxAttempts + 1
      /\ job.last \in Nat /\ job.enabled \in BOOLEAN
  BY DEF IsJob, Job
<1>2. errs \in 0 .. MaxAttempts + 1 /\ st \in {"ok", "skipped", "error"}
  <2>1. job.errs + 1 \in Nat /\ MaxAttempts + 1 \in Nat
    BY <1>1, Constants
  <2>2. /\ Min({job.errs + 1, MaxAttempts + 1}) \in {job.errs + 1, MaxAttempts + 1}
        /\ Min({job.errs + 1, MaxAttempts + 1}) <= MaxAttempts + 1
    BY <2>1, MinMax
  <2>3. Min({job.errs + 1, MaxAttempts + 1}) \in 0 .. MaxAttempts + 1
    BY <2>1, <2>2
  <2> QED
    BY <2>3, Constants DEF IsOutcome
<1> HIDE DEF errs, st
<1>3. /\ j1 \in Job /\ j1.marker = 0 /\ j1.last = res.from /\ j1.kind = job.kind
      /\ j1.deletes = job.deletes /\ j1.at = job.at /\ j1.enabled = job.enabled
      /\ j2 \in Job /\ j2.last = job.last /\ j2.kind = job.kind /\ j2.enabled = job.enabled
      /\ j1.errs = errs
  BY <1>1, <1>2 DEF Job, IsOutcome, Times
<1> HIDE DEF j1, j2
<1> DEFINE natural == IF keep /\ job.kind = "every" THEN NextRun(j2, res.to)
                                                     ELSE NextRun(j1, res.to)
<1>4. job.kind # "at" /\ job.enabled =>
        natural \in Nat /\ natural # 0 /\ natural >= res.from /\ (~keep => natural > res.from)
  <2> SUFFICES ASSUME job.kind # "at", job.enabled
               PROVE  /\ natural \in Nat /\ natural # 0 /\ natural >= res.from
                      /\ ~keep => natural > res.from
    OBVIOUS
  <2>1. /\ GridFrom(res.to) \in Nat /\ GridFrom(res.to) >= res.to
        /\ GridAfter(res.to) \in Nat /\ GridAfter(res.to) > res.to
    BY Grid DEF IsOutcome
  <2>2. CASE job.kind = "cron"
    <3>1. natural = GridAfter(res.to)
      BY <1>3, <2>2 DEF NextRun
    <3> QED
      BY <2>1, <3>1 DEF IsOutcome, Times
  <2>3. CASE job.kind = "every" /\ keep
    <3>1. natural = IF job.last # 0 /\ job.last + Every > res.to THEN job.last + Every
                                                                ELSE GridFrom(res.to)
      BY <1>3, <2>3 DEF NextRun
    <3> QED
      BY <1>1, <2>1, <2>3, <3>1, Constants DEF IsOutcome, Times
  <2>4. CASE job.kind = "every" /\ ~keep
    <3>1. natural = IF res.from # 0 /\ res.from + Every > res.to THEN res.from + Every
                                                                ELSE GridFrom(res.to)
      BY <1>3, <2>4 DEF NextRun
    <3> QED
      BY <1>1, <2>1, <2>4, <3>1, Constants DEF IsOutcome, Times
  <2> QED
    BY <1>1, <2>2, <2>3, <2>4 DEF Job
<1>5. res.to + Backoff \in Nat /\ res.to + Backoff > res.from
  BY Constants DEF IsOutcome, Times
<1>6. /\ (job.kind = "at" /\ res.how = "error" /\ j1.errs <= MaxAttempts) =>
            f = [j1 EXCEPT !.next = res.to + Backoff]
      /\ (job.kind = "at" /\ ~(res.how = "error" /\ j1.errs <= MaxAttempts)) =>
            f = [j1 EXCEPT !.next = 0, !.enabled = FALSE]
      /\ (job.kind # "at" /\ ~job.enabled) => f = [j1 EXCEPT !.next = 0]
      /\ (job.kind # "at" /\ job.enabled) =>
            f = [j1 EXCEPT !.next = IF failed THEN Max({natural, res.to + Backoff}) ELSE natural]
  BY DEF Finished, j1, j2, errs, st
<1> HIDE DEF f, natural, failed
<1>7. /\ f \in Job /\ f.marker = 0 /\ f.last = res.from
      /\ f.kind = job.kind /\ f.deletes = job.deletes /\ f.at = job.at
      /\ f.enabled => job.enabled /\ f.next # 0 /\ f.last <= f.next /\ (~keep => f.last < f.next)
      /\ job.kind = "at" /\ res.how = "ok" => ~f.enabled
  <2>1. CASE job.kind = "at" /\ res.how = "error" /\ j1.errs <= MaxAttempts
    <3>1. f = [j1 EXCEPT !.next = res.to + Backoff]
      BY <1>6, <2>1
    <3>2. /\ f \in Job /\ f.marker = 0 /\ f.last = res.from
          /\ f.kind = job.kind /\ f.deletes = job.deletes /\ f.at = job.at
          /\ f.enabled = job.enabled /\ f.next = res.to + Backoff
      BY <1>3, <1>5, <3>1 DEF Job
    <3> QED
      BY <1>1, <1>5, <2>1, <3>2 DEF IsOutcome, Times
  <2>2. CASE job.kind = "at" /\ ~(res.how = "error" /\ j1.errs <= MaxAttempts)
    <3>1. f = [j1 EXCEPT !.next = 0, !.enabled = FALSE]
      BY <1>6, <2>2
    <3> QED
      BY <1>3, <3>1 DEF Job
  <2>3. CASE job.kind # "at" /\ ~job.enabled
    <3>1. f = [j1 EXCEPT !.next = 0]
      BY <1>6, <2>3
    <3> QED
      BY <1>3, <2>3, <3>1 DEF Job
  <2>4. CASE job.kind # "at" /\ job.enabled
    <3> DEFINE n == IF failed THEN Max({natural, res.to + Backoff}) ELSE natural
    <3>1. n \in Nat /\ n # 0 /\ n >= res.from /\ (~keep => n > res.from)
      BY <1>4, <1>5, <2>4, MinMax DEF IsOutcome, Times
    <3>2. f = [j1 EXCEPT !.next = n]
      BY <1>6, <2>4
    <3> HIDE DEF n
    <3>3. /\ f \in Job /\ f.marker = 0 /\ f.last = res.from
          /\ f.kind = job.kind /\ f.deletes = job.deletes /\ f.at = job.at
          /\ f.enabled = job.enabled /\ f.next = n
      BY <1>3, <3>1, <3>2 DEF Job
    <3> QED
      BY <2>4, <3>1, <3>3 DEF IsOutcome, Times
  <2> QED
    BY <1>1, <2>1, <2>2, <2>3, <2>4
<1>8. IsJob(f, t) /\ (~keep /\ f.enabled => Sound(f))
  BY <1>1, <1>7 DEF IsJob, Sound, IsOutcome, Times
<1> QED
  BY <1>7, <1>8 DEF f

-----------------------------------------------------------------------------
(* Contents of the file                                                     *)

LEMMA MarkedFacts ==
  ASSUME NEW t, NEW f, IsPlain(f, t), NEW js, NEW mark \in Nat
  PROVE  /\ IsPlain(Marked(f, js, mark), t) /\ DOMAIN Marked(f, js, mark) = DOMAIN f
         /\ \A j \in DOMAIN f :
              /\ Same(Marked(f, js, mark)[j], f[j])
              /\ Marked(f, js, mark)[j].marker = IF j \in js THEN mark ELSE f[j].marker
              /\ Sound(f[j]) => Sound(Marked(f, js, mark)[j])
<1> DEFINE g == Marked(f, js, mark)
<1>1. DOMAIN g = DOMAIN f
  BY DEF Marked
<1>2. ASSUME NEW j \in DOMAIN f
      PROVE  /\ g[j] \in Job /\ Same(g[j], f[j])
             /\ g[j].marker = IF j \in js THEN mark ELSE f[j].marker
  <2>1. f[j] \in Job
    BY DEF IsPlain, IsJob
  <2>2. g[j] = IF j \in js THEN [f[j] EXCEPT !.marker = mark] ELSE f[j]
    BY DEF Marked
  <2> HIDE DEF g
  <2> QED
    BY <2>1, <2>2 DEF Job, Same, Alike
<1> HIDE DEF g
<1> QED
  BY <1>1, <1>2 DEF g, IsPlain, IsJob, Same, Alike, Sound

\* Recording outcomes leaves the other jobs as they are.
LEMMA AppliedFacts ==
  ASSUME NEW t \in Times, NEW f, IsPlain(f, t),
         NEW slot, \A j \in DOMAIN slot : IsOutcome(slot[j], t)
  PROVE  /\ IsPlain(Applied(f, slot), t)
         /\ DOMAIN Applied(f, slot) \subseteq DOMAIN f
         /\ \A j \in DOMAIN f : j \notin DOMAIN slot =>
              j \in DOMAIN Applied(f, slot) /\ Applied(f, slot)[j] = f[j]
         /\ \A j \in DOMAIN Applied(f, slot) : j \in DOMAIN slot =>
              LET g == Applied(f, slot)[j] IN
              /\ g.marker = 0 /\ g.kind = f[j].kind /\ g.at = f[j].at
              /\ g.enabled => f[j].enabled /\ Sound(g)
              /\ (f[j].kind = "at" /\ slot[j].how = "ok") => ~g.enabled
<1> DEFINE g == Applied(f, slot)
<1>1. /\ DOMAIN g \subseteq DOMAIN f
      /\ \A j \in DOMAIN f : j \notin DOMAIN slot => j \in DOMAIN g
      /\ \A j \in DOMAIN g : g[j] = IF j \in DOMAIN slot THEN Finished(f[j], slot[j], FALSE) ELSE f[j]
  BY DEF Applied
<1> HIDE DEF g
<1>2. ASSUME NEW j \in DOMAIN g, j \in DOMAIN slot
      PROVE  /\ IsJob(g[j], t) /\ g[j].marker = 0 /\ g[j].kind = f[j].kind /\ g[j].at = f[j].at
             /\ g[j].enabled => f[j].enabled /\ Sound(g[j])
             /\ (f[j].kind = "at" /\ slot[j].how = "ok") => ~g[j].enabled
  <2>1. g[j] = Finished(f[j], slot[j], FALSE)
    BY <1>1, <1>2
  <2>2. IsJob(f[j], t) /\ IsOutcome(slot[j], t)
    BY <1>1, <1>2 DEF IsPlain
  <2>3. FALSE \in BOOLEAN
    OBVIOUS
  <2> DEFINE h == Finished(f[j], slot[j], FALSE)
  <2>4. /\ IsJob(h, t) /\ h.marker = 0 /\ h.kind = f[j].kind /\ h.at = f[j].at
        /\ h.enabled => f[j].enabled /\ Sound(h)
        /\ (f[j].kind = "at" /\ slot[j].how = "ok") => ~h.enabled
    BY <2>2, <2>3, FinishedFacts
  <2> HIDE DEF h
  <2>5. g[j] = h
    BY <2>1 DEF h
  <2> QED
    BY <2>4, <2>5
<1>3. ASSUME NEW j \in DOMAIN g, j \notin DOMAIN slot
      PROVE  IsJob(g[j], t) /\ g[j] = f[j]
  BY <1>1, <1>3 DEF IsPlain
<1>4. IsPlain(g, t)
  BY <1>1, <1>2, <1>3 DEF IsPlain
<1> QED
  BY <1>1, <1>2, <1>3, <1>4 DEF g

\* What was put off runs after now.
LEMMA StaggeredFacts ==
  ASSUME now \in Times, NEW f, IsPlain(f, now), NEW later \in Seq(Jobs)
  PROVE  /\ IsPlain(Staggered(f, later), now) /\ DOMAIN Staggered(f, later) = DOMAIN f
         /\ \A j \in DOMAIN f :
              /\ Alike(Staggered(f, later)[j], f[j])
              /\ Staggered(f, later)[j].marker = f[j].marker
              /\ (f[j].enabled => Sound(f[j])) =>
                    (Staggered(f, later)[j].enabled => Sound(Staggered(f, later)[j]))
<1> DEFINE g == Staggered(f, later)
           waits == {k \in DOMAIN later : later[k] \in DOMAIN f /\ f[later[k]].enabled}
           Place(k) == Cardinality({i \in waits : i <= k})
<1>1. DOMAIN g = DOMAIN f
  BY DEF Staggered
<1>2. ASSUME NEW k \in waits
      PROVE  now + Stagger * Place(k) \in Nat /\ now + Stagger * Place(k) > now
  <2> DEFINE T == {i \in waits : i <= k}
  <2>1. DOMAIN later = 1 .. Len(later) /\ Len(later) \in Nat
    OBVIOUS
  <2>2. IsFiniteSet(1 .. Len(later))
    BY <2>1, FS_Interval
  <2>3. T \subseteq 1 .. Len(later) /\ k \in T
    BY <2>1
  <2>4. IsFiniteSet(T)
    BY <2>2, <2>3, FS_Subset
  <2>5. Cardinality(T) \in Nat /\ Cardinality(T) # 0
    BY <2>3, <2>4, FS_CardinalityType, FS_EmptySet
  <2>6. Place(k) \in Nat \ {0}
    BY <2>5
  <2> HIDE DEF Place
  <2> QED
    BY <2>6, Constants DEF Times
<1>3. ASSUME NEW j \in DOMAIN f
      PROVE  /\ IsJob(g[j], now) /\ Alike(g[j], f[j]) /\ g[j].marker = f[j].marker
             /\ (f[j].enabled => Sound(f[j])) => (g[j].enabled => Sound(g[j]))
  <2>1. IsJob(f[j], now) /\ f[j] \in Job
    BY DEF IsPlain, IsJob
  <2>2. CASE \E k \in waits : later[k] = j
    <3> DEFINE w == CHOOSE k \in waits : later[k] = j
               n == now + Stagger * Place(w)
    <3>1. w \in waits
      BY <2>2
    <3>2. n \in Nat /\ n > now
      BY <1>2, <3>1
    <3>3. g[j] = [f[j] EXCEPT !.next = n]
      BY <2>2 DEF Staggered
    <3> HIDE DEF n, g
    <3>4. g[j] \in Job /\ Alike(g[j], f[j]) /\ g[j].marker = f[j].marker /\ g[j].next = n
      BY <2>1, <3>2, <3>3 DEF Job, Alike
    <3> QED
      BY <2>1, <3>2, <3>4 DEF IsJob, Alike, Sound, Times, Job
  <2>3. CASE ~\E k \in waits : later[k] = j
    <3>1. g[j] = f[j]
      BY <2>3 DEF Staggered
    <3> QED
      BY <2>1, <3>1 DEF Alike
  <2> QED
    BY <2>2, <2>3
<1> HIDE DEF g
<1> QED
  BY <1>1, <1>3 DEF g, IsPlain

LEMMA NewJobFacts ==
  ASSUME NEW t \in Times, NEW sched, sched.kind \in {"at", "every", "cron"},
         sched.deletes \in BOOLEAN, NEW a \in Times
  PROVE  /\ IsJob(NewJob(sched, a, t), t) /\ Sound(NewJob(sched, a, t))
         /\ NewJob(sched, a, t).marker = 0
<1> DEFINE job == [kind |-> sched.kind, deletes |-> sched.deletes, at |-> a, enabled |-> TRUE,
                   next |-> 0, marker |-> 0, last |-> 0, status |-> "none", errs |-> 0]
<1>1. 0 \in 0 .. MaxAttempts + 1
  BY Constants
<1>2. IsJob(job, t) /\ job.marker = 0
  BY <1>1 DEF IsJob, Job, Times
<1>3. NewJob(sched, a, t) = Renewed(job, t)
  BY DEF NewJob
<1> HIDE DEF job
<1> QED
  BY <1>2, <1>3, RenewedFacts

-----------------------------------------------------------------------------
(* Types                                                                    *)

\* What a runner holds of a job: a body that runs has begun, one that is done
\* has ended, in the past.
IsSlot(x, t) ==
  /\ x \in Slot
  /\ x.st # "queued" => x.from \in Times /\ x.from <= t
  /\ x.st = "done" => x.from <= x.to /\ x.to <= t /\ x.how \in Outcomes

IsRecord(x) ==
  x = [at |-> x.at, slot |-> x.slot, own |-> x.own, skip |-> x.skip, later |-> x.later,
       asked |-> x.asked, mode |-> x.mode]

IsRunner(x, role, t) ==
  /\ IsRecord(x)
  /\ x.at \in Steps /\ DOMAIN x.slot \subseteq Jobs /\ x.own \in BOOLEAN /\ x.skip \subseteq Jobs
  /\ x.later \in Seq(Jobs) /\ x.asked \in Nat /\ x.asked <= t /\ x.mode \in {"due", "force"}
  /\ \A j \in DOMAIN x.slot : IsSlot(x.slot[j], t)
  /\ x.at \in {"clear", "plan", "final"} => role = "start"
  /\ x.at = "reserve" => role = "manual"
  /\ (role = "manual" /\ x.at # "idle") => x.asked # 0 /\ \E j \in Jobs : DOMAIN x.slot = {j}

\* The same but for own.
Quiet(x, y) ==
  /\ x.at = y.at /\ x.slot = y.slot /\ x.skip = y.skip /\ x.later = y.later
  /\ x.asked = y.asked /\ x.mode = y.mode

RunType == DOMAIN run = Runners /\ \A r \in Runners : IsRunner(run[r], r[2], now)

StoreType ==
  /\ IsPlain(disk, now) /\ DOMAIN disk \subseteq born
  /\ DOMAIN mem = Services
  /\ \A s \in Services : IsPlain(mem[s], now) /\ DOMAIN mem[s] \subseteq born

RestType ==
  /\ now \in Times /\ now <= MaxTime
  /\ service \in Services /\ up \in BOOLEAN /\ armed \subseteq Services
  /\ events \in 0 .. MaxEvents
  /\ born \subseteq Jobs /\ done \subseteq born /\ excused \subseteq Jobs

Types == RestType /\ StoreType /\ RunType

LEMMA ServiceFacts ==
  /\ \A s \in Services : s \in Nat /\ s + 1 \in Nat /\ s # s + 1
  /\ 1 \in Services
  /\ \A s \in Services : s < MaxServices => s + 1 \in Services
  /\ \A s \in Services : <<s, "start">> \in Runners /\ <<s, "tick">> \in Runners
                         /\ <<s, "manual">> \in Runners
  /\ \A r \in Runners : r[1] \in Services /\ r[2] \in {"start", "tick", "manual"}
                        /\ r = <<r[1], r[2]>>
BY Constants DEF Services, Runners

LEMMA IdleFacts ==
  /\ IsRecord(Idle)
  /\ \A role : \A t \in Times : IsRunner(Idle, role, t)
  /\ Idle.at = "idle" /\ Held(Idle) = {}
<1>1. /\ IsRecord(Idle) /\ Idle.at = "idle" /\ Idle.slot = NoJobs /\ Idle.own = TRUE /\ Idle.skip = {}
      /\ Idle.later = <<>> /\ Idle.asked = 0 /\ Idle.mode = "due"
  BY DEF Idle, IsRecord
<1>2. DOMAIN NoJobs = {}
  BY DEF NoJobs
<1>3. <<>> \in Seq(Jobs)
  OBVIOUS
<1>4. Held(Idle) = {}
  BY <1>1 DEF Held
<1>5. ASSUME NEW role, NEW t \in Times
      PROVE  IsRunner(Idle, role, t)
  <2>1. Idle.own \in BOOLEAN /\ Idle.skip \subseteq Jobs /\ Idle.later \in Seq(Jobs)
    BY <1>1, <1>3
  <2>2. Idle.asked \in Nat /\ Idle.asked <= t /\ Idle.mode \in {"due", "force"}
    BY <1>1 DEF Times
  <2>3. DOMAIN Idle.slot = {}
    BY <1>1, <1>2
  <2> QED
    BY <1>1, <2>1, <2>2, <2>3 DEF IsRunner, Steps
<1> QED
  BY <1>1, <1>4, <1>5

LEMMA WaitingFacts ==
  /\ Waiting \in Slot /\ Waiting.st = "queued"
  /\ \A t : IsSlot(Waiting, t)
<1>1. Waiting \in Slot /\ Waiting.st = "queued"
  BY DEF Waiting, Slot
<1> QED
  BY <1>1 DEF IsSlot

LEMMA DetachedFacts ==
  ASSUME RunType, NEW s
  PROVE  /\ DOMAIN Detached(s) = Runners
         /\ \A r \in Runners : IsRunner(Detached(s)[r], r[2], now) /\ Quiet(Detached(s)[r], run[r])
<1>1. DOMAIN Detached(s) = Runners
  BY DEF Detached
<1>2. ASSUME NEW r \in Runners
      PROVE  IsRunner(Detached(s)[r], r[2], now) /\ Quiet(Detached(s)[r], run[r])
  <2> DEFINE x == run[r]
             y == Detached(s)[r]
  <2>1. y = IF r[1] = s THEN [x EXCEPT !.own = FALSE] ELSE x
    BY DEF Detached
  <2>2. IsRunner(x, r[2], now)
    BY DEF RunType
  <2> HIDE DEF x, y
  <2>3. IsRecord(y) /\ Quiet(y, x) /\ y.own \in BOOLEAN
    BY <2>1, <2>2 DEF IsRunner, IsRecord, Quiet
  <2>4. IsRunner(y, r[2], now)
    BY <2>2, <2>3 DEF IsRunner, Quiet
  <2> QED
    BY <2>3, <2>4 DEF x, y
<1> QED
  BY <1>1, <1>2

\* One runner takes a step, others at most lose hold of their objects.
LEMMA RunStep ==
  ASSUME RunType, NEW f, DOMAIN f = Runners, now' = now,
         \A r \in Runners : IsRunner(f[r], r[2], now) /\ Quiet(f[r], run[r]),
         NEW p \in Runners, NEW y, IsRunner(y, p[2], now),
         run' = [f EXCEPT ![p] = y]
  PROVE  /\ RunType' /\ run'[p] = y
         /\ \A r \in Runners : r # p => Quiet(run'[r], run[r])
BY DEF RunType

LEMMA StoreStep ==
  ASSUME Types, NEW s \in Services, NEW store, IsPlain(store, now), DOMAIN store \subseteq born',
         born \subseteq born', now' = now, Persist(s, store)
  PROVE  /\ StoreType' /\ disk' = store /\ mem'[s] = store
         /\ \A o \in Services : o # s => mem'[o] = mem[o]
BY DEF Types, StoreType, Persist

LEMMA OutcomeFacts ==
  ASSUME RunType, NEW r \in Runners, Active(r) = {}
  PROVE  \A j \in DOMAIN run[r].slot : IsOutcome(run[r].slot[j], now)
<1>1. ASSUME NEW j \in DOMAIN run[r].slot
      PROVE  IsOutcome(run[r].slot[j], now)
  <2> DEFINE x == run[r].slot[j]
  <2>1. IsSlot(x, now)
    BY DEF RunType, IsRunner
  <2>2. x.st \notin {"queued", "running"}
    BY DEF Active
  <2> HIDE DEF x
  <2>3. x.st = "done" /\ x.to \in Nat /\ x.from \in Times
    BY <2>1, <2>2 DEF IsSlot, Slot
  <2> QED
    BY <2>1, <2>3, Constants DEF IsSlot, IsOutcome, x
<1> QED
  BY <1>1

LEMMA ExcuseType == ASSUME Types, NEW store, IsPlain(store, now), Excuse(store)
                    PROVE  excused' \subseteq Jobs /\ excused \subseteq excused'
BY DEF Types, RestType, IsPlain, Excuse

LEMMA CountedFacts ==
  ASSUME Types, Counted
  PROVE  events' \in 0 .. MaxEvents /\ events' # events
<1>1. IsFiniteSet(born)
  BY Constants, FS_Subset DEF Types, RestType
<1>2. Cardinality(born) \in Nat
  BY <1>1, FS_CardinalityType
<1> QED
  BY <1>2, Constants DEF Types, RestType, Counted

\* Maintenance never puts off the next run of a sound job.
LEMMA MaintainedKeeps ==
  ASSUME NEW t \in Times, NEW f, IsPlain(f, t), NEW expired \in BOOLEAN,
         NEW j \in DOMAIN f, Sound(f[j]), f[j].next # 0
  PROVE  ~(Maintained(f, t, expired)[j].next > f[j].next)
<1> DEFINE g == Maintained(f, t, expired)
<1>1. /\ g[j].next # f[j].next =>
           /\ f[j].enabled /\ f[j].next <= t /\ f[j].last >= f[j].next
           /\ f[j].kind = "at" => g[j].next \in {0, f[j].at}
      /\ IsJob(f[j], t) /\ IsJob(g[j], t)
  BY MaintainedFacts DEF IsPlain
<1> HIDE DEF g
<1>2. f[j].next \in Nat /\ f[j].last \in Nat /\ g[j].next \in Nat /\ f[j].at \in Nat
  BY <1>1 DEF IsJob, Job
<1>3. CASE g[j].next # f[j].next
  <2>1. f[j].kind = "at" /\ f[j].next = f[j].at
    BY <1>1, <1>2, <1>3 DEF Sound
  <2>2. g[j].next \in {0, f[j].next}
    BY <1>1, <1>3, <2>1
  <2> QED
    BY <1>2, <2>2 DEF g
<1>4. CASE g[j].next = f[j].next
  BY <1>2, <1>4 DEF g
<1> QED
  BY <1>3, <1>4

\* The file after the outcomes of runner r were recorded, and jobs put off.
LEMMA RecordedFacts ==
  ASSUME Types, NEW r \in Runners, Active(r) = {}, NEW base,
         base \in {Applied(disk, run[r].slot), Staggered(Applied(disk, run[r].slot), run[r].later)}
  PROVE  LET store == Maintained(base, now, FALSE) IN
         /\ IsPlain(store, now) /\ DOMAIN store \subseteq DOMAIN disk
         /\ \A j \in DOMAIN disk : j \notin DOMAIN run[r].slot => j \in DOMAIN store
         /\ \A j \in DOMAIN store :
              /\ store[j].enabled => disk[j].enabled
              /\ j \in DOMAIN run[r].slot => store[j].marker = 0
              /\ j \notin DOMAIN run[r].slot => store[j].marker \in {0, disk[j].marker}
              /\ (j \in DOMAIN run[r].slot /\ disk[j].kind = "at" /\ run[r].slot[j].how = "ok") =>
                    ~store[j].enabled
              /\ (\A i \in DOMAIN disk : Sound(disk[i])) => Sound(store[j])
              /\ (j \notin DOMAIN run[r].slot /\ base = Applied(disk, run[r].slot) /\ Sound(disk[j])) =>
                    Same(store[j], disk[j])
<1> DEFINE slot == run[r].slot
           a == Applied(disk, slot)
           store == Maintained(base, now, FALSE)
<1>1. now \in Times /\ IsPlain(disk, now) /\ run[r].later \in Seq(Jobs)
  BY DEF Types, RestType, StoreType, RunType, IsRunner
<1>2. \A j \in DOMAIN slot : IsOutcome(slot[j], now)
  BY OutcomeFacts DEF Types
<1> HIDE DEF slot
<1>3. /\ IsPlain(a, now) /\ DOMAIN a \subseteq DOMAIN disk
      /\ \A j \in DOMAIN disk : j \notin DOMAIN slot => j \in DOMAIN a /\ a[j] = disk[j]
      /\ \A j \in DOMAIN a : j \in DOMAIN slot =>
           /\ a[j].marker = 0 /\ a[j].kind = disk[j].kind /\ a[j].at = disk[j].at
           /\ a[j].enabled => disk[j].enabled /\ Sound(a[j])
           /\ (disk[j].kind = "at" /\ slot[j].how = "ok") => ~a[j].enabled
  BY <1>1, <1>2, AppliedFacts
<1> HIDE DEF a
<1>4. /\ IsPlain(base, now) /\ DOMAIN base = DOMAIN a
      /\ \A j \in DOMAIN a :
           /\ Alike(base[j], a[j]) /\ base[j].marker = a[j].marker
           /\ (a[j].enabled => Sound(a[j])) => (base[j].enabled => Sound(base[j]))
  <2>1. CASE base = a
    BY <1>3, <2>1 DEF Alike
  <2>2. CASE base = Staggered(a, run[r].later)
    BY <1>1, <1>3, <2>2, StaggeredFacts
  <2> QED
    BY <2>1, <2>2 DEF a, slot
<1>6. /\ IsPlain(store, now) /\ DOMAIN store = DOMAIN a
      /\ \A j \in DOMAIN a :
           /\ Alike(store[j], base[j]) /\ store[j].marker \in {0, base[j].marker}
           /\ (base[j].enabled => Sound(base[j])) => Sound(store[j])
           /\ Sound(base[j]) => Same(store[j], base[j])
  BY <1>1, <1>4, MaintainedAlone
<1> HIDE DEF store
<1>7. ASSUME NEW j \in DOMAIN store
      PROVE  /\ store[j].enabled => disk[j].enabled
             /\ j \in DOMAIN slot => store[j].marker = 0
             /\ j \notin DOMAIN slot => store[j].marker \in {0, disk[j].marker}
             /\ (j \in DOMAIN slot /\ disk[j].kind = "at" /\ slot[j].how = "ok") => ~store[j].enabled
             /\ (\A i \in DOMAIN disk : Sound(disk[i])) => Sound(store[j])
             /\ (j \notin DOMAIN slot /\ base = a /\ Sound(disk[j])) => Same(store[j], disk[j])
  <2>1. j \in DOMAIN a /\ j \in DOMAIN disk
    BY <1>3, <1>6
  <2>2. store[j].enabled = base[j].enabled /\ base[j].enabled = a[j].enabled
    BY <1>4, <1>6, <2>1 DEF Alike
  <2>3. store[j].marker \in {0, a[j].marker}
    BY <1>4, <1>6, <2>1
  <2>4. CASE j \in DOMAIN slot
    BY <1>3, <1>4, <1>6, <2>1, <2>2, <2>3, <2>4
  <2>5. CASE j \notin DOMAIN slot
    <3>1. a[j] = disk[j]
      BY <1>3, <2>1, <2>5
    <3> QED
      BY <1>4, <1>6, <2>1, <2>2, <2>3, <2>5, <3>1
  <2> QED
    BY <2>4, <2>5
<1> QED
  BY <1>3, <1>6, <1>7 DEF store, slot, a

\* What finishPreparedManualRun merges into the file of what job j of the copy
\* of s became.
IsMerged(merged, s, j) ==
  /\ IsPlain(merged, now) /\ DOMAIN merged \subseteq DOMAIN disk
  /\ \A i \in DOMAIN disk : i # j => i \in DOMAIN merged /\ merged[i] = disk[i]
  /\ j \in DOMAIN merged =>
       /\ merged[j].marker = 0
       /\ merged[j].enabled => merged[j].next # 0 /\ merged[j].last <= merged[j].next
       /\ merged[j].enabled => mem[s][j].enabled
       /\ (mem[s][j].kind = "at" /\ run[<<s, "manual">>].slot[j].how = "ok") =>
             ~merged[j].enabled

LEMMA MergedFacts ==
  ASSUME Types, NEW s \in Services, Active(<<s, "manual">>) = {},
         NEW j \in DOMAIN run[<<s, "manual">>].slot, j \in DOMAIN mem[s],
         NEW keep \in BOOLEAN,
         NEW job, job = Finished(mem[s][j], run[<<s, "manual">>].slot[j], keep),
         NEW merged,
         merged = IF Deleted(mem[s][j], run[<<s, "manual">>].slot[j]) THEN Without(disk, {j})
                  ELSE [i \in DOMAIN disk |->
                    IF i = j THEN [job EXCEPT !.kind = disk[j].kind, !.at = disk[j].at,
                                              !.deletes = disk[j].deletes]
                    ELSE disk[i]]
  PROVE  IsMerged(merged, s, j)
<1> DEFINE res == run[<<s, "manual">>].slot[j]
<1>1. now \in Times /\ IsPlain(disk, now) /\ IsPlain(mem[s], now)
  BY DEF Types, RestType, StoreType
<1>2. IsOutcome(res, now)
  BY OutcomeFacts, ServiceFacts DEF Types
<1>3. IsJob(mem[s][j], now)
  BY <1>1 DEF IsPlain
<1> HIDE DEF res
<1> DEFINE old == mem[s][j]
<1>4. /\ IsJob(job, now) /\ job.marker = 0 /\ job.last = res.from
      /\ job.kind = old.kind /\ job.deletes = old.deletes /\ job.at = old.at
      /\ job.enabled => old.enabled /\ job.next # 0 /\ job.last <= job.next
      /\ (old.kind = "at" /\ res.how = "ok") => ~job.enabled
      /\ (~keep /\ job.enabled) => Sound(job)
  <2> DEFINE f == Finished(old, res, keep)
  <2>1. /\ IsJob(f, now) /\ f.marker = 0 /\ f.last = res.from
        /\ f.kind = old.kind /\ f.deletes = old.deletes /\ f.at = old.at
        /\ f.enabled => old.enabled /\ f.next # 0 /\ f.last <= f.next
        /\ (~keep /\ f.enabled) => Sound(f)
        /\ (old.kind = "at" /\ res.how = "ok") => ~f.enabled
    BY <1>1, <1>2, <1>3, FinishedFacts
  <2>2. job = f
    BY DEF res
  <2> HIDE DEF f, old
  <2> QED
    BY <2>1, <2>2
<1> HIDE DEF old
<1>5. /\ IsPlain(merged, now) /\ DOMAIN merged \subseteq DOMAIN disk
      /\ \A i \in DOMAIN disk : i # j => i \in DOMAIN merged /\ merged[i] = disk[i]
      /\ j \in DOMAIN merged =>
           /\ merged[j].marker = 0 /\ merged[j].last = job.last /\ merged[j].next = job.next
           /\ merged[j].enabled = job.enabled /\ merged[j].kind = disk[j].kind
           /\ merged[j].at = disk[j].at
           /\ merged[j].status = job.status
  <2>1. CASE Deleted(mem[s][j], run[<<s, "manual">>].slot[j])
    <3>1. merged = Without(disk, {j})
      BY <2>1
    <3>2. /\ DOMAIN merged = DOMAIN disk \ {j}
          /\ \A i \in DOMAIN disk : i # j => merged[i] = disk[i]
      BY <3>1 DEF Without, Restrict
    <3> QED
      BY <1>1, <3>2 DEF IsPlain
  <2>2. CASE ~Deleted(mem[s][j], run[<<s, "manual">>].slot[j])
    <3> DEFINE new == [job EXCEPT !.kind = disk[j].kind, !.at = disk[j].at, !.deletes = disk[j].deletes]
    <3>1. merged = [i \in DOMAIN disk |-> IF i = j THEN new ELSE disk[i]]
      BY <2>2
    <3> HIDE DEF new
    <3>2. /\ DOMAIN merged = DOMAIN disk
          /\ \A i \in DOMAIN disk : i # j => merged[i] = disk[i]
          /\ j \in DOMAIN disk => merged[j] = new
      BY <3>1
    <3>3. ASSUME j \in DOMAIN disk
          PROVE  /\ IsJob(new, now)
                 /\ new.marker = 0 /\ new.last = job.last /\ new.next = job.next
                 /\ new.enabled = job.enabled /\ new.kind = disk[j].kind /\ new.at = disk[j].at
                 /\ new.status = job.status
      <4>1. IsJob(disk[j], now)
        BY <1>1, <3>3 DEF IsPlain
      <4>2. /\ new \in Job
            /\ new.marker = 0 /\ new.last = job.last /\ new.next = job.next
            /\ new.enabled = job.enabled /\ new.kind = disk[j].kind /\ new.at = disk[j].at
            /\ new.status = job.status
        BY <1>4, <4>1 DEF new, IsJob, Job
      <4> QED
        BY <1>4, <4>1, <4>2 DEF IsJob
    <3> QED
      BY <1>1, <3>2, <3>3 DEF IsPlain
  <2> QED
    BY <2>1, <2>2
<1> QED
  BY <1>4, <1>5 DEF IsMerged, old, res

\* What is written of it.
LEMMA MergedStore ==
  ASSUME now \in Times, IsPlain(disk, now), NEW j, NEW merged, IsPlain(merged, now),
         DOMAIN merged \subseteq DOMAIN disk,
         \A i \in DOMAIN disk : i # j => i \in DOMAIN merged /\ merged[i] = disk[i],
         j \in DOMAIN merged => merged[j].marker = 0,
         j \in DOMAIN merged =>
           (merged[j].enabled => merged[j].next # 0 /\ merged[j].last <= merged[j].next)
  PROVE  LET store == Maintained(merged, now, TRUE) IN
         /\ IsPlain(store, now) /\ DOMAIN store \subseteq DOMAIN disk
         /\ \A i \in DOMAIN disk : i # j => i \in DOMAIN store
         /\ j \in DOMAIN store =>
              j \in DOMAIN merged /\ store[j].marker = 0 /\ Sound(store[j])
              /\ store[j].enabled = merged[j].enabled
         /\ \A i \in DOMAIN store : i # j =>
              /\ store[i].marker \in {0, disk[i].marker}
              /\ store[i].enabled = disk[i].enabled
              /\ Sound(disk[i]) => Sound(store[i])
              /\ (Sound(disk[i]) /\ disk[i].next # 0) => ~(store[i].next > disk[i].next)
<1> DEFINE store == Maintained(merged, now, TRUE)
<1>1. /\ IsPlain(store, now) /\ DOMAIN store = DOMAIN merged
      /\ \A i \in DOMAIN merged :
           /\ Alike(store[i], merged[i]) /\ store[i].marker \in {0, merged[i].marker}
           /\ (merged[i].enabled => Sound(merged[i])) => Sound(store[i])
           /\ (merged[i].marker = 0 /\ merged[i].next <= now /\ merged[i].last >= merged[i].next) =>
                 Sound(store[i])
  BY MaintainedExpired
<1>2. ASSUME NEW i \in DOMAIN store, i # j
      PROVE  /\ store[i].marker \in {0, disk[i].marker}
             /\ store[i].enabled = disk[i].enabled
             /\ Sound(disk[i]) => Sound(store[i])
             /\ (Sound(disk[i]) /\ disk[i].next # 0) => ~(store[i].next > disk[i].next)
  <2>1. i \in DOMAIN merged /\ merged[i] = disk[i]
    BY <1>1, <1>2
  <2>2. (Sound(merged[i]) /\ merged[i].next # 0) => ~(store[i].next > merged[i].next)
    <3>1. TRUE \in BOOLEAN
      OBVIOUS
    <3> QED
      BY <2>1, <3>1, MaintainedKeeps
  <2> HIDE DEF store
  <2>3. store[i].marker \in {0, merged[i].marker} /\ store[i].enabled = merged[i].enabled
    BY <1>1, <2>1 DEF Alike
  <2>4. Sound(merged[i]) => Sound(store[i])
    BY <1>1, <2>1
  <2> QED
    BY <2>1, <2>2, <2>3, <2>4
<1> HIDE DEF store
<1>3. ASSUME j \in DOMAIN store
      PROVE  /\ j \in DOMAIN merged /\ store[j].marker = 0 /\ Sound(store[j])
             /\ store[j].enabled = merged[j].enabled
  <2>1. j \in DOMAIN merged /\ store[j].marker = 0 /\ store[j].enabled = merged[j].enabled
    BY <1>1, <1>3 DEF Alike
  <2>2. CASE ~merged[j].enabled
    BY <1>1, <2>1, <2>2
  <2>3. CASE merged[j].enabled
    <3>1. /\ merged[j].next # 0 /\ merged[j].last <= merged[j].next /\ merged[j].next \in Nat
          /\ merged[j].last \in Nat /\ merged[j].last <= now /\ merged[j].marker = 0
      BY <2>1, <2>3 DEF IsPlain, IsJob, Job
    <3>2. CASE merged[j].last = merged[j].next
      BY <1>1, <2>1, <3>1, <3>2 DEF Times
    <3>3. CASE merged[j].last # merged[j].next
      <4>1. merged[j].last < merged[j].next
        BY <3>1, <3>3
      <4>2. Sound(merged[j])
        BY <2>3, <3>1, <4>1 DEF Sound
      <4> QED
        BY <1>1, <2>1, <4>2
    <3> QED
      BY <3>2, <3>3
  <2> QED
    BY <2>1, <2>2, <2>3
<1> QED
  BY <1>1, <1>2, <1>3 DEF store

LEMMA SelfFacts ==
  ASSUME RunType
  PROVE  DOMAIN run = Runners /\ \A r \in Runners : IsRunner(run[r], r[2], now) /\ Quiet(run[r], run[r])
BY DEF RunType, Quiet

\* y is x but for the fields in which.
Elsewhere(x, y, which) ==
  /\ IsRecord(y)
  /\ "at" \notin which => y.at = x.at
  /\ "slot" \notin which => y.slot = x.slot
  /\ "own" \notin which => y.own = x.own
  /\ "skip" \notin which => y.skip = x.skip
  /\ "later" \notin which => y.later = x.later
  /\ "asked" \notin which => y.asked = x.asked
  /\ "mode" \notin which => y.mode = x.mode

LEMMA Updates ==
  ASSUME NEW x, IsRecord(x), NEW v
  PROVE  /\ Elsewhere(x, [x EXCEPT !.at = v], {"at"}) /\ [x EXCEPT !.at = v].at = v
         /\ Elsewhere(x, [x EXCEPT !.slot = v], {"slot"}) /\ [x EXCEPT !.slot = v].slot = v
         /\ Elsewhere(x, [x EXCEPT !.skip = v], {"skip"}) /\ [x EXCEPT !.skip = v].skip = v
         /\ Elsewhere(x, [x EXCEPT !.later = v], {"later"}) /\ [x EXCEPT !.later = v].later = v
         /\ Elsewhere(x, [x EXCEPT !.asked = v], {"asked"}) /\ [x EXCEPT !.asked = v].asked = v
         /\ Elsewhere(x, [x EXCEPT !.mode = v], {"mode"}) /\ [x EXCEPT !.mode = v].mode = v
<1>1. Elsewhere(x, [x EXCEPT !.at = v], {"at"}) /\ [x EXCEPT !.at = v].at = v
  BY DEF IsRecord, Elsewhere
<1>2. Elsewhere(x, [x EXCEPT !.slot = v], {"slot"}) /\ [x EXCEPT !.slot = v].slot = v
  BY DEF IsRecord, Elsewhere
<1>3. Elsewhere(x, [x EXCEPT !.skip = v], {"skip"}) /\ [x EXCEPT !.skip = v].skip = v
  BY DEF IsRecord, Elsewhere
<1>4. Elsewhere(x, [x EXCEPT !.later = v], {"later"}) /\ [x EXCEPT !.later = v].later = v
  BY DEF IsRecord, Elsewhere
<1>5. Elsewhere(x, [x EXCEPT !.asked = v], {"asked"}) /\ [x EXCEPT !.asked = v].asked = v
  BY DEF IsRecord, Elsewhere
<1>6. Elsewhere(x, [x EXCEPT !.mode = v], {"mode"}) /\ [x EXCEPT !.mode = v].mode = v
  BY DEF IsRecord, Elsewhere
<1> QED
  BY <1>1, <1>2, <1>3, <1>4, <1>5, <1>6

\* A runner that begins anew.
IsFresh(y, at, slot, skip, later, asked, mode) ==
  /\ IsRecord(y) /\ y.at = at /\ y.slot = slot /\ y.own \in BOOLEAN /\ y.skip = skip
  /\ y.later = later /\ y.asked = asked /\ y.mode = mode

LEMMA IdleUpdates ==
  ASSUME NEW at, NEW slot, NEW more, NEW asked, NEW mode
  PROVE  /\ IsFresh([Idle EXCEPT !.at = at], at, NoJobs, {}, <<>>, 0, "due")
         /\ IsFresh([Idle EXCEPT !.at = at, !.skip = more], at, NoJobs, more, <<>>, 0, "due")
         /\ IsFresh([Idle EXCEPT !.at = at, !.slot = slot], at, slot, {}, <<>>, 0, "due")
         /\ IsFresh([Idle EXCEPT !.at = at, !.slot = slot, !.later = more], at, slot, {}, more, 0, "due")
         /\ IsFresh([Idle EXCEPT !.at = at, !.slot = slot, !.asked = asked, !.mode = mode],
                    at, slot, {}, <<>>, asked, mode)
<1> DEFINE a == [Idle EXCEPT !.at = at]
           b == [a EXCEPT !.slot = slot]
           c == [b EXCEPT !.asked = asked]
<1>1. /\ IsRecord(Idle) /\ Idle.at = "idle" /\ Idle.slot = NoJobs /\ Idle.own = TRUE /\ Idle.skip = {}
      /\ Idle.later = <<>> /\ Idle.asked = 0 /\ Idle.mode = "due"
  BY DEF Idle, IsRecord
<1>2. Idle.own \in BOOLEAN
  BY <1>1
<1>3. IsFresh(a, at, NoJobs, {}, <<>>, 0, "due")
  <2>1. ASSUME NEW x, IsRecord(x)
        PROVE  Elsewhere(x, [x EXCEPT !.at = at], {"at"}) /\ [x EXCEPT !.at = at].at = at
    BY <2>1, Updates, Zenon
  <2>2. Elsewhere(Idle, a, {"at"}) /\ a.at = at
    BY <1>1, <2>1, Zenon
  <2> HIDE DEF a
  <2> QED
    BY <1>1, <1>2, <2>2 DEF IsFresh, Elsewhere
<1> HIDE DEF a
<1>4. ASSUME NEW x, NEW u, NEW so, NEW sk, NEW la, NEW as, NEW mo, NEW v,
             IsFresh(x, u, so, sk, la, as, mo)
      PROVE  /\ IsFresh([x EXCEPT !.slot = v], u, v, sk, la, as, mo)
             /\ IsFresh([x EXCEPT !.skip = v], u, so, v, la, as, mo)
             /\ IsFresh([x EXCEPT !.later = v], u, so, sk, v, as, mo)
             /\ IsFresh([x EXCEPT !.asked = v], u, so, sk, la, v, mo)
             /\ IsFresh([x EXCEPT !.mode = v], u, so, sk, la, as, v)
  <2>1. IsRecord(x)
    BY <1>4 DEF IsFresh
  <2>2. IsFresh([x EXCEPT !.slot = v], u, v, sk, la, as, mo)
    <3> DEFINE y == [x EXCEPT !.slot = v]
    <3>1. Elsewhere(x, y, {"slot"}) /\ y.slot = v
      BY <2>1, Updates, Zenon
    <3> HIDE DEF y
    <3>2. IsFresh(y, u, v, sk, la, as, mo)
      BY <1>4, <3>1 DEF IsFresh, Elsewhere
    <3> QED
      BY <3>2 DEF y
  <2>3. IsFresh([x EXCEPT !.skip = v], u, so, v, la, as, mo)
    <3> DEFINE y == [x EXCEPT !.skip = v]
    <3>1. Elsewhere(x, y, {"skip"}) /\ y.skip = v
      BY <2>1, Updates, Zenon
    <3> HIDE DEF y
    <3>2. IsFresh(y, u, so, v, la, as, mo)
      BY <1>4, <3>1 DEF IsFresh, Elsewhere
    <3> QED
      BY <3>2 DEF y
  <2>4. IsFresh([x EXCEPT !.later = v], u, so, sk, v, as, mo)
    <3> DEFINE y == [x EXCEPT !.later = v]
    <3>1. Elsewhere(x, y, {"later"}) /\ y.later = v
      BY <2>1, Updates, Zenon
    <3> HIDE DEF y
    <3>2. IsFresh(y, u, so, sk, v, as, mo)
      BY <1>4, <3>1 DEF IsFresh, Elsewhere
    <3> QED
      BY <3>2 DEF y
  <2>5. IsFresh([x EXCEPT !.asked = v], u, so, sk, la, v, mo)
    <3> DEFINE y == [x EXCEPT !.asked = v]
    <3>1. Elsewhere(x, y, {"asked"}) /\ y.asked = v
      BY <2>1, Updates, Zenon
    <3> HIDE DEF y
    <3>2. IsFresh(y, u, so, sk, la, v, mo)
      BY <1>4, <3>1 DEF IsFresh, Elsewhere
    <3> QED
      BY <3>2 DEF y
  <2>6. IsFresh([x EXCEPT !.mode = v], u, so, sk, la, as, v)
    <3> DEFINE y == [x EXCEPT !.mode = v]
    <3>1. Elsewhere(x, y, {"mode"}) /\ y.mode = v
      BY <2>1, Updates, Zenon
    <3> HIDE DEF y
    <3>2. IsFresh(y, u, so, sk, la, as, v)
      BY <1>4, <3>1 DEF IsFresh, Elsewhere
    <3> QED
      BY <3>2 DEF y
  <2> QED BY <2>2, <2>3, <2>4, <2>5, <2>6
<1>5. IsFresh(b, at, slot, {}, <<>>, 0, "due")
  BY <1>3, <1>4
<1> HIDE DEF b
<1>6. IsFresh(c, at, slot, {}, <<>>, asked, "due")
  BY <1>4, <1>5
<1> HIDE DEF c
<1>7. /\ [Idle EXCEPT !.at = at] = a
      /\ [Idle EXCEPT !.at = at, !.skip = more] = [a EXCEPT !.skip = more]
      /\ [Idle EXCEPT !.at = at, !.slot = slot] = b
      /\ [Idle EXCEPT !.at = at, !.slot = slot, !.later = more] = [b EXCEPT !.later = more]
      /\ [Idle EXCEPT !.at = at, !.slot = slot, !.asked = asked, !.mode = mode] = [c EXCEPT !.mode = mode]
  BY DEF a, b, c
<1>8. /\ IsFresh([a EXCEPT !.skip = more], at, NoJobs, more, <<>>, 0, "due")
      /\ IsFresh([b EXCEPT !.later = more], at, slot, {}, more, 0, "due")
      /\ IsFresh([c EXCEPT !.mode = mode], at, slot, {}, <<>>, asked, mode)
  BY <1>3, <1>4, <1>5, <1>6
<1> QED
  BY <1>3, <1>5, <1>7, <1>8

LEMMA FreshFacts ==
  ASSUME NEW at \in Steps, NEW slot, DOMAIN slot \subseteq Jobs, NEW t \in Times,
         \A j \in DOMAIN slot : IsSlot(slot[j], t),
         NEW skip \in SUBSET Jobs, NEW later \in Seq(Jobs), NEW asked \in Nat, asked <= t,
         NEW mode \in {"due", "force"}, NEW role,
         at \in {"clear", "plan", "final"} => role = "start",
         at = "reserve" => role = "manual",
         (role = "manual" /\ at # "idle") => asked # 0 /\ \E j \in Jobs : DOMAIN slot = {j},
         NEW y, IsFresh(y, at, slot, skip, later, asked, mode)
  PROVE  IsRunner(y, role, t)
BY DEF IsFresh, IsRunner

LEMMA EmptyFacts ==
  /\ DOMAIN NoJobs = {} /\ <<>> \in Seq(Jobs) /\ {} \in SUBSET Jobs /\ 0 \in Nat
  /\ {"idle", "clear", "plan", "bodies", "final", "reserve"} \subseteq Steps
  /\ "due" \in {"due", "force"}
BY DEF NoJobs, Steps

LEMMA AtFacts ==
  ASSUME NEW x, NEW role, NEW t, IsRunner(x, role, t), NEW v \in Steps,
         v \in {"clear", "plan", "final"} => role = "start",
         v = "reserve" => role = "manual",
         (role = "manual" /\ v # "idle") => x.at # "idle"
  PROVE  LET y == [x EXCEPT !.at = v] IN
         /\ IsRunner(y, role, t) /\ y.at = v /\ y.slot = x.slot /\ y.asked = x.asked
         /\ y.mode = x.mode /\ y.later = x.later /\ y.skip = x.skip /\ y.own = x.own
<1> DEFINE y == [x EXCEPT !.at = v]
<1>1. IsRecord(x)
  BY DEF IsRunner
<1>2. /\ IsRecord(y) /\ y.at = v /\ y.slot = x.slot /\ y.asked = x.asked
      /\ y.mode = x.mode /\ y.later = x.later /\ y.skip = x.skip /\ y.own = x.own
  BY <1>1 DEF IsRecord
<1> HIDE DEF y
<1>3. IsRunner(y, role, t)
  BY <1>2 DEF IsRunner
<1> QED
  BY <1>2, <1>3 DEF y

LEMMA SlotFacts ==
  ASSUME NEW x, NEW role, NEW t, IsRunner(x, role, t), NEW j \in DOMAIN x.slot,
         NEW w, IsSlot(w, t)
  PROVE  LET y == [x EXCEPT !.slot[j] = w] IN
         /\ IsRunner(y, role, t) /\ y.at = x.at /\ DOMAIN y.slot = DOMAIN x.slot /\ y.slot[j] = w
         /\ \A i \in DOMAIN x.slot : i # j => y.slot[i] = x.slot[i]
         /\ y.asked = x.asked /\ y.mode = x.mode
<1> DEFINE y == [x EXCEPT !.slot[j] = w]
<1>1. IsRecord(x)
  BY DEF IsRunner
<1>2. /\ IsRecord(y) /\ y.at = x.at /\ y.slot = [x.slot EXCEPT ![j] = w] /\ y.asked = x.asked
      /\ y.mode = x.mode /\ y.later = x.later /\ y.skip = x.skip /\ y.own = x.own
  BY <1>1 DEF IsRecord
<1> HIDE DEF y
<1>3. /\ DOMAIN y.slot = DOMAIN x.slot /\ y.slot[j] = w
      /\ \A i \in DOMAIN x.slot : i # j => y.slot[i] = x.slot[i]
  BY <1>2
<1>4. \A i \in DOMAIN y.slot : IsSlot(y.slot[i], t)
  BY <1>3 DEF IsRunner
<1>5. IsRunner(y, role, t)
  BY <1>2, <1>3, <1>4 DEF IsRunner
<1> QED
  BY <1>2, <1>3, <1>5 DEF y

-----------------------------------------------------------------------------
(* Every action keeps the types                                             *)

LEMMA ClearTypes == ASSUME Types, NEW s \in Services, Clear(s) PROVE Types'
<1> DEFINE marked == {j \in DOMAIN disk : disk[j].marker # 0}
           y == [Idle EXCEPT !.at = "plan", !.skip = marked]
<1>1. IsPlain(Marked(disk, marked, 0), now) /\ DOMAIN Marked(disk, marked, 0) = DOMAIN disk
  BY MarkedFacts DEF Types, StoreType
<1>2. StoreType'
  BY <1>1, StoreStep DEF Types, StoreType, Clear
<1>3. IsRunner(y, "start", now)
  <2>1. IsFresh(y, "plan", NoJobs, marked, <<>>, 0, "due")
    BY IdleUpdates, Zenon
  <2>2. marked \in SUBSET Jobs /\ now \in Times
    BY DEF Types, RestType, StoreType, IsPlain
  <2> HIDE DEF y, marked
  <2>3. 0 <= now
    BY <2>2 DEF Times
  <2> QED
    BY <2>1, <2>2, <2>3, EmptyFacts, FreshFacts
<1>4. RunType'
  <2>1. run' = [run EXCEPT ![<<s, "start">>] = y] /\ now' = now
    BY DEF Clear
  <2> HIDE DEF y
  <2> QED
    BY <1>3, <2>1, RunStep, SelfFacts, ServiceFacts DEF Types
<1> QED
  BY <1>2, <1>4 DEF Types, RestType, Clear

LEMMA FinishStartTypes == ASSUME Types, NEW s \in Services, FinishStart(s) PROVE Types'
<1> DEFINE store == Recomputed(disk, now)
<1>1. now \in Times /\ IsPlain(disk, now) /\ RunType
  BY DEF Types, RestType, StoreType
<1>2. IsPlain(store, now) /\ DOMAIN store = DOMAIN disk
  BY <1>1, RecomputedFacts
<1> HIDE DEF store
<1>3. StoreType'
  BY <1>2, StoreStep DEF Types, StoreType, FinishStart, store
<1>4. RunType'
  BY <1>1, RunStep, DetachedFacts, ServiceFacts, IdleFacts DEF FinishStart
<1>5. armed' \subseteq Services
  BY DEF Types, RestType, FinishStart, ArmTimer
<1>6. excused' \subseteq Jobs
  BY <1>2, ExcuseType DEF FinishStart, store
<1> QED
  BY <1>3, <1>4, <1>5, <1>6 DEF Types, RestType, FinishStart

LEMMA FinishCatchupTypes == ASSUME Types, NEW s \in Services, FinishCatchup(s) PROVE Types'
<1> DEFINE p == <<s, "start">>
           slot == run[p].slot
           base == Staggered(Applied(disk, slot), run[p].later)
           store == Maintained(base, now, FALSE)
           y == [Detached(s)[p] EXCEPT !.at = "final"]
<1>1. p \in Runners /\ Active(p) = {} /\ RunType /\ run[p].at = "bodies" /\ p[2] = "start"
  BY ServiceFacts DEF FinishCatchup, Starting, Types
<1>2. IsPlain(store, now) /\ DOMAIN store \subseteq DOMAIN disk
  BY <1>1, RecordedFacts
<1>3. /\ Persist(s, store) /\ Record(disk, slot) /\ Excuse(store)
      /\ run' = [Detached(s) EXCEPT ![p].at = "final"]
  BY DEF FinishCatchup
<1> HIDE DEF store
<1>4. StoreType'
  BY <1>2, <1>3, StoreStep DEF Types, StoreType, FinishCatchup
<1>5. RunType'
  <2>1. IsRunner(Detached(s)[p], "start", now)
    BY <1>1, DetachedFacts
  <2>2. IsRunner(y, "start", now)
    <3> DEFINE x == Detached(s)[p]
    <3>1. "final" \in Steps
      BY DEF Steps
    <3> HIDE DEF x
    <3>2. IsRunner([x EXCEPT !.at = "final"], "start", now)
      BY <2>1, <3>1, AtFacts DEF x
    <3> QED
      BY <3>2 DEF x
  <2>3. run' = [Detached(s) EXCEPT ![p] = y]
    BY <1>3
  <2> HIDE DEF y
  <2> QED
    BY <1>1, <2>2, <2>3, RunStep, DetachedFacts DEF FinishCatchup
<1>6. excused' \subseteq Jobs
  BY <1>2, <1>3, ExcuseType
<1>7. done' \subseteq born
  BY <1>3 DEF Types, RestType, StoreType, Record
<1> QED
  BY <1>4, <1>5, <1>6, <1>7 DEF Types, RestType, FinishCatchup

LEMMA PlanFacts ==
  ASSUME Types, NEW s \in Services, Plan(s)
  PROVE  \/ run' = [run EXCEPT ![<<s, "start">>].at = "final"] /\ UNCHANGED <<disk, mem>>
         \/ \E first, later :
              /\ first \subseteq {j \in DOMAIN mem[s] : Missed(mem[s][j], now)}
              /\ later \in Seq(Jobs)
              /\ Persist(s, Marked(mem[s], first, now))
              /\ run' = [run EXCEPT ![<<s, "start">>] =
                   [Idle EXCEPT !.at = "bodies", !.slot = [j \in first |-> Waiting], !.later = later]]
<1> DEFINE missed == {j \in DOMAIN mem[s] : Missed(mem[s][j], now)} \ run[<<s, "start">>].skip
           n == Cardinality(missed)
<1>1. missed \subseteq Jobs /\ missed \subseteq {j \in DOMAIN mem[s] : Missed(mem[s][j], now)}
  BY DEF Types, StoreType, IsPlain
<1>2. n \in Nat
  BY <1>1, Constants, FS_Subset, FS_CardinalityType
<1>3. CASE missed = {}
  BY <1>3 DEF Plan
<1>4. CASE missed # {}
  <2>1. PICK order \in Sorted(mem[s], missed) :
          LET first == {order[i] : i \in {k \in DOMAIN order : k <= MaxImmediate}}
          IN  /\ Persist(s, Marked(mem[s], first, now))
              /\ run' = [run EXCEPT ![<<s, "start">>] =
                   [Idle EXCEPT !.at = "bodies", !.slot = [j \in first |-> Waiting],
                                !.later = SubSeq(order, MaxImmediate + 1, Len(order))]]
    BY <1>4 DEF Plan
  <2> HIDE DEF missed
  <2>2. order \in [1 .. n -> missed]
    BY DEF Sorted, Injection
  <2> HIDE DEF n
  <2> DEFINE first == {order[i] : i \in {k \in DOMAIN order : k <= MaxImmediate}}
             later == SubSeq(order, MaxImmediate + 1, Len(order))
  <2>3. first \subseteq missed
    BY <2>2
  <2>4. later \in Seq(Jobs)
    <3>1. Len(order) = n
      BY <1>2, <2>2
    <3>2. \A i \in MaxImmediate + 1 .. n : order[i] \in Jobs
      <4>1. \A i \in MaxImmediate + 1 .. n : i \in 1 .. n
        BY <1>2, Constants
      <4> QED
        BY <1>1, <2>2, <4>1
    <3>3. MaxImmediate + 1 \in Int /\ n \in Int
      BY <1>2, Constants
    <3> QED
      BY <3>1, <3>2, <3>3, SubSeqProperties
  <2>5. /\ Persist(s, Marked(mem[s], first, now))
        /\ run' = [run EXCEPT ![<<s, "start">>] =
             [Idle EXCEPT !.at = "bodies", !.slot = [j \in first |-> Waiting], !.later = later]]
    BY <2>1
  <2> HIDE DEF first, later
  <2>6. first \subseteq {j \in DOMAIN mem[s] : Missed(mem[s][j], now)}
    BY <1>1, <2>3
  <2> QED
    BY <2>4, <2>5, <2>6
<1> QED
  BY <1>3, <1>4

\* A runner takes the jobs js, none of which has begun.
LEMMA TakenFacts ==
  ASSUME Types, NEW js \in SUBSET Jobs
  PROVE  \A j \in DOMAIN [i \in js |-> Waiting] : IsSlot([i \in js |-> Waiting][j], now)
BY WaitingFacts

LEMMA PlanTypes == ASSUME Types, NEW s \in Services, Plan(s) PROVE Types'
<1>1. <<s, "start">> \in Runners /\ RunType /\ now \in Times /\ now' = now /\ 0 <= now
  <2>1. now' = now
    BY DEF Plan
  <2>2. <<s, "start">> \in Runners
    BY ServiceFacts
  <2>3. RunType /\ now \in Times
    BY DEF Types, RestType
  <2>4. 0 <= now
    BY <2>3 DEF Times
  <2> QED
    BY <2>1, <2>2, <2>3, <2>4
<1>2. CASE run' = [run EXCEPT ![<<s, "start">>].at = "final"] /\ UNCHANGED <<disk, mem>>
  <2> DEFINE x == run[<<s, "start">>]
             y == [x EXCEPT !.at = "final"]
  <2>1. IsRunner(y, "start", now)
    <3>1. IsRunner(x, "start", now)
      BY <1>1 DEF RunType
    <3> HIDE DEF x
    <3> QED
      BY <3>1, EmptyFacts, AtFacts
  <2>2. run' = [run EXCEPT ![<<s, "start">>] = y]
    BY <1>2
  <2> HIDE DEF y
  <2>3. RunType'
    BY <1>1, <2>1, <2>2, RunStep, SelfFacts
  <2> QED
    BY <1>2, <2>3 DEF Types, RestType, StoreType, Plan
<1>3. ASSUME NEW first, NEW later,
             first \subseteq {j \in DOMAIN mem[s] : Missed(mem[s][j], now)}, later \in Seq(Jobs),
             Persist(s, Marked(mem[s], first, now)),
             run' = [run EXCEPT ![<<s, "start">>] =
               [Idle EXCEPT !.at = "bodies", !.slot = [j \in first |-> Waiting], !.later = later]]
      PROVE  Types'
  <2> DEFINE slot == [j \in first |-> Waiting]
             y == [Idle EXCEPT !.at = "bodies", !.slot = slot, !.later = later]
  <2>1. IsPlain(mem[s], now) /\ DOMAIN mem[s] \subseteq born /\ now \in Nat
    BY <1>1 DEF Types, StoreType, Times
  <2>2. first \in SUBSET Jobs
    BY <1>3, <2>1 DEF IsPlain
  <2>3. IsPlain(Marked(mem[s], first, now), now) /\ DOMAIN Marked(mem[s], first, now) = DOMAIN mem[s]
    BY <2>1, MarkedFacts
  <2>4. StoreType'
    BY <1>1, <1>3, <2>1, <2>3, StoreStep DEF Plan
  <2>5. IsRunner(y, "start", now)
    <3>1. IsFresh(y, "bodies", slot, {}, later, 0, "due")
      BY IdleUpdates, Zenon
    <3>2. DOMAIN slot \subseteq Jobs /\ \A j \in DOMAIN slot : IsSlot(slot[j], now)
      BY <2>2, TakenFacts
    <3> HIDE DEF y, slot
    <3> QED
      BY <1>1, <1>3, <3>1, <3>2, EmptyFacts, FreshFacts
  <2>6. run' = [run EXCEPT ![<<s, "start">>] = y]
    BY <1>3
  <2> HIDE DEF y
  <2>7. RunType'
    BY <1>1, <2>5, <2>6, RunStep, SelfFacts
  <2> QED
    BY <2>4, <2>7 DEF Types, RestType, Plan
<1> QED
  BY <1>2, <1>3, PlanFacts

LEMMA StartBodyTypes ==
  ASSUME Types, NEW r \in Runners, NEW j \in Jobs, StartBody(r, j) PROVE Types'
<1> DEFINE x == run[r]
           w == [Waiting EXCEPT !.st = "running", !.from = now]
           y == [x EXCEPT !.slot[j] = w]
<1>1. RunType /\ now \in Times /\ now' = now /\ r[1] \in Services /\ j \in DOMAIN x.slot
  BY ServiceFacts DEF Types, RestType, StartBody
<1>2. IsSlot(w, now)
  <2>1. w \in Slot /\ w.st = "running" /\ w.from = now
    BY <1>1, WaitingFacts DEF Slot, Times
  <2> HIDE DEF w
  <2> QED
    BY <1>1, <2>1 DEF IsSlot, Times
<1>3. IsRunner(x, r[2], now)
  BY <1>1 DEF RunType
<1>4. run' = [run EXCEPT ![r] = y]
  BY DEF StartBody
<1>5. IsRunner(y, r[2], now)
  <2> HIDE DEF x, w
  <2> QED
    BY <1>1, <1>2, <1>3, SlotFacts
<1> HIDE DEF y
<1>6. RunType'
  BY <1>1, <1>4, <1>5, RunStep, SelfFacts
<1>7. StoreType'
  <2>1. CASE mem' = mem
    BY <2>1 DEF Types, StoreType, StartBody
  <2>2. CASE j \in DOMAIN mem[r[1]] /\ mem' = [mem EXCEPT ![r[1]][j].marker = now]
    <3> DEFINE f == mem[r[1]]
               job == [f[j] EXCEPT !.marker = now]
               g == [f EXCEPT ![j] = job]
    <3>1. IsPlain(f, now) /\ DOMAIN f \subseteq born /\ IsJob(f[j], now)
      BY <1>1, <2>2 DEF Types, StoreType, IsPlain
    <3>2. IsJob(job, now)
      <4>1. f[j] \in Job
        BY <3>1 DEF IsJob
      <4>2. job \in Job /\ job.at = f[j].at /\ job.last = f[j].last
        BY <1>1, <4>1 DEF Job, Times
      <4> QED
        BY <3>1, <4>2 DEF IsJob
    <3>3. mem' = [mem EXCEPT ![r[1]] = g]
      BY <2>2
    <3> HIDE DEF job
    <3>4. DOMAIN g = DOMAIN f /\ \A i \in DOMAIN f : g[i] = IF i = j THEN job ELSE f[i]
      OBVIOUS
    <3> HIDE DEF g
    <3>5. IsPlain(g, now) /\ DOMAIN g \subseteq born
      BY <3>1, <3>2, <3>4 DEF IsPlain
    <3> QED
      BY <1>1, <3>3, <3>5 DEF Types, StoreType, StartBody
  <2> QED
    BY <2>1, <2>2 DEF StartBody
<1> QED
  BY <1>6, <1>7 DEF Types, RestType, StartBody

LEMMA EndBodyTypes ==
  ASSUME Types, NEW r \in Runners, NEW j \in Jobs, NEW how \in Outcomes, EndBody(r, j, how)
  PROVE  Types'
<1> DEFINE x == run[r]
           w == [x.slot[j] EXCEPT !.st = "done", !.to = now, !.how = how]
           y == [x EXCEPT !.slot[j] = w]
<1>1. RunType /\ now \in Times /\ now' = now /\ j \in DOMAIN x.slot /\ x.slot[j].st = "running"
  BY DEF Types, RestType, EndBody, Running
<1>2. IsRunner(x, r[2], now) /\ IsSlot(x.slot[j], now)
  BY <1>1 DEF RunType, IsRunner
<1>3. IsSlot(w, now)
  <2>1. w \in Slot /\ w.st = "done" /\ w.to = now /\ w.how = how /\ w.from = x.slot[j].from
    BY <1>1, <1>2 DEF IsSlot, Slot, Times
  <2> HIDE DEF w
  <2> QED
    BY <1>1, <1>2, <2>1 DEF IsSlot, Times
<1>4. run' = [run EXCEPT ![r] = y]
  BY DEF EndBody
<1>5. IsRunner(y, r[2], now)
  <2> HIDE DEF x, w
  <2> QED
    BY <1>1, <1>2, <1>3, SlotFacts
<1> HIDE DEF y
<1>6. RunType'
  BY <1>1, <1>4, <1>5, RunStep, SelfFacts
<1> QED
  BY <1>6 DEF Types, RestType, StoreType, EndBody

LEMMA TickTypes == ASSUME Types, NEW s \in Services, Tick(s) PROVE Types'
<1> DEFINE due == {j \in DOMAIN disk : Due(disk[j], now)}
           kept == Maintained(disk, now, TRUE)
           slot == [j \in due |-> Waiting]
           y == [Idle EXCEPT !.at = "bodies", !.slot = slot]
<1>1. RunType /\ now \in Times /\ now \in Nat /\ 0 <= now /\ IsPlain(disk, now) /\ DOMAIN disk \subseteq born
  BY DEF Types, RestType, StoreType, Times
<1>2. now' = now /\ UNCHANGED <<service, up, born, events, done>>
  BY DEF Tick
<1>3. <<s, "tick">> \in Runners
  BY ServiceFacts
<1>4. due \in SUBSET Jobs
  BY <1>1 DEF IsPlain
<1>5. CASE Persist(s, kept) /\ ArmTimer(s, kept) /\ run' = Detached(s) /\ Excuse(kept)
  <2>1. IsPlain(kept, now) /\ DOMAIN kept = DOMAIN disk
    BY <1>1, MaintainedExpired
  <2> HIDE DEF kept
  <2>2. StoreType'
    BY <1>1, <1>2, <1>5, <2>1, StoreStep
  <2>3. RunType'
    BY <1>1, <1>2, <1>5, DetachedFacts DEF RunType
  <2>4. excused' \subseteq Jobs
    BY <1>5, <2>1, ExcuseType
  <2>5. armed' \subseteq Services
    BY <1>5 DEF Types, RestType, ArmTimer
  <2> QED
    BY <1>2, <2>2, <2>3, <2>4, <2>5 DEF Types, RestType
<1>6. CASE /\ Persist(s, Marked(disk, due, now)) /\ run' = [Detached(s) EXCEPT ![<<s, "tick">>] = y]
           /\ UNCHANGED <<armed, excused>>
  <2>1. IsPlain(Marked(disk, due, now), now) /\ DOMAIN Marked(disk, due, now) = DOMAIN disk
    BY <1>1, MarkedFacts
  <2>2. StoreType'
    BY <1>1, <1>2, <1>6, <2>1, StoreStep
  <2>3. IsRunner(y, "tick", now)
    <3>1. IsFresh(y, "bodies", slot, {}, <<>>, 0, "due")
      BY IdleUpdates, Zenon
    <3>2. DOMAIN slot \subseteq Jobs /\ \A j \in DOMAIN slot : IsSlot(slot[j], now)
      BY <1>4, TakenFacts
    <3> HIDE DEF y, slot
    <3> QED
      BY <1>1, <3>1, <3>2, EmptyFacts, FreshFacts
  <2> HIDE DEF y
  <2>4. RunType'
    BY <1>1, <1>2, <1>3, <1>6, <2>3, RunStep, DetachedFacts
  <2> QED
    BY <1>2, <1>6, <2>2, <2>4 DEF Types, RestType
<1> QED
  BY <1>5, <1>6 DEF Tick

LEMMA FinishTickTypes == ASSUME Types, NEW s \in Services, FinishTick(s) PROVE Types'
<1> DEFINE p == <<s, "tick">>
           slot == run[p].slot
           base == Applied(disk, slot)
           store == Maintained(base, now, FALSE)
<1>1. p \in Runners /\ Active(p) = {} /\ RunType
  BY ServiceFacts DEF FinishTick, Types
<1>2. IsPlain(store, now) /\ DOMAIN store \subseteq DOMAIN disk
  BY <1>1, RecordedFacts
<1>3. /\ Persist(s, store) /\ Record(disk, slot) /\ Excuse(store) /\ ArmTimer(s, store)
      /\ run' = [Detached(s) EXCEPT ![p] = Idle] /\ now' = now /\ born' = born
  BY DEF FinishTick
<1> HIDE DEF store
<1>4. StoreType'
  BY <1>2, <1>3, StoreStep DEF Types, StoreType
<1>5. RunType'
  <2>1. IsRunner(Idle, "tick", now)
    BY IdleFacts DEF Types, RestType
  <2> QED
    BY <1>1, <1>3, <2>1, RunStep, DetachedFacts
<1>6. excused' \subseteq Jobs
  BY <1>2, <1>3, ExcuseType
<1>7. done' \subseteq born
  BY <1>3 DEF Types, RestType, StoreType, Record
<1>8. armed' \subseteq Services
  BY <1>3 DEF Types, RestType, ArmTimer
<1> QED
  BY <1>3, <1>4, <1>5, <1>6, <1>7, <1>8 DEF Types, RestType, FinishTick

LEMMA AskTypes ==
  ASSUME Types, NEW s \in Services, NEW j \in Jobs, NEW mode \in Modes, Ask(s, j, mode)
  PROVE  Types'
<1> DEFINE store == Maintained(mem[s], now, FALSE)
           slot == [i \in {j} |-> Waiting]
           y == [Idle EXCEPT !.at = "reserve", !.slot = slot, !.asked = now, !.mode = mode]
<1>1. /\ RunType /\ now \in Times /\ now \in Nat /\ now # 0 /\ now <= now
      /\ IsPlain(mem[s], now) /\ DOMAIN mem[s] \subseteq born
  BY DEF Types, RestType, StoreType, Times
<1>2. now' = now /\ UNCHANGED <<disk, service, up, armed, born, done>> /\ Counted
  BY DEF Ask
<1>3. mem' = [mem EXCEPT ![s] = store] /\ Excuse(store)
  BY DEF Ask
<1>4. IsPlain(store, now) /\ DOMAIN store = DOMAIN mem[s]
  BY <1>1, MaintainedAlone
<1>5. run' = run \/ run' = [run EXCEPT ![<<s, "manual">>] = y]
  BY DEF Ask
<1> HIDE DEF store
<1>6. StoreType'
  BY <1>1, <1>2, <1>3, <1>4 DEF Types, StoreType
<1>7. RunType'
  <2>1. IsRunner(y, "manual", now)
    <3>1. IsFresh(y, "reserve", slot, {}, <<>>, now, mode)
      BY IdleUpdates, Zenon
    <3>2. DOMAIN slot \subseteq Jobs /\ \A i \in DOMAIN slot : IsSlot(slot[i], now)
      BY WaitingFacts
    <3>3. \E i \in Jobs : DOMAIN slot = {i}
      OBVIOUS
    <3>4. mode \in {"due", "force"}
      BY Constants
    <3> HIDE DEF y, slot
    <3> QED
      BY <1>1, <3>1, <3>2, <3>3, <3>4, EmptyFacts DEF IsFresh, IsRunner
  <2>2. <<s, "manual">> \in Runners
    BY ServiceFacts
  <2>3. CASE run' = run
    BY <1>1, <1>2, <2>3 DEF RunType
  <2>4. CASE run' = [run EXCEPT ![<<s, "manual">>] = y]
    BY <1>1, <1>2, <2>1, <2>2, <2>4, RunStep, SelfFacts
  <2> QED
    BY <1>5, <2>3, <2>4
<1>8. excused' \subseteq Jobs
  BY <1>3, <1>4, ExcuseType
<1>9. events' \in 0 .. MaxEvents
  BY <1>2, CountedFacts
<1> QED
  BY <1>2, <1>6, <1>7, <1>8, <1>9 DEF Types, RestType

\* What the second look at the marker leads to.
LEMMA ReserveFacts ==
  ASSUME Types, NEW s \in Services, Reserve(s)
  PROVE  \E j \in Jobs :
           /\ DOMAIN run[<<s, "manual">>].slot = {j} /\ run[<<s, "manual">>].asked \in Times
           /\ run[<<s, "manual">>].asked <= now
           /\ \/ /\ j \in DOMAIN mem[s] /\ mem[s][j].marker = 0
                 /\ Persist(s, Marked(mem[s], {j}, run[<<s, "manual">>].asked))
                 /\ \E y : /\ IsRunner(y, "manual", now) /\ y.at = "bodies" /\ DOMAIN y.slot = {j}
                           /\ run' = [run EXCEPT ![<<s, "manual">>] = y]
              \/ run' = [run EXCEPT ![<<s, "manual">>] = Idle] /\ UNCHANGED <<disk, mem>>
<1> DEFINE p == <<s, "manual">>
           x == run[p]
<1>1. p \in Runners
  BY ServiceFacts
<1>2. IsRunner(x, "manual", now) /\ x.at = "reserve"
  BY <1>1 DEF Types, RunType, Reserve
<1>3. PICK j \in Jobs : DOMAIN x.slot = {j}
  BY <1>2 DEF IsRunner
<1>4. x.asked \in Times /\ x.asked <= now
  BY <1>2 DEF IsRunner, Times
<1> DEFINE w == [Waiting EXCEPT !.st = "running", !.from = x.asked]
           u == [x EXCEPT !.at = "bodies"]
           y == [u EXCEPT !.slot[j] = w]
<1>5. \/ /\ j \in DOMAIN mem[s] /\ mem[s][j].marker = 0
         /\ Persist(s, Marked(mem[s], {j}, x.asked))
         /\ run' = [run EXCEPT ![p].at = "bodies", ![p].slot[j] = w]
      \/ run' = [run EXCEPT ![p] = Idle] /\ UNCHANGED <<disk, mem>>
  BY <1>3 DEF Reserve
<1>6. IsSlot(w, now)
  <2>1. w \in Slot /\ w.st = "running" /\ w.from = x.asked
    BY <1>4, WaitingFacts DEF Slot, Times
  <2> HIDE DEF w
  <2> QED
    BY <1>4, <2>1 DEF IsSlot, Times
<1>7. IsRunner(u, "manual", now) /\ u.at = "bodies" /\ u.slot = x.slot
  <2> HIDE DEF x
  <2> QED
    BY <1>2, EmptyFacts, AtFacts
<1>8. IsRunner(y, "manual", now) /\ y.at = "bodies" /\ DOMAIN y.slot = {j}
  <2> HIDE DEF u, w
  <2> QED
    BY <1>3, <1>6, <1>7, SlotFacts
<1>9. ASSUME run' = [run EXCEPT ![p].at = "bodies", ![p].slot[j] = w]
      PROVE  run' = [run EXCEPT ![p] = y]
  BY <1>1, <1>9 DEF Types, RunType
<1> HIDE DEF y
<1> QED
  BY <1>3, <1>4, <1>5, <1>8, <1>9

LEMMA ReserveTypes == ASSUME Types, NEW s \in Services, Reserve(s) PROVE Types'
<1> DEFINE p == <<s, "manual">>
           x == run[p]
<1>1. /\ RunType /\ now \in Times /\ IsPlain(mem[s], now) /\ DOMAIN mem[s] \subseteq born
      /\ now' = now /\ UNCHANGED <<service, up, armed, born, events, done, excused>>
  BY DEF Types, RestType, StoreType, Reserve
<1>2. PICK j \in Jobs :
        /\ x.asked \in Times
        /\ \/ /\ Persist(s, Marked(mem[s], {j}, x.asked))
              /\ \E y : IsRunner(y, "manual", now) /\ run' = [run EXCEPT ![p] = y]
           \/ run' = [run EXCEPT ![p] = Idle] /\ UNCHANGED <<disk, mem>>
  BY ReserveFacts
<1>3. PICK y : IsRunner(y, "manual", now) /\ run' = [run EXCEPT ![p] = y]
  BY <1>1, <1>2, IdleFacts
<1>4. RunType'
  BY <1>1, <1>3, RunStep, SelfFacts, ServiceFacts
<1>5. StoreType'
  <2>1. IsPlain(Marked(mem[s], {j}, x.asked), now) /\ DOMAIN Marked(mem[s], {j}, x.asked) = DOMAIN mem[s]
    BY <1>1, <1>2, MarkedFacts DEF Times
  <2>2. CASE Persist(s, Marked(mem[s], {j}, x.asked))
    BY <1>1, <2>1, <2>2, StoreStep
  <2>3. CASE UNCHANGED <<disk, mem>>
    BY <1>1, <2>3 DEF Types, StoreType
  <2> QED
    BY <1>2, <2>2, <2>3
<1> QED
  BY <1>1, <1>4, <1>5 DEF Types, RestType

LEMMA FinishManualFacts ==
  ASSUME Types, NEW s \in Services, FinishManual(s)
  PROVE  \E j \in Jobs :
           /\ DOMAIN run[<<s, "manual">>].slot = {j} /\ run[<<s, "manual">>].at = "bodies"
           /\ \/ /\ j \in DOMAIN mem[s]
                 /\ run' = [Detached(s) EXCEPT ![<<s, "manual">>] = Idle]
                 /\ Record(mem[s], run[<<s, "manual">>].slot)
                 /\ \E merged : /\ IsMerged(merged, s, j)
                                /\ Persist(s, Maintained(merged, now, TRUE))
                                /\ ArmTimer(s, Maintained(merged, now, TRUE))
                                /\ Excuse(Maintained(merged, now, TRUE))
              \/ /\ j \notin DOMAIN mem[s]
                 /\ run' = [run EXCEPT ![<<s, "manual">>] = Idle]
                 /\ UNCHANGED <<disk, mem, armed, done, excused>>
<1> DEFINE p == <<s, "manual">>
           x == run[p]
<1>1. p \in Runners
  BY ServiceFacts
<1>2. IsRunner(x, "manual", now) /\ x.at = "bodies" /\ Active(p) = {}
  BY <1>1 DEF Types, RunType, FinishManual
<1>3. PICK j \in Jobs : DOMAIN x.slot = {j}
  BY <1>2 DEF IsRunner
<1> DEFINE keep == x.mode = "force"
           job == Finished(mem[s][j], x.slot[j], keep)
           merged == IF Deleted(mem[s][j], x.slot[j]) THEN Without(disk, {j})
                     ELSE [i \in DOMAIN disk |->
                       IF i = j THEN [job EXCEPT !.kind = disk[j].kind, !.at = disk[j].at,
                                                 !.deletes = disk[j].deletes]
                       ELSE disk[i]]
<1>4. \/ /\ j \in DOMAIN mem[s]
         /\ Persist(s, Maintained(merged, now, TRUE)) /\ ArmTimer(s, Maintained(merged, now, TRUE))
         /\ Record(mem[s], x.slot) /\ run' = [Detached(s) EXCEPT ![p] = Idle]
         /\ Excuse(Maintained(merged, now, TRUE))
      \/ /\ j \notin DOMAIN mem[s]
         /\ run' = [run EXCEPT ![p] = Idle] /\ UNCHANGED <<disk, mem, armed, done, excused>>
  BY <1>3 DEF FinishManual
<1>5. ASSUME j \in DOMAIN mem[s]
      PROVE  IsMerged(merged, s, j)
  <2>1. keep \in BOOLEAN /\ j \in DOMAIN run[<<s, "manual">>].slot
    BY <1>3
  <2>2. PICK k \in BOOLEAN : k = keep
    BY <2>1
  <2>3. PICK new : new = Finished(mem[s][j], x.slot[j], k)
    OBVIOUS
  <2>4. merged = IF Deleted(mem[s][j], run[<<s, "manual">>].slot[j]) THEN Without(disk, {j})
                 ELSE [i \in DOMAIN disk |->
                   IF i = j THEN [new EXCEPT !.kind = disk[j].kind, !.at = disk[j].at,
                                             !.deletes = disk[j].deletes]
                   ELSE disk[i]]
    BY <2>2, <2>3
  <2> HIDE DEF merged, keep, job
  <2> QED
    BY <1>2, <1>5, <2>1, <2>3, <2>4, MergedFacts
<1> HIDE DEF merged
<1> QED
  BY <1>2, <1>3, <1>4, <1>5

LEMMA FinishManualTypes == ASSUME Types, NEW s \in Services, FinishManual(s) PROVE Types'
<1> DEFINE p == <<s, "manual">>
           x == run[p]
<1>1. /\ RunType /\ now \in Times /\ IsPlain(disk, now) /\ DOMAIN disk \subseteq born
      /\ now' = now /\ UNCHANGED <<service, up, born, events>>
  BY DEF Types, RestType, StoreType, FinishManual
<1>2. p \in Runners /\ IsRunner(Idle, p[2], now)
  BY <1>1, ServiceFacts, IdleFacts
<1>3. PICK j \in Jobs :
        \/ /\ run' = [Detached(s) EXCEPT ![p] = Idle]
           /\ Record(mem[s], x.slot)
           /\ \E merged : /\ IsMerged(merged, s, j)
                          /\ Persist(s, Maintained(merged, now, TRUE))
                          /\ ArmTimer(s, Maintained(merged, now, TRUE))
                          /\ Excuse(Maintained(merged, now, TRUE))
        \/ /\ run' = [run EXCEPT ![p] = Idle] /\ UNCHANGED <<disk, mem, armed, done, excused>>
  BY FinishManualFacts
<1>4. CASE run' = [run EXCEPT ![p] = Idle] /\ UNCHANGED <<disk, mem, armed, done, excused>>
  <2>1. RunType'
    BY <1>1, <1>2, <1>4, RunStep, SelfFacts
  <2> QED
    BY <1>1, <1>4, <2>1 DEF Types, RestType, StoreType
<1>5. ASSUME run' = [Detached(s) EXCEPT ![p] = Idle], Record(mem[s], x.slot),
             NEW merged, IsMerged(merged, s, j), Persist(s, Maintained(merged, now, TRUE)),
             ArmTimer(s, Maintained(merged, now, TRUE)), Excuse(Maintained(merged, now, TRUE))
      PROVE  Types'
  <2> DEFINE store == Maintained(merged, now, TRUE)
  <2>1. IsPlain(merged, now) /\ DOMAIN merged \subseteq DOMAIN disk
    BY <1>5 DEF IsMerged
  <2>2. IsPlain(store, now) /\ DOMAIN store \subseteq DOMAIN disk
    BY <1>1, <2>1, MaintainedExpired
  <2> HIDE DEF store
  <2>3. Persist(s, store) /\ ArmTimer(s, store) /\ Excuse(store)
    BY <1>5 DEF store
  <2>4. StoreType'
    BY <1>1, <2>2, <2>3, StoreStep
  <2>5. RunType'
    BY <1>1, <1>2, <1>5, RunStep, DetachedFacts
  <2>6. excused' \subseteq Jobs
    BY <2>2, <2>3, ExcuseType
  <2>7. armed' \subseteq Services
    BY <2>3 DEF Types, RestType, ArmTimer
  <2>8. done' \subseteq born
    BY <1>5 DEF Types, RestType, StoreType, Record
  <2> QED
    BY <1>1, <2>4, <2>5, <2>6, <2>7, <2>8 DEF Types, RestType
<1> QED
  BY <1>3, <1>4, <1>5

LEMMA ChangeTypes ==
  ASSUME Types, NEW s \in Services, NEW store, IsPlain(store, now), DOMAIN store \subseteq born',
         born \subseteq born', born' \subseteq Jobs, Counted, Change(s, store), done' \subseteq born'
  PROVE  Types'
<1>1. now' = now /\ UNCHANGED <<service, up, run>> /\ RunType
  BY DEF Change, Types
<1>2. StoreType'
  BY <1>1, StoreStep DEF Change
<1>3. excused' \subseteq Jobs
  BY ExcuseType DEF Change
<1>4. armed' \subseteq Services
  BY DEF Types, RestType, Change, ArmTimer
<1>5. events' \in 0 .. MaxEvents
  BY CountedFacts
<1>6. RunType'
  BY <1>1 DEF RunType
<1> QED
  BY <1>1, <1>2, <1>3, <1>4, <1>5, <1>6 DEF Types, RestType

LEMMA ScheduleFacts ==
  /\ \A sched \in Schedules : sched.kind \in {"at", "every", "cron"} /\ sched.deletes \in BOOLEAN
  /\ \A file \in Stored : /\ DOMAIN file \subseteq Jobs
                          /\ \A j \in DOMAIN file : /\ file[j].kind \in {"at", "every", "cron"}
                                                    /\ file[j].deletes \in BOOLEAN
<1> DEFINE R == [kind : {"at", "every", "cron"}, deletes : BOOLEAN]
<1>1. Schedules \cup UNION {Range(file) : file \in Stored} \subseteq R
      /\ \A file \in Stored : DOMAIN file \subseteq Jobs
  BY CronAssumption
<1>2. \A x \in R : x.kind \in {"at", "every", "cron"} /\ x.deletes \in BOOLEAN
  OBVIOUS
<1>3. \A sched \in Schedules : sched \in R
  BY <1>1
<1>4. ASSUME NEW file \in Stored, NEW j \in DOMAIN file
      PROVE  file[j] \in R
  <2>1. file[j] \in Range(file)
    BY DEF Range
  <2> QED
    BY <1>1, <2>1
<1> HIDE DEF R
<1> QED
  BY <1>1, <1>2, <1>3, <1>4

\* The jobs after a request to add one.
LEMMA AddFacts ==
  ASSUME Types, NEW s \in Services, NEW j \in Jobs, NEW sched \in Schedules, NEW a \in Times
  PROVE  LET added == [i \in DOMAIN mem[s] \cup {j} |->
                         IF i = j THEN NewJob(sched, a, now) ELSE mem[s][i]]
         IN  /\ IsPlain(added, now) /\ added[j] = NewJob(sched, a, now)
             /\ Sound(added[j]) /\ added[j].marker = 0
<1> DEFINE new == NewJob(sched, a, now)
           added == [i \in DOMAIN mem[s] \cup {j} |-> IF i = j THEN new ELSE mem[s][i]]
<1>1. now \in Times /\ IsPlain(mem[s], now)
  BY DEF Types, RestType, StoreType
<1>2. IsJob(new, now) /\ Sound(new) /\ new.marker = 0
  BY <1>1, NewJobFacts, ScheduleFacts
<1> HIDE DEF new
<1>3. IsPlain(added, now) /\ added[j] = new
  BY <1>1, <1>2 DEF IsPlain
<1> HIDE DEF added
<1> QED
  BY <1>2, <1>3 DEF added, new

LEMMA AddTypes ==
  ASSUME Types, NEW s \in Services, NEW j \in Jobs, NEW sched \in Schedules,
         Add(s, j, sched, now + 1)
  PROVE  Types'
<1> DEFINE added == [i \in DOMAIN mem[s] \cup {j} |->
                       IF i = j THEN NewJob(sched, now + 1, now) ELSE mem[s][i]]
           store == Recomputed(added, now)
<1>1. now \in Times /\ now + 1 \in Times /\ DOMAIN mem[s] \subseteq born /\ born \subseteq Jobs
      /\ done \subseteq born
  BY DEF Types, RestType, StoreType, Times
<1>2. IsPlain(added, now) /\ DOMAIN added = DOMAIN mem[s] \cup {j}
  BY <1>1, AddFacts
<1>3. Change(s, store) /\ Counted /\ born' = born \cup {j} /\ done' = done
  BY DEF Add
<1> HIDE DEF added
<1>4. IsPlain(store, now) /\ DOMAIN store = DOMAIN mem[s] \cup {j}
  BY <1>1, <1>2, RecomputedFacts
<1> HIDE DEF store
<1> QED
  BY <1>1, <1>3, <1>4, ChangeTypes

LEMMA RescheduledFacts ==
  ASSUME now \in Times, NEW job, IsJob(job, now)
  PROVE  /\ IsJob(Rescheduled(job), now) /\ Sound(Rescheduled(job))
         /\ Alike(Rescheduled(job), job) /\ Rescheduled(job).marker \in {0, job.marker}
<1>1. CASE job.enabled
  BY <1>1, RenewedFacts DEF Rescheduled
<1>2. CASE ~job.enabled
  <2> DEFINE y == [job EXCEPT !.next = 0, !.marker = 0]
  <2>1. y \in Job /\ Alike(y, job) /\ y.next = 0 /\ y.marker = 0
    BY DEF IsJob, Job, Alike
  <2>2. Rescheduled(job) = y
    BY <1>2 DEF Rescheduled
  <2> HIDE DEF y
  <2> QED
    BY <1>2, <2>1, <2>2 DEF IsJob, Sound, Alike
<1> QED
  BY <1>1, <1>2

LEMMA UpdateTypes ==
  ASSUME Types, NEW s \in Services, NEW j \in DOMAIN mem[s], NEW job, IsJob(job, now),
         Update(s, j, job)
  PROVE  Types'
<1> DEFINE store == [mem[s] EXCEPT ![j] = Rescheduled(job)]
<1>1. now \in Times /\ IsPlain(mem[s], now) /\ DOMAIN mem[s] \subseteq born /\ born \subseteq Jobs
      /\ done \subseteq born
  BY DEF Types, RestType, StoreType
<1>2. IsPlain(store, now) /\ DOMAIN store = DOMAIN mem[s]
  BY <1>1, RescheduledFacts DEF IsPlain
<1>3. Change(s, store) /\ Counted /\ born' = born /\ done' = done \ {j}
  BY DEF Update
<1> HIDE DEF store
<1> QED
  BY <1>1, <1>2, <1>3, ChangeTypes

\* A request to enable, disable or reschedule job j.
LEMMA UpdateCases ==
  ASSUME Types, NEW s \in Services, NEW j \in Jobs,
         (\E value \in BOOLEAN : Enable(s, j, value)) \/ Reschedule(s, j, now + 1)
  PROVE  j \in DOMAIN mem[s] /\ \E job : IsJob(job, now) /\ job.marker = mem[s][j].marker /\ Update(s, j, job)
<1>1. now \in Nat /\ now + 1 \in Nat /\ now + 1 > 0 /\ (j \in DOMAIN mem[s] => IsJob(mem[s][j], now))
  BY DEF Types, RestType, StoreType, IsPlain, Times
<1>2. ASSUME NEW value \in BOOLEAN, Enable(s, j, value)
      PROVE  j \in DOMAIN mem[s] /\ \E job : IsJob(job, now) /\ job.marker = mem[s][j].marker /\ Update(s, j, job)
  <2> DEFINE y == [mem[s][j] EXCEPT !.enabled = value]
  <2>1. j \in DOMAIN mem[s] /\ Update(s, j, y)
    BY <1>2 DEF Enable
  <2>2. /\ y \in Job /\ y.at = mem[s][j].at /\ y.last = mem[s][j].last
        /\ y.marker = mem[s][j].marker
    BY <1>1, <2>1 DEF IsJob, Job
  <2> HIDE DEF y
  <2>3. IsJob(y, now)
    BY <1>1, <2>1, <2>2 DEF IsJob
  <2> QED
    BY <2>1, <2>2, <2>3
<1>3. CASE Reschedule(s, j, now + 1)
  <2> DEFINE y == [mem[s][j] EXCEPT !.at = now + 1]
  <2>1. j \in DOMAIN mem[s] /\ Update(s, j, y)
    BY <1>3 DEF Reschedule
  <2>2. /\ y \in Job /\ y.at = now + 1 /\ y.last = mem[s][j].last
        /\ y.marker = mem[s][j].marker
    BY <1>1, <2>1 DEF IsJob, Job
  <2> HIDE DEF y
  <2>3. IsJob(y, now)
    BY <1>1, <2>1, <2>2 DEF IsJob
  <2> QED
    BY <2>1, <2>2, <2>3
<1> QED
  BY <1>2, <1>3

LEMMA EditTypes == ASSUME Types, NEW s \in Services, NEW j \in Jobs, Edit(s, j) PROVE Types'
<1> DEFINE store == IF mem[s][j].enabled /\ mem[s][j].next = 0
                    THEN [mem[s] EXCEPT ![j] = Renewed(mem[s][j], now)] ELSE mem[s]
<1>1. now \in Times /\ IsPlain(mem[s], now) /\ DOMAIN mem[s] \subseteq born /\ born \subseteq Jobs
      /\ done \subseteq born /\ j \in DOMAIN mem[s]
  BY DEF Types, RestType, StoreType, Edit
<1>2. IsJob(Renewed(mem[s][j], now), now)
  BY <1>1, RenewedFacts DEF IsPlain
<1>3. IsPlain(store, now) /\ DOMAIN store = DOMAIN mem[s]
  BY <1>1, <1>2 DEF IsPlain
<1>4. Change(s, store) /\ Counted /\ born' = born /\ done' = done
  BY DEF Edit
<1> HIDE DEF store
<1> QED
  BY <1>1, <1>3, <1>4, ChangeTypes

LEMMA WithoutFacts ==
  ASSUME NEW f, NEW gone
  PROVE  /\ DOMAIN Without(f, gone) = DOMAIN f \ gone
         /\ \A j \in DOMAIN f \ gone : Without(f, gone)[j] = f[j]
BY DEF Without, Restrict

LEMMA RemoveJobTypes == ASSUME Types, NEW s \in Services, NEW j \in Jobs, RemoveJob(s, j) PROVE Types'
<1> DEFINE store == Without(mem[s], {j})
<1>1. now \in Times /\ IsPlain(mem[s], now) /\ DOMAIN mem[s] \subseteq born /\ born \subseteq Jobs
      /\ done \subseteq born
  BY DEF Types, RestType, StoreType
<1>2. IsPlain(store, now) /\ DOMAIN store \subseteq DOMAIN mem[s]
  <2>1. DOMAIN store = DOMAIN mem[s] \ {j} /\ \A i \in DOMAIN mem[s] \ {j} : store[i] = mem[s][i]
    BY WithoutFacts, Zenon
  <2> HIDE DEF store
  <2> QED
    BY <1>1, <2>1 DEF IsPlain
<1>3. Change(s, store) /\ Counted /\ born' = born /\ done' = done
  BY DEF RemoveJob
<1> HIDE DEF store
<1> QED
  BY <1>1, <1>2, <1>3, ChangeTypes

LEMMA ReadTypes == ASSUME Types, NEW s \in Services, Read(s) PROVE Types'
<1> DEFINE store == Maintained(mem[s], now, FALSE)
<1>1. now \in Times /\ IsPlain(mem[s], now) /\ DOMAIN mem[s] \subseteq born /\ RunType
  BY DEF Types, RestType, StoreType
<1>2. IsPlain(store, now) /\ DOMAIN store = DOMAIN mem[s]
  BY <1>1, MaintainedAlone
<1>3. Persist(s, store) /\ Excuse(store)
      /\ UNCHANGED <<now, service, up, armed, born, run, events, done>>
  BY DEF Read
<1> HIDE DEF store
<1>4. StoreType'
  BY <1>1, <1>2, <1>3, StoreStep
<1>5. excused' \subseteq Jobs
  BY <1>2, <1>3, ExcuseType
<1> QED
  BY <1>1, <1>3, <1>4, <1>5 DEF Types, RestType, RunType

LEMMA CreateTypes ==
  ASSUME Types, NEW old, DOMAIN old = Runners, now' = now,
         \A r \in Runners : IsRunner(old[r], r[2], now), Create(old)
  PROVE  RunType' /\ service' \in Services
<1> DEFINE p == <<service + 1, "start">>
           y == [Idle EXCEPT !.at = "clear"]
<1>1. service' = service + 1 /\ service + 1 \in Services
  BY ServiceFacts DEF Types, RestType, Create
<1>2. p \in Runners /\ p[2] = "start"
  BY <1>1, ServiceFacts
<1>3. IsRunner(y, "start", now)
  <2>1. IsFresh(y, "clear", NoJobs, {}, <<>>, 0, "due")
    BY IdleUpdates, Zenon
  <2>2. now \in Times /\ 0 <= now
    BY DEF Types, RestType, Times
  <2> HIDE DEF y
  <2> QED
    BY <2>1, <2>2, EmptyFacts DEF IsFresh, IsRunner
<1>4. run' = [old EXCEPT ![p] = y]
  BY DEF Create
<1> HIDE DEF y, p
<1>5. RunType'
  BY <1>2, <1>3, <1>4 DEF RunType
<1> QED
  BY <1>1, <1>5

LEMMA ReloadTypes == ASSUME Types, Reload PROVE Types'
<1>1. Create(run) /\ Counted /\ now' = now /\ UNCHANGED <<disk, mem, up, born, done>>
      /\ armed' = armed \ {service} /\ excused' \in {Jobs, excused}
  BY DEF Reload
<1>2. RunType' /\ service' \in Services
  BY <1>1, CreateTypes DEF Types, RunType
<1>3. events' \in 0 .. MaxEvents
  BY <1>1, CountedFacts
<1> QED
  BY <1>1, <1>2, <1>3 DEF Types, RestType, StoreType

LEMMA CrashTypes == ASSUME Types, Crash PROVE Types'
<1>1. /\ Counted /\ up' = FALSE /\ mem' = [s \in Services |-> NoJobs] /\ armed' = {}
      /\ run' = [r \in Runners |-> Idle] /\ UNCHANGED <<now, disk, service, born, done, excused>>
  BY DEF Crash
<1>2. RunType'
  BY <1>1, IdleFacts DEF Types, RestType, RunType
<1>3. StoreType'
  <2>1. IsPlain(NoJobs, now) /\ DOMAIN NoJobs \subseteq born
    BY DEF NoJobs, IsPlain
  <2> QED
    BY <1>1, <2>1 DEF Types, StoreType
<1>4. events' \in 0 .. MaxEvents
  BY <1>1, CountedFacts
<1> QED
  BY <1>1, <1>2, <1>3, <1>4 DEF Types, RestType

LEMMA BootTypes == ASSUME Types, Boot PROVE Types'
<1>1. Create(run) /\ up' = TRUE /\ UNCHANGED <<now, disk, mem, armed, born, events, done, excused>>
  BY DEF Boot
<1>2. RunType' /\ service' \in Services
  BY <1>1, CreateTypes DEF Types, RunType
<1> QED
  BY <1>1, <1>2 DEF Types, RestType, StoreType

LEMMA AdvanceTypes == ASSUME Types, Advance PROVE Types'
<1>1. now' = now + 1 /\ now \in Nat /\ now' \in Times /\ now' <= MaxTime
      /\ UNCHANGED <<disk, mem, service, up, armed, born, run, events, done, excused>>
  BY Constants DEF Types, RestType, Advance, Times
<1>2. \A f : IsPlain(f, now) => IsPlain(f, now')
  <2>1. ASSUME NEW job, IsJob(job, now)
        PROVE  IsJob(job, now')
    BY <1>1, <2>1 DEF IsJob, Job
  <2> QED
    BY <2>1 DEF IsPlain
<1>3. \A r \in Runners : IsRunner(run[r], r[2], now')
  <2>1. ASSUME NEW x, IsSlot(x, now)
        PROVE  IsSlot(x, now')
    BY <1>1, <2>1 DEF IsSlot, Slot, Times
  <2>2. ASSUME NEW r \in Runners
        PROVE  IsRunner(run[r], r[2], now')
    <3> DEFINE x == run[r]
    <3>1. IsRunner(x, r[2], now)
      BY DEF Types, RunType
    <3> HIDE DEF x
    <3>2. x.asked \in Nat /\ x.asked <= now /\ \A j \in DOMAIN x.slot : IsSlot(x.slot[j], now')
      BY <2>1, <3>1 DEF IsRunner
    <3>3. x.asked <= now'
      BY <1>1, <3>2
    <3>4. IsRunner(x, r[2], now')
      BY <3>1, <3>2, <3>3 DEF IsRunner
    <3> QED
      BY <3>4 DEF x
  <2> QED
    BY <2>2
<1> QED
  BY <1>1, <1>2, <1>3 DEF Types, RestType, StoreType, RunType

LEMMA InitTypes == ASSUME Init PROVE Types
<1>1. PICK file \in Stored : disk = [j \in DOMAIN file |-> NewJob(file[j], 2, 1)]
  BY DEF Init
<1>2. ASSUME NEW j \in DOMAIN file
      PROVE  IsJob(NewJob(file[j], 2, 1), 1)
  <2>1. file[j].kind \in {"at", "every", "cron"} /\ file[j].deletes \in BOOLEAN
    BY ScheduleFacts
  <2>2. 1 \in Times /\ 2 \in Times
    BY DEF Times
  <2> QED
    BY <2>1, <2>2, NewJobFacts
<1>3. IsPlain(disk, 1) /\ DOMAIN disk \subseteq Jobs
  BY <1>1, <1>2, ScheduleFacts DEF IsPlain
<1>4. StoreType
  <2>1. IsPlain(NoJobs, 1) /\ DOMAIN NoJobs \subseteq born
    BY DEF NoJobs, IsPlain
  <2> QED
    BY <1>3, <2>1 DEF Init, StoreType
<1>5. RunType
  <2> DEFINE y == [Idle EXCEPT !.at = "clear"]
  <2>1. IsRunner(y, "start", 1)
    <3>1. IsFresh(y, "clear", NoJobs, {}, <<>>, 0, "due")
      BY IdleUpdates, Zenon
    <3> HIDE DEF y
    <3> QED
      BY <3>1, EmptyFacts DEF IsFresh, IsRunner
  <2>2. run = [r \in Runners |-> IF r = <<1, "start">> THEN y ELSE Idle] /\ now = 1
    BY DEF Init
  <2>3. \A r \in Runners : IsRunner(Idle, r[2], 1)
    BY IdleFacts DEF Times
  <2> HIDE DEF y
  <2> QED
    BY <2>1, <2>2, <2>3 DEF RunType
<1> QED
  BY <1>3, <1>4, <1>5, ServiceFacts, Constants DEF Types, RestType, Init, Times

LEMMA StepTypes == ASSUME Types, [Next]_vars PROVE Types'
<1>1. ASSUME NEW s \in Services, StartStep(s)
      PROVE  Types'
  BY <1>1, ClearTypes, PlanTypes, FinishCatchupTypes, FinishStartTypes DEF StartStep
<1>2. ASSUME NEW s \in Services, Tick(s) \/ RunnerStep(s)
      PROVE  Types'
  BY <1>2, TickTypes, FinishTickTypes, ReserveTypes, FinishManualTypes DEF RunnerStep
<1>3. ASSUME NEW s \in Services, Request(s)
      PROVE  Types'
  <2>1. CASE \E j \in Jobs, mode \in Modes : Ask(s, j, mode)
    BY <2>1, AskTypes
  <2>2. CASE \E j \in Jobs, sched \in Schedules : Add(s, j, sched, now + 1)
    BY <2>2, AddTypes
  <2>3. ASSUME NEW j \in Jobs, (\E value \in BOOLEAN : Enable(s, j, value)) \/ Reschedule(s, j, now + 1)
        PROVE  Types'
    <3>1. j \in DOMAIN mem[s] /\ \E job : IsJob(job, now) /\ Update(s, j, job)
      BY <2>3, UpdateCases
    <3> QED
      BY <3>1, UpdateTypes
  <2>4. CASE \E j \in Jobs : Edit(s, j) \/ RemoveJob(s, j)
    BY <2>4, EditTypes, RemoveJobTypes
  <2>5. CASE Read(s)
    BY <2>5, ReadTypes
  <2> QED
    BY <1>3, <2>1, <2>2, <2>3, <2>4, <2>5 DEF Request
<1>4. ASSUME NEW r \in Runners, BodyStep(r)
      PROVE  Types'
  BY <1>4, StartBodyTypes, EndBodyTypes DEF BodyStep
<1>5. CASE Reload \/ Crash \/ Boot \/ Advance
  BY <1>5, ReloadTypes, CrashTypes, BootTypes, AdvanceTypes
<1>6. CASE UNCHANGED vars
  BY <1>6 DEF Types, RestType, StoreType, RunType, vars
<1> QED
  BY <1>1, <1>2, <1>3, <1>4, <1>5, <1>6 DEF Next

-----------------------------------------------------------------------------
(* The invariant                                                            *)
(*                                                                          *)
(* As long as some job is not excused, no service was replaced while one    *)
(* of its runners was at work, so only the newest service acts.             *)

Loaded == up /\ run[<<service, "start">>].at # "clear"

OneService ==
  /\ \A r \in Runners : r[1] # service => run[r].at = "idle"
  /\ armed \subseteq {service}

Down == ~up => armed = {} /\ \A r \in Runners : run[r].at = "idle"

\* Before it has read the jobs, a service does nothing else.
Clearing ==
  run[<<service, "start">>].at = "clear" =>
    armed = {} /\ \A r \in Runners : r # <<service, "start">> => run[r].at = "idle"

\* The copy of the newest service is the file, but for markers.
Agree ==
  Loaded => /\ DOMAIN mem[service] = DOMAIN disk
            /\ \A j \in DOMAIN disk : Same(mem[service][j], disk[j])

SoundDisk == \A j \in DOMAIN disk : Sound(disk[j])

MarksMem ==
  Loaded => \A r \in Runners : \A j \in Held(run[r]) \cap DOMAIN disk :
              j \notin excused => mem[service][j].marker # 0

\* Only what a runner holds is marked.
MarkedHeld ==
  Loaded => \A j \in DOMAIN disk \ excused :
              (disk[j].marker # 0 \/ mem[service][j].marker # 0) =>
                \E r \in Runners : j \in Held(run[r])

HoldOnce ==
  \A j \in Jobs \ excused : \A p, q \in Runners :
    (j \in Held(run[p]) /\ j \in Held(run[q])) => p = q

\* A one-shot job that has succeeded is disabled, and taken by no timer.
DoneOver == \A j \in DOMAIN disk \ excused : j \in done => ~disk[j].enabled

HeldNew ==
  \A r \in Runners : r[2] # "manual" => \A j \in Held(run[r]) : j \notin excused => j \notin done

Alone == OneService /\ Down /\ Clearing
Stores == Agree /\ SoundDisk /\ DoneOver
Marks == MarkersHold /\ MarksMem /\ MarkedHeld
Holds == HoldOnce /\ HeldNew
Calm == Alone /\ Stores /\ Marks /\ Holds /\ NeverAsleep

IInv == Types /\ (excused # Jobs => Calm)

\* Who acts is the newest service.
LEMMA ActingFacts ==
  ASSUME Types, Alone, NEW s, NEW role, <<s, role>> \in Runners, run[<<s, role>>].at # "idle"
  PROVE  s = service /\ up /\ (run[<<s, role>>].at # "clear" => Loaded)
<1>1. s = service /\ up
  BY DEF Types, RestType, Alone, OneService, Down
<1>2. ASSUME run[<<s, role>>].at # "clear"
      PROVE  run[<<service, "start">>].at # "clear"
  BY <1>1, <1>2 DEF Alone, Clearing
<1> QED
  BY <1>1, <1>2 DEF Loaded

\* The file and the copy say the same of what matters.
LEMMA BaseFacts ==
  ASSUME Types, Stores, Marks, Loaded, NEW base, base \in {disk, mem[service]}
  PROVE  /\ DOMAIN base = DOMAIN disk
         /\ \A j \in DOMAIN disk : Same(base[j], disk[j]) /\ Sound(base[j]) /\ IsJob(base[j], now)
         /\ IsPlain(base, now)
         /\ \A r \in Runners : \A j \in Held(run[r]) \cap DOMAIN disk :
              j \notin excused => base[j].marker # 0
         /\ \A j \in DOMAIN disk \ excused :
              base[j].marker # 0 => \E r \in Runners : j \in Held(run[r])
         /\ \A j \in DOMAIN disk \ excused : j \in done => ~base[j].enabled
<1>1. service \in Services /\ IsPlain(disk, now) /\ IsPlain(mem[service], now)
  BY DEF Types, RestType, StoreType
<1>2. DOMAIN mem[service] = DOMAIN disk /\ \A j \in DOMAIN disk : Same(mem[service][j], disk[j])
  BY DEF Stores, Agree
<1>3. CASE base = disk
  <2>1. \A j \in DOMAIN disk : Same(disk[j], disk[j])
    BY DEF Same, Alike
  <2> QED
    BY <1>1, <1>3, <2>1 DEF Stores, SoundDisk, DoneOver, Marks, MarkersHold, MarkedHeld, IsPlain
<1>4. CASE base = mem[service]
  <2>1. \A j \in DOMAIN disk : Sound(mem[service][j])
    BY <1>2 DEF Stores, SoundDisk, Sound, Same, Alike
  <2>2. \A j \in DOMAIN disk \ excused : j \in done => ~mem[service][j].enabled
    BY <1>2 DEF Stores, DoneOver, Same, Alike
  <2>3. \A j \in DOMAIN disk : IsJob(mem[service][j], now)
    BY <1>1, <1>2 DEF IsPlain
  <2>4. \A r \in Runners : \A j \in Held(run[r]) \cap DOMAIN disk :
          j \notin excused => mem[service][j].marker # 0
    BY DEF Marks, MarksMem
  <2>5. \A j \in DOMAIN disk \ excused :
          mem[service][j].marker # 0 => \E r \in Runners : j \in Held(run[r])
    BY DEF Marks, MarkedHeld
  <2> QED
    BY <1>1, <1>2, <1>4, <2>1, <2>2, <2>3, <2>4, <2>5
<1> QED
  BY <1>3, <1>4

\* The newest service writes the file; runners at most end.
LEMMA Rewrite ==
  ASSUME Types, Types', Calm, up, up' = up, service' = service, NEW store,
         Persist(service, store), Excuse(store),
         \A r \in Runners : /\ Held(run'[r]) \subseteq Held(run[r])
                            /\ run[r].at = "idle" => run'[r].at = "idle",
         run'[<<service, "start">>].at # "clear",
         armed' \subseteq armed \cup {service},
         \A j \in DOMAIN store : Sound(store[j]),
         \A j \in DOMAIN store : (j \notin excused' /\ store[j].marker # 0) =>
           \E r \in Runners : j \in Held(run'[r]),
         \A j \in DOMAIN store : (j \notin excused' /\ j \in done') => ~store[j].enabled,
         \A r \in Runners : r[2] # "manual" =>
           \A j \in Held(run'[r]) : j \notin excused' => j \notin done',
         \A j \in DOMAIN store : (j \notin excused' /\ store[j].enabled /\ store[j].next # 0) =>
           service \in armed' \/ run'[<<service, "start">>].at # "idle"
  PROVE  Calm'
<1>1. service \in Services /\ excused \subseteq excused' /\ DOMAIN mem = Services
  BY DEF Types, RestType, StoreType, Excuse
<1>2. disk' = store /\ mem'[service'] = store
  BY <1>1 DEF Persist
<1>3. Alone'
  BY DEF Calm, Alone, OneService, Down, Clearing
<1>4. Stores'
  <2>1. \A j \in DOMAIN store : Same(store[j], store[j])
    BY DEF Same, Alike
  <2> QED
    BY <1>2, <2>1 DEF Stores, Agree, SoundDisk, DoneOver
<1>5. \A r \in Runners : \A j \in Held(run'[r]) \cap DOMAIN store :
        j \notin excused' => store[j].marker # 0
  BY DEF Excuse
<1>6. Marks'
  BY <1>2, <1>5 DEF Marks, MarkersHold, MarksMem, MarkedHeld
<1>7. Holds'
  BY <1>1 DEF Calm, Holds, HoldOnce, HeldNew
<1>8. NeverAsleep'
  BY <1>2 DEF NeverAsleep
<1> QED
  BY <1>3, <1>4, <1>6, <1>7, <1>8 DEF Calm

\* A runner of the newest service takes the jobs js, which have no marker.
LEMMA Take ==
  ASSUME Types, Types', Calm, Loaded, UNCHANGED <<service, up, done, excused, armed>>,
         NEW base, base \in {disk, mem[service]},
         NEW js, js \subseteq {j \in DOMAIN base : base[j].marker = 0},
         NEW t \in Times, Persist(service, Marked(base, js, t)),
         NEW p \in Runners, p[1] = service, Held(run[p]) = {}, Held(run'[p]) = js,
         run'[p].at = "bodies",
         \A r \in Runners : r # p => Held(run'[r]) = Held(run[r]) /\ run'[r].at = run[r].at,
         p[2] # "manual" => \A j \in js : base[j].enabled
  PROVE  Calm'
<1> DEFINE store == Marked(base, js, t)
<1>1. service \in Services /\ DOMAIN mem = Services /\ t \in Nat /\ t # 0
      /\ <<service, "start">> \in Runners
  BY ServiceFacts DEF Types, RestType, StoreType, Times
<1>2. /\ DOMAIN base = DOMAIN disk
      /\ \A j \in DOMAIN disk : Same(base[j], disk[j]) /\ Sound(base[j])
      /\ IsPlain(base, now)
      /\ \A r \in Runners : \A j \in Held(run[r]) \cap DOMAIN disk :
           j \notin excused => base[j].marker # 0
      /\ \A j \in DOMAIN disk \ excused :
           base[j].marker # 0 => \E r \in Runners : j \in Held(run[r])
      /\ \A j \in DOMAIN disk \ excused : j \in done => ~base[j].enabled
  BY BaseFacts DEF Calm
<1>3. /\ DOMAIN store = DOMAIN disk
      /\ \A j \in DOMAIN disk :
           /\ Same(store[j], base[j]) /\ Sound(store[j])
           /\ store[j].marker = IF j \in js THEN t ELSE base[j].marker
  BY <1>1, <1>2, MarkedFacts
<1>4. disk' = store /\ mem'[service'] = store
  BY <1>1 DEF Persist
<1> HIDE DEF store
<1>5. js \subseteq DOMAIN disk /\ \A j \in js : base[j].marker = 0
  BY <1>2
<1>6. run'[<<service, "start">>].at # "clear" /\ up
  BY <1>1 DEF Loaded
<1>7. Alone'
  BY <1>6 DEF Calm, Alone, OneService, Down, Clearing
<1>8. Stores'
  <2>1. \A j \in DOMAIN store : Same(store[j], store[j])
    BY DEF Same, Alike
  <2>2. \A j \in DOMAIN disk : store[j].enabled = base[j].enabled
    BY <1>3 DEF Same, Alike
  <2> QED
    BY <1>2, <1>3, <1>4, <2>1, <2>2 DEF Stores, Agree, SoundDisk, DoneOver
<1>9. ASSUME NEW r \in Runners, NEW j \in Held(run'[r]), j \in DOMAIN store, j \notin excused
      PROVE  store[j].marker # 0
  <2>1. CASE r = p
    BY <1>1, <1>3, <1>9, <2>1
  <2>2. CASE r # p
    BY <1>1, <1>2, <1>3, <1>9, <2>2
  <2> QED
    BY <2>1, <2>2
<1>10. ASSUME NEW j \in DOMAIN store, j \notin excused, store[j].marker # 0
       PROVE  \E r \in Runners : j \in Held(run'[r])
  <2>1. CASE j \in js
    BY <2>1
  <2>2. CASE j \notin js
    <3>1. PICK r \in Runners : j \in Held(run[r])
      BY <1>2, <1>3, <1>10, <2>2
    <3>2. r # p
      BY <3>1
    <3> QED
      BY <3>1, <3>2
  <2> QED
    BY <2>1, <2>2
<1>11. Marks'
  BY <1>4, <1>9, <1>10 DEF Marks, MarkersHold, MarksMem, MarkedHeld
<1>12. HoldOnce'
  <2>1. ASSUME NEW j \in Jobs \ excused, NEW q \in Runners, q # p, j \in js, j \in Held(run'[q])
        PROVE  FALSE
    BY <1>2, <1>5, <2>1
  <2> QED
    BY <2>1 DEF Calm, Holds, HoldOnce
<1>13. HeldNew'
  BY <1>2, <1>5 DEF Calm, Holds, HeldNew
<1>14. NeverAsleep'
  <2>1. CASE p = <<service, "start">>
    BY <2>1 DEF NeverAsleep
  <2>2. CASE p # <<service, "start">>
    <3>1. run'[<<service, "start">>].at = run[<<service, "start">>].at
      BY <1>1, <2>2
    <3>2. \A j \in DOMAIN disk : store[j].enabled = disk[j].enabled /\ store[j].next = disk[j].next
      BY <1>2, <1>3 DEF Same, Alike
    <3> QED
      BY <1>3, <1>4, <3>1, <3>2 DEF Calm, NeverAsleep
  <2> QED
    BY <2>1, <2>2
<1> QED
  BY <1>7, <1>8, <1>11, <1>12, <1>13, <1>14 DEF Calm, Holds

\* A step that leaves the file alone, and the copy but for markers.
LEMMA Beside ==
  ASSUME Types, Types', Calm, UNCHANGED <<disk, service, up, done, armed>>, excused \subseteq excused',
         \A r \in Runners : /\ Held(run'[r]) \subseteq Held(run[r])
                            /\ run[r].at = "idle" /\ r[1] # service => run'[r].at = "idle",
         ~up => run' = run,
         run[<<service, "start">>].at = "clear" => run' = run,
         run'[<<service, "start">>].at = "clear" => run[<<service, "start">>].at = "clear",
         run'[<<service, "start">>].at = "idle" => run[<<service, "start">>].at = "idle",
         Loaded => /\ DOMAIN mem'[service] = DOMAIN mem[service]
                   /\ \A j \in DOMAIN mem[service] : Same(mem'[service][j], mem[service][j]),
         Loaded => \A r \in Runners : \A j \in Held(run'[r]) \cap DOMAIN disk :
                     j \notin excused' => mem'[service][j].marker # 0,
         Loaded => \A j \in DOMAIN disk :
                     (j \notin excused' /\ (disk[j].marker # 0 \/ mem'[service][j].marker # 0)) =>
                       \E r \in Runners : j \in Held(run'[r])
  PROVE  Calm'
<1>1. Loaded' => Loaded
  BY DEF Loaded
<1>2. Alone'
  BY DEF Calm, Alone, OneService, Down, Clearing
<1>3. Stores'
  <2>1. Agree'
    BY <1>1 DEF Calm, Stores, Agree, Same, Alike
  <2> QED
    BY <2>1 DEF Calm, Stores, SoundDisk, DoneOver
<1>4. Marks'
  BY <1>1 DEF Calm, Marks, MarkersHold, MarksMem, MarkedHeld
<1>5. Holds'
  BY DEF Calm, Holds, HoldOnce, HeldNew
<1>6. NeverAsleep'
  BY DEF Calm, NeverAsleep
<1> QED
  BY <1>2, <1>3, <1>4, <1>5, <1>6 DEF Calm

-----------------------------------------------------------------------------
(* Every action keeps the invariant                                         *)

LEMMA RunMoves ==
  ASSUME NEW f, DOMAIN f = Runners, \A r \in Runners : Quiet(f[r], run[r]),
         NEW p \in Runners, NEW y, run' = [f EXCEPT ![p] = y]
  PROVE  /\ run'[p] = y
         /\ \A r \in Runners : r # p => /\ run'[r].at = run[r].at /\ run'[r].slot = run[r].slot
                                        /\ Held(run'[r]) = Held(run[r])
BY DEF Quiet, Held

LEMMA ArmedFacts ==
  ASSUME NEW s, NEW store, ArmTimer(s, store)
  PROVE  /\ armed' \subseteq armed \cup {s}
         /\ \A j \in DOMAIN store : store[j].enabled /\ store[j].next # 0 => s \in armed'
BY DEF ArmTimer, Wakes

LEMMA ClearCalm == ASSUME Types, Types', Calm, NEW s \in Services, Clear(s) PROVE Calm'
<1> DEFINE p == <<s, "start">>
           marked == {j \in DOMAIN disk : disk[j].marker # 0}
           store == Marked(disk, marked, 0)
           y == [Idle EXCEPT !.at = "plan", !.skip = marked]
<1>1. p \in Runners /\ run[p].at = "clear" /\ IsPlain(disk, now)
  BY ServiceFacts DEF Types, StoreType, Clear, Starting
<1>2. s = service /\ up
  BY <1>1, ActingFacts DEF Calm
<1>3. y.at = "plan" /\ Held(y) = {}
  <2>1. IsFresh(y, "plan", NoJobs, marked, <<>>, 0, "due")
    BY IdleUpdates, Zenon
  <2> HIDE DEF y
  <2> QED
    BY <2>1 DEF IsFresh, Held
<1>4. /\ Persist(s, store) /\ run' = [run EXCEPT ![p] = y]
      /\ UNCHANGED <<service, up, armed, done, excused>>
  BY DEF Clear
<1> HIDE DEF y
<1>5. /\ run'[p] = y
      /\ \A r \in Runners : r # p => run'[r].at = run[r].at /\ Held(run'[r]) = Held(run[r])
  BY <1>1, <1>4, RunMoves, SelfFacts DEF Types
<1>6. \A r \in Runners : r # p => run[r].at = "idle"
  BY <1>1, <1>2 DEF Calm, Alone, Clearing
<1>7. \A r \in Runners : Held(run'[r]) = {}
  BY <1>3, <1>5, <1>6 DEF Held
<1>8. /\ DOMAIN store = DOMAIN disk
      /\ \A j \in DOMAIN disk : /\ Same(store[j], disk[j]) /\ store[j].marker = 0
                                /\ Sound(disk[j]) => Sound(store[j])
  <2>1. 0 \in Nat
    OBVIOUS
  <2> QED
    BY <1>1, <2>1, MarkedFacts
<1> HIDE DEF store, marked
<1>9. Excuse(store)
  BY <1>4, <1>7 DEF Excuse
<1>10. \A j \in DOMAIN store : Sound(store[j])
  BY <1>8 DEF Calm, Stores, SoundDisk
<1>11. \A j \in DOMAIN store : (j \notin excused' /\ j \in done') => ~store[j].enabled
  BY <1>4, <1>8 DEF Calm, Stores, DoneOver, Same, Alike
<1>12. \A r \in Runners : run[r].at = "idle" => run'[r].at = "idle"
  BY <1>1, <1>5
<1> QED
  BY <1>2, <1>3, <1>4, <1>5, <1>7, <1>8, <1>9, <1>10, <1>11, <1>12, Rewrite

LEMMA FinishStartCalm == ASSUME Types, Types', Calm, NEW s \in Services, FinishStart(s) PROVE Calm'
<1> DEFINE p == <<s, "start">>
           store == Recomputed(disk, now)
<1>1. p \in Runners /\ run[p].at = "final" /\ now \in Times /\ IsPlain(disk, now) /\ RunType
  BY ServiceFacts DEF Types, RestType, StoreType, FinishStart, Starting
<1>2. s = service /\ up /\ Loaded
  BY <1>1, ActingFacts DEF Calm
<1>3. /\ Persist(s, store) /\ ArmTimer(s, store) /\ Excuse(store)
      /\ run' = [Detached(s) EXCEPT ![p] = Idle]
      /\ UNCHANGED <<service, up, done>>
  BY DEF FinishStart
<1>4. /\ run'[p] = Idle
      /\ \A r \in Runners : r # p => run'[r].at = run[r].at /\ Held(run'[r]) = Held(run[r])
  BY <1>1, <1>3, RunMoves, DetachedFacts
<1>5. Held(run[p]) = {} /\ Held(run'[p]) = {} /\ run'[p].at = "idle"
  BY <1>1, <1>4, IdleFacts DEF Held
<1>6. /\ DOMAIN store = DOMAIN disk
      /\ \A j \in DOMAIN disk : /\ Alike(store[j], disk[j]) /\ store[j].marker \in {0, disk[j].marker}
                                /\ Sound(disk[j]) => Sound(store[j])
  BY <1>1, RecomputedFacts
<1> HIDE DEF store
<1>7. \A j \in DOMAIN store : Sound(store[j])
  BY <1>6 DEF Calm, Stores, SoundDisk
<1>8. excused \subseteq excused'
  BY <1>3 DEF Excuse
<1>9. \A j \in DOMAIN store : (j \notin excused' /\ j \in done') => ~store[j].enabled
  BY <1>3, <1>6, <1>8 DEF Calm, Stores, DoneOver, Alike
<1>10. \A r \in Runners : /\ Held(run'[r]) = Held(run[r])
                          /\ run[r].at = "idle" => run'[r].at = "idle"
  BY <1>4, <1>5
<1>11. \A j \in DOMAIN store : (j \notin excused' /\ store[j].marker # 0) =>
         \E r \in Runners : j \in Held(run'[r])
  BY <1>2, <1>6, <1>8, <1>10 DEF Calm, Marks, MarkedHeld
<1>12. \A r \in Runners : r[2] # "manual" => \A j \in Held(run'[r]) : j \notin excused' => j \notin done'
  BY <1>3, <1>8, <1>10 DEF Calm, Holds, HeldNew
<1>13. /\ armed' \subseteq armed \cup {service}
       /\ \A j \in DOMAIN store : store[j].enabled /\ store[j].next # 0 => service \in armed'
  BY <1>2, <1>3, ArmedFacts
<1> QED
  BY <1>2, <1>3, <1>5, <1>7, <1>9, <1>10, <1>11, <1>12, <1>13, Rewrite

\* What a runner's outcomes mean for one-shot jobs: recorded ones are disabled,
\* and no other runner holds them.
LEMMA RecordCalm ==
  ASSUME Types, Calm, NEW p \in Runners, run[p].at = "bodies", NEW base,
         Record(base, run[p].slot), excused \subseteq excused',
         Held(run'[p]) = {}, \A r \in Runners : r # p => Held(run'[r]) = Held(run[r])
  PROVE  \A r \in Runners : r[2] # "manual" =>
           \A j \in Held(run'[r]) : j \notin excused' => j \notin done'
<1> SUFFICES ASSUME NEW r \in Runners, r[2] # "manual", NEW j \in Held(run'[r]), j \notin excused'
             PROVE  j \notin done'
  OBVIOUS
<1>1. r # p /\ j \in Held(run[r]) /\ j \notin done
  BY DEF Calm, Holds, HeldNew
<1>2. j \notin DOMAIN run[p].slot
  <2>1. j \in Jobs
    BY <1>1 DEF Types, RunType, IsRunner, Held
  <2>2. j \in DOMAIN run[p].slot => j \in Held(run[p])
    BY DEF Held
  <2> QED
    BY <1>1, <2>1, <2>2 DEF Calm, Holds, HoldOnce
<1> QED
  BY <1>1, <1>2 DEF Record

LEMMA FinishCatchupCalm ==
  ASSUME Types, Types', Calm, NEW s \in Services, FinishCatchup(s) PROVE Calm'
<1> DEFINE p == <<s, "start">>
           slot == run[p].slot
           base == Staggered(Applied(disk, slot), run[p].later)
           store == Maintained(base, now, FALSE)
           y == [Detached(s)[p] EXCEPT !.at = "final"]
<1>1. p \in Runners /\ run[p].at = "bodies" /\ Active(p) = {} /\ RunType
  BY ServiceFacts DEF Types, FinishCatchup, Starting
<1>2. s = service /\ up /\ Loaded
  BY <1>1, ActingFacts DEF Calm
<1>3. /\ Persist(s, store) /\ Record(disk, slot) /\ Excuse(store)
      /\ run' = [Detached(s) EXCEPT ![p].at = "final"]
      /\ UNCHANGED <<service, up, armed>>
  BY DEF FinishCatchup
<1>4. /\ DOMAIN store \subseteq DOMAIN disk
      /\ \A j \in DOMAIN store :
           /\ store[j].enabled => disk[j].enabled
           /\ j \in DOMAIN slot => store[j].marker = 0
           /\ j \notin DOMAIN slot => store[j].marker \in {0, disk[j].marker}
           /\ (j \in DOMAIN slot /\ disk[j].kind = "at" /\ slot[j].how = "ok") => ~store[j].enabled
           /\ (\A i \in DOMAIN disk : Sound(disk[i])) => Sound(store[j])
  BY <1>1, RecordedFacts
<1> HIDE DEF store
<1>5. y.at = "final"
  <2> DEFINE x == Detached(s)[p]
  <2>1. IsRecord(x)
    BY <1>1, DetachedFacts DEF IsRunner
  <2> HIDE DEF x
  <2>2. [x EXCEPT !.at = "final"].at = "final"
    BY <2>1 DEF IsRecord
  <2> QED
    BY <2>2 DEF x
<1>6. run' = [Detached(s) EXCEPT ![p] = y]
  BY <1>3
<1> HIDE DEF y
<1>7. /\ run'[p] = y
      /\ \A r \in Runners : r # p => run'[r].at = run[r].at /\ Held(run'[r]) = Held(run[r])
  BY <1>1, <1>6, RunMoves, DetachedFacts
<1>8. Held(run'[p]) = {} /\ run'[p].at = "final"
  BY <1>5, <1>7 DEF Held
<1>9. excused \subseteq excused'
  BY <1>3 DEF Excuse
<1>10. \A j \in DOMAIN store : Sound(store[j])
  BY <1>4 DEF Calm, Stores, SoundDisk
<1>11. \A j \in DOMAIN store : (j \notin excused' /\ j \in done') => ~store[j].enabled
  BY <1>3, <1>4, <1>9 DEF Calm, Stores, DoneOver, Record
<1>12. \A r \in Runners : r[2] # "manual" => \A j \in Held(run'[r]) : j \notin excused' => j \notin done'
  BY <1>1, <1>3, <1>7, <1>8, <1>9, RecordCalm
<1>13. \A j \in DOMAIN store : (j \notin excused' /\ store[j].marker # 0) =>
         \E r \in Runners : j \in Held(run'[r])
  <2> SUFFICES ASSUME NEW j \in DOMAIN store, j \notin excused', store[j].marker # 0
               PROVE  \E r \in Runners : j \in Held(run'[r])
    OBVIOUS
  <2>1. j \notin DOMAIN slot /\ disk[j].marker # 0 /\ j \in DOMAIN disk
    BY <1>4
  <2>2. PICK r \in Runners : j \in Held(run[r])
    BY <1>2, <1>9, <2>1 DEF Calm, Marks, MarkedHeld
  <2>3. r # p
    BY <2>1, <2>2 DEF Held
  <2> QED
    BY <1>7, <2>2, <2>3
<1>14. \A r \in Runners : /\ Held(run'[r]) \subseteq Held(run[r])
                          /\ run[r].at = "idle" => run'[r].at = "idle"
  BY <1>1, <1>7, <1>8
<1> QED
  BY <1>2, <1>3, <1>8, <1>10, <1>11, <1>12, <1>13, <1>14, Rewrite

LEMMA PlanCalm == ASSUME Types, Types', Calm, NEW s \in Services, Plan(s) PROVE Calm'
<1> DEFINE p == <<s, "start">>
<1>1. p \in Runners /\ run[p].at = "plan" /\ IsRecord(run[p]) /\ RunType
  BY ServiceFacts DEF Types, RunType, IsRunner, Plan, Starting
<1>2. s = service /\ up /\ Loaded
  BY <1>1, ActingFacts DEF Calm
<1>3. UNCHANGED <<now, service, up, armed, born, events, done, excused>>
  BY DEF Plan
<1>4. Held(run[p]) = {}
  BY <1>1 DEF Held
<1>5. CASE run' = [run EXCEPT ![p].at = "final"] /\ UNCHANGED <<disk, mem>>
  <2> DEFINE y == [run[p] EXCEPT !.at = "final"]
  <2>1. run' = [run EXCEPT ![p] = y]
    BY <1>5
  <2>2. y.at = "final"
    BY <1>1 DEF IsRecord
  <2> HIDE DEF y
  <2>3. /\ run'[p] = y
        /\ \A r \in Runners : r # p => run'[r].at = run[r].at /\ Held(run'[r]) = Held(run[r])
    BY <1>1, <2>1, RunMoves, SelfFacts
  <2>4. \A r \in Runners : Held(run'[r]) = Held(run[r])
    BY <1>4, <2>2, <2>3 DEF Held
  <2>5. \A j \in DOMAIN mem[service] : Same(mem'[service][j], mem[service][j])
    BY <1>5 DEF Same, Alike
  <2>6. \A r \in Runners : \A j \in Held(run'[r]) \cap DOMAIN disk :
          j \notin excused' => mem'[service][j].marker # 0
    BY <1>2, <1>3, <1>5, <2>4 DEF Calm, Marks, MarksMem
  <2>7. \A j \in DOMAIN disk :
          (j \notin excused' /\ (disk[j].marker # 0 \/ mem'[service][j].marker # 0)) =>
            \E r \in Runners : j \in Held(run'[r])
    BY <1>2, <1>3, <1>5, <2>4 DEF Calm, Marks, MarkedHeld
  <2> QED
    BY <1>1, <1>2, <1>3, <1>5, <2>2, <2>3, <2>4, <2>5, <2>6, <2>7, Beside
<1>6. ASSUME NEW first, NEW later,
             first \subseteq {j \in DOMAIN mem[s] : Missed(mem[s][j], now)},
             Persist(s, Marked(mem[s], first, now)),
             run' = [run EXCEPT ![p] =
               [Idle EXCEPT !.at = "bodies", !.slot = [j \in first |-> Waiting], !.later = later]]
      PROVE  Calm'
  <2> DEFINE slot == [j \in first |-> Waiting]
             y == [Idle EXCEPT !.at = "bodies", !.slot = slot, !.later = later]
  <2>1. y.at = "bodies" /\ Held(y) = first
    <3>1. IsFresh(y, "bodies", slot, {}, later, 0, "due")
      BY IdleUpdates, Zenon
    <3>2. DOMAIN slot = first
      OBVIOUS
    <3> HIDE DEF y, slot
    <3> QED
      BY <3>1, <3>2 DEF IsFresh, Held
  <2>2. run' = [run EXCEPT ![p] = y]
    BY <1>6
  <2> HIDE DEF y
  <2>3. /\ run'[p] = y
        /\ \A r \in Runners : r # p => run'[r].at = run[r].at /\ Held(run'[r]) = Held(run[r])
    BY <1>1, <2>2, RunMoves, SelfFacts
  <2>4. /\ first \subseteq {j \in DOMAIN mem[s] : mem[s][j].marker = 0}
        /\ \A j \in first : mem[s][j].enabled
    BY <1>6 DEF Missed
  <2>5. p[1] = service /\ now \in Times
    BY <1>2 DEF Types, RestType
  <2>6. Persist(service, Marked(mem[s], first, now)) /\ mem[s] \in {disk, mem[service]}
    BY <1>2, <1>6
  <2> QED
    BY <1>1, <1>2, <1>3, <1>4, <2>1, <2>3, <2>4, <2>5, <2>6, Take
<1> QED
  BY <1>5, <1>6, PlanFacts

LEMMA StartBodyCalm ==
  ASSUME Types, Types', Calm, NEW r \in Runners, NEW j \in Jobs, StartBody(r, j) PROVE Calm'
<1> DEFINE x == run[r]
           w == [Waiting EXCEPT !.st = "running", !.from = now]
           y == [x EXCEPT !.slot[j] = w]
<1>1. RunType /\ j \in DOMAIN x.slot /\ x.at = "bodies" /\ IsRecord(x) /\ now \in Times
      /\ r[1] \in Services /\ r = <<r[1], r[2]>> /\ DOMAIN mem = Services
  BY ServiceFacts DEF Types, RestType, StoreType, RunType, IsRunner, StartBody
<1>2. r[1] = service /\ up /\ Loaded
  BY <1>1, ActingFacts DEF Calm
<1>3. UNCHANGED <<now, disk, service, up, armed, born, events, done, excused>>
      /\ run' = [run EXCEPT ![r] = y]
  BY DEF StartBody
<1>4. y.at = x.at /\ DOMAIN y.slot = DOMAIN x.slot
  <2> HIDE DEF x, w
  <2> QED
    BY <1>1 DEF IsRecord
<1> HIDE DEF y
<1>5. /\ run'[r] = y
      /\ \A q \in Runners : q # r => run'[q].at = run[q].at /\ Held(run'[q]) = Held(run[q])
  BY <1>1, <1>3, RunMoves, SelfFacts
<1>6. \A q \in Runners : run'[q].at = run[q].at /\ Held(run'[q]) = Held(run[q])
  BY <1>4, <1>5 DEF Held
<1> DEFINE f == mem[service]
           g == mem'[service]
<1>7. /\ DOMAIN g = DOMAIN f
      /\ \A i \in DOMAIN f : Same(g[i], f[i]) /\ (i # j => g[i] = f[i])
      /\ j \in DOMAIN f => g[j].marker \in {now, f[j].marker}
  <2>1. CASE mem' = mem
    BY <2>1 DEF Same, Alike
  <2>2. CASE j \in DOMAIN f /\ mem' = [mem EXCEPT ![r[1]][j].marker = now]
    <3> DEFINE job == [f[j] EXCEPT !.marker = now]
    <3>1. f[j] \in Job
      BY <1>2, <1>1, <2>2 DEF Types, StoreType, IsPlain, IsJob
    <3>2. Same(job, f[j]) /\ job.marker = now
      BY <3>1 DEF Same, Alike, Job
    <3>3. g = [f EXCEPT ![j] = job]
      BY <1>1, <1>2, <2>2
    <3> HIDE DEF job
    <3>4. DOMAIN g = DOMAIN f /\ \A i \in DOMAIN f : g[i] = IF i = j THEN job ELSE f[i]
      BY <3>3
    <3>5. \A i \in DOMAIN f : Same(f[i], f[i])
      BY DEF Same, Alike
    <3> QED
      BY <3>2, <3>4, <3>5
  <2> QED
    BY <1>2, <2>1, <2>2 DEF StartBody
<1> HIDE DEF f, g
<1>8. now # 0 /\ j \in Held(run'[r])
  BY <1>1, <1>6 DEF Times, Held
<1>9. \A q \in Runners : \A i \in Held(run'[q]) \cap DOMAIN disk :
        i \notin excused' => g[i].marker # 0
  <2>1. DOMAIN f = DOMAIN disk
    BY <1>2 DEF Calm, Stores, Agree, f
  <2>2. \A q \in Runners : \A i \in Held(run[q]) \cap DOMAIN disk :
          i \notin excused => f[i].marker # 0
    BY <1>2 DEF Calm, Marks, MarksMem, f
  <2> QED
    BY <1>3, <1>6, <1>7, <1>8, <2>1, <2>2
<1>10. \A i \in DOMAIN disk :
         (i \notin excused' /\ (disk[i].marker # 0 \/ g[i].marker # 0)) =>
           \E q \in Runners : i \in Held(run'[q])
  <2>1. DOMAIN f = DOMAIN disk
    BY <1>2 DEF Calm, Stores, Agree, f
  <2>2. \A i \in DOMAIN disk \ excused :
          (disk[i].marker # 0 \/ f[i].marker # 0) => \E q \in Runners : i \in Held(run[q])
    BY <1>2 DEF Calm, Marks, MarkedHeld, f
  <2> QED
    BY <1>3, <1>6, <1>7, <1>8, <2>1, <2>2
<1>11. run'[<<service, "start">>].at = run[<<service, "start">>].at
  BY <1>6, ServiceFacts DEF Types, RestType
<1> QED
  BY <1>2, <1>3, <1>6, <1>7, <1>9, <1>10, <1>11, Beside DEF f, g, Loaded

LEMMA EndBodyCalm ==
  ASSUME Types, Types', Calm, NEW r \in Runners, NEW j \in Jobs, NEW how \in Outcomes,
         EndBody(r, j, how)
  PROVE  Calm'
<1> DEFINE x == run[r]
           w == [x.slot[j] EXCEPT !.st = "done", !.to = now, !.how = how]
           y == [x EXCEPT !.slot[j] = w]
<1>1. RunType /\ IsRecord(x)
  BY DEF Types, RunType, IsRunner
<1>2. UNCHANGED <<now, disk, mem, service, up, armed, born, events, done, excused>>
      /\ run' = [run EXCEPT ![r] = y]
  BY DEF EndBody
<1>3. y.at = x.at /\ DOMAIN y.slot = DOMAIN x.slot
  <2> HIDE DEF x, w
  <2> QED
    BY <1>1 DEF IsRecord
<1> HIDE DEF y
<1>4. /\ run'[r] = y
      /\ \A q \in Runners : q # r => run'[q].at = run[q].at /\ Held(run'[q]) = Held(run[q])
  BY <1>1, <1>2, RunMoves, SelfFacts
<1>5. \A q \in Runners : run'[q].at = run[q].at /\ Held(run'[q]) = Held(run[q])
  BY <1>3, <1>4 DEF Held
<1>6. <<service, "start">> \in Runners
  BY ServiceFacts DEF Types, RestType
<1>7. Alone' /\ (Loaded' => Loaded)
  BY <1>2, <1>5, <1>6 DEF Calm, Alone, OneService, Down, Clearing, Loaded
<1>8. Stores'
  BY <1>2, <1>7 DEF Calm, Stores, Agree, SoundDisk, DoneOver
<1>9. Marks'
  BY <1>2, <1>5, <1>7 DEF Calm, Marks, MarkersHold, MarksMem, MarkedHeld
<1>10. Holds'
  BY <1>2, <1>5 DEF Calm, Holds, HoldOnce, HeldNew
<1>11. NeverAsleep'
  BY <1>2, <1>5, <1>6 DEF Calm, NeverAsleep
<1> QED
  BY <1>7, <1>8, <1>9, <1>10, <1>11 DEF Calm

LEMMA TickCalm == ASSUME Types, Types', Calm, NEW s \in Services, Tick(s) PROVE Calm'
<1> DEFINE p == <<s, "tick">>
           due == {j \in DOMAIN disk : Due(disk[j], now)}
           kept == Maintained(disk, now, TRUE)
           slot == [j \in due |-> Waiting]
           y == [Idle EXCEPT !.at = "bodies", !.slot = slot]
<1>1. p \in Runners /\ run[p].at = "idle" /\ RunType /\ now \in Times /\ IsPlain(disk, now) /\ s \in armed
  BY ServiceFacts DEF Types, RestType, StoreType, Tick
<1>2. s = service /\ up /\ Loaded
  BY <1>1 DEF Calm, Alone, OneService, Down, Clearing, Loaded
<1>3. UNCHANGED <<now, service, up, born, events, done>>
  BY DEF Tick
<1>4. DOMAIN Detached(s) = Runners /\ \A r \in Runners : Quiet(Detached(s)[r], run[r])
  BY <1>1, DetachedFacts
<1>5. CASE Persist(s, kept) /\ ArmTimer(s, kept) /\ run' = Detached(s) /\ Excuse(kept)
  <2>1. /\ DOMAIN kept = DOMAIN disk
        /\ \A j \in DOMAIN disk :
             /\ Alike(kept[j], disk[j]) /\ kept[j].marker \in {0, disk[j].marker}
             /\ (disk[j].enabled => Sound(disk[j])) => Sound(kept[j])
    BY <1>1, MaintainedExpired
  <2> HIDE DEF kept
  <2>2. \A r \in Runners : run'[r].at = run[r].at /\ Held(run'[r]) = Held(run[r])
    BY <1>4, <1>5 DEF Quiet, Held
  <2>3. excused \subseteq excused'
    BY <1>5 DEF Excuse
  <2>4. \A j \in DOMAIN kept : Sound(kept[j])
    BY <2>1 DEF Calm, Stores, SoundDisk
  <2>5. \A j \in DOMAIN kept : (j \notin excused' /\ j \in done') => ~kept[j].enabled
    BY <1>3, <2>1, <2>3 DEF Calm, Stores, DoneOver, Alike
  <2>6. \A j \in DOMAIN kept : (j \notin excused' /\ kept[j].marker # 0) =>
          \E r \in Runners : j \in Held(run'[r])
    BY <1>2, <2>1, <2>2, <2>3 DEF Calm, Marks, MarkedHeld
  <2>7. \A r \in Runners : r[2] # "manual" => \A j \in Held(run'[r]) : j \notin excused' => j \notin done'
    BY <1>3, <2>2, <2>3 DEF Calm, Holds, HeldNew
  <2>8. /\ armed' \subseteq armed \cup {service}
        /\ \A j \in DOMAIN kept : kept[j].enabled /\ kept[j].next # 0 => service \in armed'
    BY <1>2, <1>5, ArmedFacts
  <2>9. run'[<<service, "start">>].at # "clear"
    BY <1>2, <2>2, ServiceFacts DEF Loaded
  <2> QED
    BY <1>2, <1>3, <1>5, <2>2, <2>4, <2>5, <2>6, <2>7, <2>8, <2>9, Rewrite
<1>6. CASE /\ Persist(s, Marked(disk, due, now)) /\ run' = [Detached(s) EXCEPT ![p] = y]
           /\ UNCHANGED <<armed, excused>>
  <2>1. y.at = "bodies" /\ Held(y) = due
    <3>1. IsFresh(y, "bodies", slot, {}, <<>>, 0, "due")
      BY IdleUpdates, Zenon
    <3>2. DOMAIN slot = due
      OBVIOUS
    <3> HIDE DEF y, slot, due
    <3> QED
      BY <3>1, <3>2 DEF IsFresh, Held
  <2> HIDE DEF y, slot
  <2>2. /\ run'[p] = y
        /\ \A r \in Runners : r # p => run'[r].at = run[r].at /\ Held(run'[r]) = Held(run[r])
    <3>1. run' = [Detached(s) EXCEPT ![p] = y]
      BY <1>6
    <3> HIDE DEF due
    <3> QED
      BY <1>1, <1>4, <3>1 DEF Quiet, Held
  <2>3. due \subseteq {j \in DOMAIN disk : disk[j].marker = 0} /\ \A j \in due : disk[j].enabled
    BY DEF Due
  <2>4. Held(run[p]) = {} /\ p[1] = service
    BY <1>1, <1>2 DEF Held
  <2>5. Persist(service, Marked(disk, due, now)) /\ disk \in {disk, mem[service]}
    BY <1>2, <1>6
  <2> HIDE DEF due
  <2> QED
    BY <1>1, <1>2, <1>3, <1>6, <2>1, <2>2, <2>3, <2>4, <2>5, Take
<1> QED
  BY <1>5, <1>6 DEF Tick

LEMMA FinishTickCalm == ASSUME Types, Types', Calm, NEW s \in Services, FinishTick(s) PROVE Calm'
<1> DEFINE p == <<s, "tick">>
           slot == run[p].slot
           base == Applied(disk, slot)
           store == Maintained(base, now, FALSE)
<1>1. p \in Runners /\ run[p].at = "bodies" /\ Active(p) = {} /\ RunType
  BY ServiceFacts DEF Types, FinishTick
<1>2. s = service /\ up /\ Loaded
  BY <1>1, ActingFacts DEF Calm
<1>3. /\ Persist(s, store) /\ Record(disk, slot) /\ Excuse(store) /\ ArmTimer(s, store)
      /\ run' = [Detached(s) EXCEPT ![p] = Idle]
      /\ UNCHANGED <<service, up>>
  BY DEF FinishTick
<1>4. /\ DOMAIN store \subseteq DOMAIN disk
      /\ \A j \in DOMAIN store :
           /\ store[j].enabled => disk[j].enabled
           /\ j \in DOMAIN slot => store[j].marker = 0
           /\ j \notin DOMAIN slot => store[j].marker \in {0, disk[j].marker}
           /\ (j \in DOMAIN slot /\ disk[j].kind = "at" /\ slot[j].how = "ok") => ~store[j].enabled
           /\ (\A i \in DOMAIN disk : Sound(disk[i])) => Sound(store[j])
  BY <1>1, RecordedFacts
<1> HIDE DEF store
<1>5. /\ run'[p] = Idle
      /\ \A r \in Runners : r # p => run'[r].at = run[r].at /\ Held(run'[r]) = Held(run[r])
  BY <1>1, <1>3, RunMoves, DetachedFacts
<1>6. Held(run'[p]) = {} /\ run'[p].at = "idle"
  BY <1>5, IdleFacts
<1>7. excused \subseteq excused'
  BY <1>3 DEF Excuse
<1>8. \A j \in DOMAIN store : Sound(store[j])
  BY <1>4 DEF Calm, Stores, SoundDisk
<1>9. \A j \in DOMAIN store : (j \notin excused' /\ j \in done') => ~store[j].enabled
  BY <1>3, <1>4, <1>7 DEF Calm, Stores, DoneOver, Record
<1>10. \A r \in Runners : r[2] # "manual" => \A j \in Held(run'[r]) : j \notin excused' => j \notin done'
  BY <1>1, <1>3, <1>5, <1>6, <1>7, RecordCalm
<1>11. \A j \in DOMAIN store : (j \notin excused' /\ store[j].marker # 0) =>
         \E r \in Runners : j \in Held(run'[r])
  <2> SUFFICES ASSUME NEW j \in DOMAIN store, j \notin excused', store[j].marker # 0
               PROVE  \E r \in Runners : j \in Held(run'[r])
    OBVIOUS
  <2>1. j \notin DOMAIN slot /\ disk[j].marker # 0 /\ j \in DOMAIN disk
    BY <1>4
  <2>2. PICK r \in Runners : j \in Held(run[r])
    BY <1>2, <1>7, <2>1 DEF Calm, Marks, MarkedHeld
  <2>3. r # p
    BY <2>1, <2>2 DEF Held
  <2> QED
    BY <1>5, <2>2, <2>3
<1>12. \A r \in Runners : /\ Held(run'[r]) \subseteq Held(run[r])
                          /\ run[r].at = "idle" => run'[r].at = "idle"
  BY <1>1, <1>5, <1>6
<1>13. /\ armed' \subseteq armed \cup {service}
       /\ \A j \in DOMAIN store : store[j].enabled /\ store[j].next # 0 => service \in armed'
  BY <1>2, <1>3, ArmedFacts
<1>14. run'[<<service, "start">>].at # "clear"
  BY <1>2, <1>5, ServiceFacts DEF Loaded, Types, RestType
<1> QED
  BY <1>2, <1>3, <1>8, <1>9, <1>10, <1>11, <1>12, <1>13, <1>14, Rewrite

\* A request finds the file in the copy of the newest service.
LEMMA RequestFacts ==
  ASSUME Types, Calm, NEW s \in Services, Requestable(s)
  PROVE  /\ s = service /\ up /\ Loaded /\ IsPlain(mem[s], now) /\ DOMAIN mem[s] = DOMAIN disk
         /\ \A j \in DOMAIN mem[s] : Same(mem[s][j], disk[j]) /\ Sound(mem[s][j]) /\ IsJob(mem[s][j], now)
         /\ \A j \in DOMAIN mem[s] \ excused :
              /\ j \in done => ~mem[s][j].enabled
              /\ mem[s][j].marker # 0 => \E r \in Runners : j \in Held(run[r])
<1>1. s = service /\ up /\ Loaded
  BY DEF Requestable, Loaded
<1>2. mem[s] \in {disk, mem[service]}
  BY <1>1
<1> DEFINE f == mem[s]
<1> HIDE DEF f
<1>3. /\ DOMAIN f = DOMAIN disk
      /\ \A j \in DOMAIN disk : Same(f[j], disk[j]) /\ Sound(f[j]) /\ IsJob(f[j], now)
      /\ IsPlain(f, now)
      /\ \A j \in DOMAIN disk \ excused :
           f[j].marker # 0 => \E r \in Runners : j \in Held(run[r])
      /\ \A j \in DOMAIN disk \ excused : j \in done => ~f[j].enabled
  BY <1>1, <1>2, BaseFacts DEF Calm, f
<1>4. /\ DOMAIN f = DOMAIN disk /\ IsPlain(f, now)
      /\ \A j \in DOMAIN f : Same(f[j], disk[j]) /\ Sound(f[j]) /\ IsJob(f[j], now)
      /\ \A j \in DOMAIN f \ excused : /\ j \in done => ~f[j].enabled
                                       /\ f[j].marker # 0 => \E r \in Runners : j \in Held(run[r])
  BY <1>3
<1> QED
  BY <1>1, <1>4 DEF f

LEMMA ChangeCalm ==
  ASSUME Types, Types', Calm, NEW s \in Services, Requestable(s), NEW store, Change(s, store),
         \A j \in DOMAIN store : Sound(store[j]),
         \A j \in DOMAIN store :
           store[j].marker # 0 => j \in DOMAIN mem[s] /\ mem[s][j].marker # 0,
         \A j \in DOMAIN store : (j \notin excused' /\ j \in done') => ~store[j].enabled,
         done' \subseteq done
  PROVE  Calm'
<1>1. /\ s = service /\ up /\ Loaded
      /\ \A j \in DOMAIN mem[s] \ excused :
           mem[s][j].marker # 0 => \E r \in Runners : j \in Held(run[r])
  BY RequestFacts
<1>2. Persist(s, store) /\ ArmTimer(s, store) /\ Excuse(store) /\ UNCHANGED <<now, service, up, run>>
  BY DEF Change
<1>3. /\ armed' \subseteq armed \cup {service}
      /\ \A j \in DOMAIN store : store[j].enabled /\ store[j].next # 0 => service \in armed'
  BY <1>1, <1>2, ArmedFacts
<1>4. excused \subseteq excused'
  BY <1>2 DEF Excuse
<1>5. \A r \in Runners : /\ Held(run'[r]) \subseteq Held(run[r])
                         /\ run[r].at = "idle" => run'[r].at = "idle"
  BY <1>2
<1>6. \A j \in DOMAIN store : (j \notin excused' /\ store[j].marker # 0) =>
        \E r \in Runners : j \in Held(run'[r])
  BY <1>1, <1>2, <1>4
<1>7. run'[<<service, "start">>].at # "clear"
  BY <1>1, <1>2 DEF Loaded
<1>8. \A r \in Runners : r[2] # "manual" => \A j \in Held(run'[r]) : j \notin excused' => j \notin done'
  BY <1>2, <1>4 DEF Calm, Holds, HeldNew
<1>9. \A j \in DOMAIN store : (j \notin excused' /\ store[j].enabled /\ store[j].next # 0) =>
        service \in armed' \/ run'[<<service, "start">>].at # "idle"
  BY <1>3
<1>10. \A j \in DOMAIN store : (j \notin excused' /\ j \in done') => ~store[j].enabled
  OBVIOUS
<1> QED
  BY <1>1, <1>2, <1>3, <1>5, <1>6, <1>7, <1>8, <1>9, <1>10, Rewrite

LEMMA AddCalm ==
  ASSUME Types, Types', Calm, NEW s \in Services, NEW j \in Jobs, NEW sched \in Schedules,
         Add(s, j, sched, now + 1)
  PROVE  Calm'
<1> DEFINE added == [i \in DOMAIN mem[s] \cup {j} |->
                       IF i = j THEN NewJob(sched, now + 1, now) ELSE mem[s][i]]
           store == Recomputed(added, now)
<1>1. now \in Times /\ now + 1 \in Times /\ done \subseteq born
  BY DEF Types, RestType, Times
<1>2. IsPlain(added, now) /\ Sound(added[j]) /\ added[j].marker = 0
  BY <1>1, AddFacts
<1>3. /\ DOMAIN added = DOMAIN mem[s] \cup {j}
      /\ \A i \in DOMAIN mem[s] : i # j => added[i] = mem[s][i]
  OBVIOUS
<1>4. Requestable(s) /\ Change(s, store) /\ done' = done
  BY DEF Add
<1>5. j \notin done
  <2>1. \A i \in born : i < j
    BY DEF Add
  <2> QED
    BY <1>1, <2>1, Constants DEF Types, RestType
<1> HIDE DEF added
<1>6. /\ DOMAIN store = DOMAIN added
      /\ \A i \in DOMAIN added :
           /\ Alike(store[i], added[i]) /\ store[i].marker \in {0, added[i].marker}
           /\ Sound(added[i]) => Sound(store[i])
  BY <1>1, <1>2, RecomputedFacts
<1> HIDE DEF store
<1>7. /\ \A i \in DOMAIN mem[s] : Sound(mem[s][i])
      /\ \A i \in DOMAIN mem[s] \ excused : i \in done => ~mem[s][i].enabled
  BY <1>4, RequestFacts
<1>8. excused \subseteq excused'
  BY <1>4 DEF Change, Excuse
<1>9. \A i \in DOMAIN store : Sound(store[i])
  BY <1>2, <1>3, <1>6, <1>7
<1>10. \A i \in DOMAIN store : store[i].marker # 0 => i \in DOMAIN mem[s] /\ mem[s][i].marker # 0
  BY <1>2, <1>3, <1>6
<1>11. \A i \in DOMAIN store : (i \notin excused' /\ i \in done') => ~store[i].enabled
  BY <1>3, <1>4, <1>5, <1>6, <1>7, <1>8 DEF Alike
<1> QED
  BY <1>4, <1>9, <1>10, <1>11, ChangeCalm

LEMMA UpdateCalm ==
  ASSUME Types, Types', Calm, NEW s \in Services, NEW j \in DOMAIN mem[s],
         NEW job, IsJob(job, now), job.marker = mem[s][j].marker, Update(s, j, job)
  PROVE  Calm'
<1> DEFINE new == Rescheduled(job)
           store == [mem[s] EXCEPT ![j] = new]
<1>1. now \in Times
  BY DEF Types, RestType
<1>2. Sound(new) /\ new.marker \in {0, mem[s][j].marker}
  BY <1>1, RescheduledFacts
<1>3. Requestable(s) /\ Change(s, store) /\ done' = done \ {j}
  BY DEF Update
<1> HIDE DEF new
<1>4. DOMAIN store = DOMAIN mem[s] /\ store[j] = new
      /\ \A i \in DOMAIN mem[s] : i # j => store[i] = mem[s][i]
  OBVIOUS
<1> HIDE DEF store
<1>5. /\ \A i \in DOMAIN mem[s] : Sound(mem[s][i])
      /\ \A i \in DOMAIN mem[s] \ excused : i \in done => ~mem[s][i].enabled
  BY <1>3, RequestFacts
<1>6. excused \subseteq excused'
  BY <1>3 DEF Change, Excuse
<1>7. \A i \in DOMAIN store : Sound(store[i])
  BY <1>2, <1>4, <1>5
<1>8. \A i \in DOMAIN store : store[i].marker # 0 => i \in DOMAIN mem[s] /\ mem[s][i].marker # 0
  BY <1>2, <1>4
<1>9. \A i \in DOMAIN store : (i \notin excused' /\ i \in done') => ~store[i].enabled
  BY <1>3, <1>4, <1>5, <1>6
<1>10. done' \subseteq done
  BY <1>3
<1> QED
  BY <1>3, <1>7, <1>8, <1>9, <1>10, ChangeCalm

LEMMA EditCalm ==
  ASSUME Types, Types', Calm, NEW s \in Services, NEW j \in Jobs, Edit(s, j) PROVE Calm'
<1> DEFINE new == Renewed(mem[s][j], now)
           store == IF mem[s][j].enabled /\ mem[s][j].next = 0
                    THEN [mem[s] EXCEPT ![j] = new] ELSE mem[s]
<1>1. now \in Times /\ j \in DOMAIN mem[s]
  BY DEF Types, RestType, Edit
<1>2. Requestable(s) /\ Change(s, store) /\ done' = done
  BY DEF Edit
<1>3. /\ \A i \in DOMAIN mem[s] : Sound(mem[s][i]) /\ IsJob(mem[s][i], now)
      /\ \A i \in DOMAIN mem[s] \ excused : i \in done => ~mem[s][i].enabled
  BY <1>2, RequestFacts
<1>4. Sound(new) /\ new.marker = mem[s][j].marker /\ new.enabled = mem[s][j].enabled
  BY <1>1, <1>3, RenewedFacts DEF Alike
<1> HIDE DEF new
<1>5. DOMAIN store = DOMAIN mem[s] /\ store[j] \in {new, mem[s][j]}
      /\ \A i \in DOMAIN mem[s] : i # j => store[i] = mem[s][i]
  BY <1>1
<1> HIDE DEF store
<1>6. excused \subseteq excused'
  BY <1>2 DEF Change, Excuse
<1>7. \A i \in DOMAIN store : Sound(store[i])
  BY <1>3, <1>4, <1>5
<1>8. \A i \in DOMAIN store : store[i].marker # 0 => i \in DOMAIN mem[s] /\ mem[s][i].marker # 0
  BY <1>4, <1>5
<1>9. \A i \in DOMAIN store : (i \notin excused' /\ i \in done') => ~store[i].enabled
  BY <1>2, <1>3, <1>4, <1>5, <1>6
<1>10. done' \subseteq done
  BY <1>2
<1> QED
  BY <1>2, <1>7, <1>8, <1>9, <1>10, ChangeCalm

LEMMA RemoveJobCalm ==
  ASSUME Types, Types', Calm, NEW s \in Services, NEW j \in Jobs, RemoveJob(s, j) PROVE Calm'
<1> DEFINE store == Without(mem[s], {j})
<1>1. Requestable(s) /\ Change(s, store) /\ done' = done
  BY DEF RemoveJob
<1>2. DOMAIN store = DOMAIN mem[s] \ {j} /\ \A i \in DOMAIN mem[s] \ {j} : store[i] = mem[s][i]
  BY WithoutFacts, Zenon
<1> HIDE DEF store
<1>3. /\ \A i \in DOMAIN mem[s] : Sound(mem[s][i])
      /\ \A i \in DOMAIN mem[s] \ excused : i \in done => ~mem[s][i].enabled
  BY <1>1, RequestFacts
<1>4. excused \subseteq excused'
  BY <1>1 DEF Change, Excuse
<1>5. \A i \in DOMAIN store : Sound(store[i])
  BY <1>2, <1>3
<1>6. \A i \in DOMAIN store : store[i].marker # 0 => i \in DOMAIN mem[s] /\ mem[s][i].marker # 0
  BY <1>2
<1>7. \A i \in DOMAIN store : (i \notin excused' /\ i \in done') => ~store[i].enabled
  BY <1>1, <1>2, <1>3, <1>4
<1>8. done' \subseteq done
  BY <1>1
<1> QED
  BY <1>1, <1>5, <1>6, <1>7, <1>8, ChangeCalm

LEMMA ReadCalm == ASSUME Types, Types', Calm, NEW s \in Services, Read(s) PROVE Calm'
<1> DEFINE store == Maintained(mem[s], now, FALSE)
<1>1. Requestable(s) /\ Persist(s, store) /\ Excuse(store)
      /\ UNCHANGED <<now, service, up, armed, born, run, events, done>>
  BY DEF Read
<1>2. /\ s = service /\ up /\ Loaded /\ IsPlain(mem[s], now) /\ DOMAIN mem[s] = DOMAIN disk
      /\ \A j \in DOMAIN mem[s] : Same(mem[s][j], disk[j]) /\ Sound(mem[s][j])
      /\ \A j \in DOMAIN mem[s] \ excused :
           /\ j \in done => ~mem[s][j].enabled
           /\ mem[s][j].marker # 0 => \E r \in Runners : j \in Held(run[r])
  BY <1>1, RequestFacts
<1>3. /\ DOMAIN store = DOMAIN mem[s]
      /\ \A j \in DOMAIN mem[s] :
           /\ store[j].marker \in {0, mem[s][j].marker}
           /\ Sound(store[j]) /\ Same(store[j], mem[s][j])
  <2>1. now \in Times
    BY DEF Types, RestType
  <2> QED
    BY <1>2, <2>1, MaintainedAlone
<1> HIDE DEF store
<1>4. excused \subseteq excused'
  BY <1>1 DEF Excuse
<1>5. \A j \in DOMAIN store : Sound(store[j])
  BY <1>3
<1>6. \A j \in DOMAIN store : (j \notin excused' /\ store[j].marker # 0) =>
        \E r \in Runners : j \in Held(run'[r])
  BY <1>1, <1>2, <1>3, <1>4
<1>7. \A j \in DOMAIN store : (j \notin excused' /\ j \in done') => ~store[j].enabled
  BY <1>1, <1>2, <1>3, <1>4 DEF Same, Alike
<1>8. \A r \in Runners : r[2] # "manual" => \A j \in Held(run'[r]) : j \notin excused' => j \notin done'
  BY <1>1, <1>4 DEF Calm, Holds, HeldNew
<1>9. \A j \in DOMAIN store : (j \notin excused' /\ store[j].enabled /\ store[j].next # 0) =>
        service \in armed' \/ run'[<<service, "start">>].at # "idle"
  <2>1. \A j \in DOMAIN store : store[j].enabled = disk[j].enabled /\ store[j].next = disk[j].next
    BY <1>2, <1>3 DEF Same, Alike
  <2> QED
    BY <1>1, <1>2, <1>3, <1>4, <2>1 DEF Calm, NeverAsleep
<1>10. \A r \in Runners : /\ Held(run'[r]) \subseteq Held(run[r])
                          /\ run[r].at = "idle" => run'[r].at = "idle"
  BY <1>1
<1>11. run'[<<service, "start">>].at # "clear" /\ armed' \subseteq armed \cup {service}
  BY <1>1, <1>2 DEF Loaded
<1> QED
  BY <1>1, <1>2, <1>5, <1>6, <1>7, <1>8, <1>9, <1>10, <1>11, Rewrite

LEMMA AskCalm ==
  ASSUME Types, Types', Calm, NEW s \in Services, NEW j \in Jobs, NEW mode \in Modes, Ask(s, j, mode)
  PROVE  Calm'
<1> DEFINE p == <<s, "manual">>
           store == Maintained(mem[s], now, FALSE)
           slot == [i \in {j} |-> Waiting]
           y == [Idle EXCEPT !.at = "reserve", !.slot = slot, !.asked = now, !.mode = mode]
<1>1. p \in Runners /\ <<s, "start">> \in Runners /\ RunType /\ now \in Times /\ DOMAIN mem = Services
  BY ServiceFacts DEF Types, RestType, StoreType
<1>2. /\ Requestable(s) /\ run[p].at = "idle" /\ UNCHANGED <<disk, service, up, armed, done>>
      /\ mem' = [mem EXCEPT ![s] = store] /\ Excuse(store)
      /\ run' = run \/ run' = [run EXCEPT ![p] = y]
  BY DEF Ask
<1>3. /\ s = service /\ up /\ Loaded /\ IsPlain(mem[s], now) /\ DOMAIN mem[s] = DOMAIN disk
      /\ \A i \in DOMAIN mem[s] : Sound(mem[s][i])
  BY <1>2, RequestFacts
<1>4. /\ DOMAIN store = DOMAIN mem[s]
      /\ \A i \in DOMAIN mem[s] : store[i].marker \in {0, mem[s][i].marker} /\ Same(store[i], mem[s][i])
  BY <1>1, <1>3, MaintainedAlone
<1>5. y.at = "reserve" /\ Held(y) = {}
  <2>1. IsFresh(y, "reserve", slot, {}, <<>>, now, mode)
    BY IdleUpdates, Zenon
  <2> HIDE DEF y
  <2> QED
    BY <2>1 DEF IsFresh, Held
<1> HIDE DEF y, store
<1>6. mem'[service] = store
  BY <1>1, <1>2, <1>3
<1>7. /\ \A r \in Runners : r # p => run'[r].at = run[r].at
      /\ \A r \in Runners : Held(run'[r]) = Held(run[r])
  <2>1. CASE run' = run
    BY <2>1
  <2>2. CASE run' = [run EXCEPT ![p] = y]
    <3>1. /\ run'[p] = y
          /\ \A r \in Runners : r # p => run'[r].at = run[r].at /\ Held(run'[r]) = Held(run[r])
      BY <1>1, <2>2, RunMoves, SelfFacts
    <3> QED
      BY <1>2, <1>5, <3>1 DEF Held
  <2> QED
    BY <1>2, <2>1, <2>2
<1>8. run'[<<service, "start">>].at = run[<<service, "start">>].at
  BY <1>1, <1>3, <1>7
<1>9. \A r \in Runners : /\ Held(run'[r]) \subseteq Held(run[r])
                         /\ run[r].at = "idle" /\ r[1] # service => run'[r].at = "idle"
  BY <1>3, <1>7
<1>10. excused \subseteq excused'
  BY <1>2 DEF Excuse
<1>11. \A r \in Runners : \A i \in Held(run'[r]) \cap DOMAIN disk :
         i \notin excused' => mem'[service][i].marker # 0
  BY <1>2, <1>3, <1>4, <1>6 DEF Excuse
<1>12. \A i \in DOMAIN disk :
         (i \notin excused' /\ (disk[i].marker # 0 \/ mem'[service][i].marker # 0)) =>
           \E r \in Runners : i \in Held(run'[r])
  BY <1>3, <1>4, <1>6, <1>7, <1>10 DEF Calm, Marks, MarkedHeld
<1>13. /\ DOMAIN mem'[service] = DOMAIN mem[service]
       /\ \A i \in DOMAIN mem[service] : Same(mem'[service][i], mem[service][i])
  BY <1>3, <1>4, <1>6
<1>14. run[<<service, "start">>].at # "clear"
  BY <1>3 DEF Loaded
<1> QED
  BY <1>2, <1>3, <1>8, <1>9, <1>10, <1>11, <1>12, <1>13, <1>14, Beside

\* A request that holds no job of the file is given up, or over.
LEMMA DropCalm ==
  ASSUME Types, Types', Calm, NEW s \in Services, run[<<s, "manual">>].at # "idle",
         run' = [run EXCEPT ![<<s, "manual">>] = Idle],
         Held(run[<<s, "manual">>]) \cap DOMAIN disk = {},
         UNCHANGED <<disk, mem, service, up, armed, done, excused>>
  PROVE  Calm'
<1> DEFINE p == <<s, "manual">>
<1>1. p \in Runners /\ <<s, "start">> \in Runners /\ RunType /\ p # <<s, "start">>
      /\ <<service, "start">> # p /\ <<service, "start">> \in Runners
  BY ServiceFacts DEF Types, RestType
<1>2. run[p].at # "clear"
  BY <1>1 DEF RunType, IsRunner
<1>3. s = service /\ up /\ Loaded
  BY <1>1, <1>2, ActingFacts DEF Calm
<1>4. /\ run'[p] = Idle
      /\ \A r \in Runners : r # p => run'[r].at = run[r].at /\ Held(run'[r]) = Held(run[r])
  BY <1>1, RunMoves, SelfFacts
<1>5. Held(run'[p]) = {} /\ run'[p].at = "idle"
  BY <1>4, IdleFacts
<1>6. \A r \in Runners : \A i \in DOMAIN disk : i \in Held(run'[r]) <=> i \in Held(run[r])
  BY <1>4, <1>5
<1>7. \A r \in Runners : /\ Held(run'[r]) \subseteq Held(run[r])
                         /\ run[r].at = "idle" /\ r[1] # service => run'[r].at = "idle"
  BY <1>4, <1>5
<1>8. run'[<<service, "start">>].at = run[<<service, "start">>].at
  BY <1>1, <1>4
<1>9. \A r \in Runners : \A i \in Held(run'[r]) \cap DOMAIN disk :
        i \notin excused' => mem'[service][i].marker # 0
  BY <1>3, <1>6 DEF Calm, Marks, MarksMem
<1>10. \A i \in DOMAIN disk :
         (i \notin excused' /\ (disk[i].marker # 0 \/ mem'[service][i].marker # 0)) =>
           \E r \in Runners : i \in Held(run'[r])
  BY <1>3, <1>6 DEF Calm, Marks, MarkedHeld
<1>11. \A i \in DOMAIN mem[service] : Same(mem'[service][i], mem[service][i])
  BY DEF Same, Alike
<1>12. run[<<service, "start">>].at # "clear"
  BY <1>3 DEF Loaded
<1> QED
  BY <1>3, <1>7, <1>8, <1>9, <1>10, <1>11, <1>12, Beside

LEMMA ReserveCalm == ASSUME Types, Types', Calm, NEW s \in Services, Reserve(s) PROVE Calm'
<1> DEFINE p == <<s, "manual">>
           t == run[p].asked
<1>1. p \in Runners /\ p[1] = s /\ p[2] = "manual" /\ RunType /\ run[p].at = "reserve"
      /\ UNCHANGED <<service, up, armed, born, events, done, excused>>
  BY ServiceFacts DEF Types, Reserve
<1>2. s = service /\ up /\ Loaded
  BY <1>1, ActingFacts DEF Calm
<1>3. Held(run[p]) = {}
  BY <1>1 DEF Held
<1>4. PICK j \in Jobs :
        /\ t \in Times
        /\ \/ /\ j \in DOMAIN mem[s] /\ mem[s][j].marker = 0
              /\ Persist(s, Marked(mem[s], {j}, t))
              /\ \E y : /\ y.at = "bodies" /\ DOMAIN y.slot = {j}
                        /\ run' = [run EXCEPT ![p] = y]
           \/ run' = [run EXCEPT ![p] = Idle] /\ UNCHANGED <<disk, mem>>
  BY ReserveFacts
<1>5. CASE run' = [run EXCEPT ![p] = Idle] /\ UNCHANGED <<disk, mem>>
  BY <1>1, <1>3, <1>5, DropCalm
<1>6. ASSUME j \in DOMAIN mem[s], mem[s][j].marker = 0, Persist(s, Marked(mem[s], {j}, t)),
             NEW y, y.at = "bodies", DOMAIN y.slot = {j}, run' = [run EXCEPT ![p] = y]
      PROVE  Calm'
  <2> DEFINE js == {j}
  <2>1. Held(y) = js
    BY <1>6 DEF Held
  <2>2. /\ run'[p] = y
        /\ \A r \in Runners : r # p => run'[r].at = run[r].at /\ Held(run'[r]) = Held(run[r])
    BY <1>1, <1>6, RunMoves, SelfFacts
  <2>3. js \subseteq {i \in DOMAIN mem[s] : mem[s][i].marker = 0} /\ Persist(service, Marked(mem[s], js, t))
    BY <1>2, <1>6
  <2>4. mem[s] \in {disk, mem[service]}
    BY <1>2
  <2> HIDE DEF js, t
  <2> QED
    BY <1>1, <1>2, <1>3, <1>4, <1>6, <2>1, <2>2, <2>3, <2>4, Take
<1> QED
  BY <1>4, <1>5, <1>6

LEMMA FinishManualCalm ==
  ASSUME Types, Types', Calm, NEW s \in Services, FinishManual(s) PROVE Calm'
<1> DEFINE p == <<s, "manual">>
           slot == run[p].slot
<1>1. p \in Runners /\ RunType /\ run[p].at = "bodies" /\ now \in Times /\ IsPlain(disk, now)
      /\ UNCHANGED <<now, service, up, born, events>> /\ <<s, "start">> \in Runners
      /\ p # <<s, "start">>
  BY ServiceFacts DEF Types, RestType, StoreType, FinishManual
<1>2. s = service /\ up /\ Loaded
  BY <1>1, ActingFacts DEF Calm
<1>3. DOMAIN mem[s] = DOMAIN disk /\ \A j \in DOMAIN mem[s] \ excused : j \in done => ~mem[s][j].enabled
  BY <1>2, BaseFacts DEF Calm
<1>4. PICK j \in Jobs :
        /\ DOMAIN slot = {j}
        /\ \/ /\ j \in DOMAIN mem[s]
              /\ run' = [Detached(s) EXCEPT ![p] = Idle]
              /\ Record(mem[s], slot)
              /\ \E merged : /\ IsMerged(merged, s, j)
                             /\ Persist(s, Maintained(merged, now, TRUE))
                             /\ ArmTimer(s, Maintained(merged, now, TRUE))
                             /\ Excuse(Maintained(merged, now, TRUE))
           \/ /\ j \notin DOMAIN mem[s]
              /\ run' = [run EXCEPT ![p] = Idle] /\ UNCHANGED <<disk, mem, armed, done, excused>>
  BY FinishManualFacts
<1>5. Held(run[p]) = {j}
  BY <1>1, <1>4 DEF Held
<1>6. CASE j \notin DOMAIN mem[s] /\ run' = [run EXCEPT ![p] = Idle]
           /\ UNCHANGED <<disk, mem, armed, done, excused>>
  BY <1>1, <1>3, <1>5, <1>6, DropCalm
<1>7. ASSUME j \in DOMAIN mem[s], run' = [Detached(s) EXCEPT ![p] = Idle], Record(mem[s], slot),
             NEW merged, IsMerged(merged, s, j), Persist(s, Maintained(merged, now, TRUE)),
             ArmTimer(s, Maintained(merged, now, TRUE)), Excuse(Maintained(merged, now, TRUE))
      PROVE  Calm'
  <2> DEFINE store == Maintained(merged, now, TRUE)
  <2>1. Persist(service, store) /\ ArmTimer(service, store) /\ Excuse(store)
    BY <1>2, <1>7
  <2>2. /\ DOMAIN store \subseteq DOMAIN disk
        /\ j \in DOMAIN store =>
             j \in DOMAIN merged /\ store[j].marker = 0 /\ Sound(store[j])
             /\ store[j].enabled = merged[j].enabled
        /\ \A i \in DOMAIN store : i # j =>
             /\ store[i].marker \in {0, disk[i].marker}
             /\ store[i].enabled = disk[i].enabled
             /\ Sound(disk[i]) => Sound(store[i])
    <3>1. /\ IsPlain(merged, now) /\ DOMAIN merged \subseteq DOMAIN disk
          /\ \A i \in DOMAIN disk : i # j => i \in DOMAIN merged /\ merged[i] = disk[i]
          /\ j \in DOMAIN merged =>
               /\ merged[j].marker = 0
               /\ merged[j].enabled => merged[j].next # 0 /\ merged[j].last <= merged[j].next
      BY <1>7 DEF IsMerged
    <3>2. j \in DOMAIN merged =>
            (merged[j].enabled => merged[j].next # 0 /\ merged[j].last <= merged[j].next)
      BY <3>1
    <3>3. j \in DOMAIN merged => merged[j].marker = 0
      BY <3>1
    <3>4. /\ IsPlain(store, now) /\ DOMAIN store \subseteq DOMAIN disk
          /\ \A i \in DOMAIN disk : i # j => i \in DOMAIN store
          /\ j \in DOMAIN store =>
               j \in DOMAIN merged /\ store[j].marker = 0 /\ Sound(store[j])
               /\ store[j].enabled = merged[j].enabled
          /\ \A i \in DOMAIN store : i # j =>
               /\ store[i].marker \in {0, disk[i].marker}
               /\ store[i].enabled = disk[i].enabled
               /\ Sound(disk[i]) => Sound(store[i])
               /\ (Sound(disk[i]) /\ disk[i].next # 0) => ~(store[i].next > disk[i].next)
      BY <1>1, <3>1, <3>2, <3>3, MergedStore
    <3> HIDE DEF store
    <3> QED
      BY <3>4
  <2> HIDE DEF store
  <2>3. /\ run'[p] = Idle
        /\ \A r \in Runners : r # p => run'[r].at = run[r].at /\ Held(run'[r]) = Held(run[r])
    BY <1>1, <1>7, RunMoves, DetachedFacts
  <2>4. Held(run'[p]) = {} /\ run'[p].at = "idle"
    BY <2>3, IdleFacts
  <2>5. excused \subseteq excused'
    BY <2>1 DEF Excuse
  <2>6. \A i \in DOMAIN store : Sound(store[i])
    BY <2>2 DEF Calm, Stores, SoundDisk
  <2>7. ASSUME NEW i \in DOMAIN store, i \notin excused', i \in done'
        PROVE  ~store[i].enabled
    <3>1. CASE i # j
      <4>1. i \in done
        BY <1>4, <1>7, <2>7, <3>1 DEF Record
      <4> QED
        BY <2>2, <2>5, <2>7, <3>1, <4>1 DEF Calm, Stores, DoneOver
    <3>2. CASE i = j
      <4>1. j \in DOMAIN merged /\ store[j].enabled = merged[j].enabled
        BY <2>2, <2>7, <3>2
      <4>2. CASE j \in done
        BY <1>3, <1>7, <2>5, <2>7, <3>2, <4>1, <4>2 DEF IsMerged
      <4>3. CASE j \notin done
        <5>1. mem[s][j].kind = "at" /\ slot[j].how = "ok"
          BY <1>7, <2>7, <3>2, <4>3 DEF Record
        <5> QED
          BY <1>7, <3>2, <4>1, <5>1 DEF IsMerged
      <4> QED
        BY <4>2, <4>3
    <3> QED
      BY <3>1, <3>2
  <2>8. \A r \in Runners : r[2] # "manual" => \A i \in Held(run'[r]) : i \notin excused' => i \notin done'
    BY <1>1, <1>7, <2>3, <2>4, <2>5, RecordCalm
  <2>9. \A i \in DOMAIN store : (i \notin excused' /\ store[i].marker # 0) =>
          \E r \in Runners : i \in Held(run'[r])
    <3> SUFFICES ASSUME NEW i \in DOMAIN store, i \notin excused', store[i].marker # 0
                 PROVE  \E r \in Runners : i \in Held(run'[r])
      OBVIOUS
    <3>1. i # j /\ disk[i].marker # 0 /\ i \in DOMAIN disk
      BY <2>2
    <3>2. PICK r \in Runners : i \in Held(run[r])
      BY <1>2, <2>5, <3>1 DEF Calm, Marks, MarkedHeld
    <3>3. r # p
      BY <1>5, <3>1, <3>2
    <3> QED
      BY <2>3, <3>2, <3>3
  <2>10. \A r \in Runners : /\ Held(run'[r]) \subseteq Held(run[r])
                            /\ run[r].at = "idle" => run'[r].at = "idle"
    BY <1>1, <2>3, <2>4
  <2>11. /\ armed' \subseteq armed \cup {service}
         /\ \A i \in DOMAIN store : store[i].enabled /\ store[i].next # 0 => service \in armed'
    BY <2>1, ArmedFacts
  <2>12. run'[<<service, "start">>].at # "clear"
    BY <1>1, <1>2, <2>3 DEF Loaded
  <2>13. \A i \in DOMAIN store : (i \notin excused' /\ i \in done') => ~store[i].enabled
    BY <2>7
  <2> QED
    BY <1>1, <1>2, <2>1, <2>6, <2>8, <2>9, <2>10, <2>11, <2>12, <2>13, Rewrite
<1> QED
  BY <1>4, <1>6, <1>7

\* A service is created when no runner is at work.
LEMMA CreateCalm ==
  ASSUME Types, Types', Stores, \A r \in Runners : run[r].at = "idle", Create(run), up' = TRUE,
         armed' = {}, UNCHANGED <<disk, done, excused>>
  PROVE  Calm'
<1> DEFINE p == <<service + 1, "start">>
           y == [Idle EXCEPT !.at = "clear"]
<1>1. /\ service' = service + 1 /\ p \in Runners /\ p[1] = service' /\ RunType
      /\ run' = [run EXCEPT ![p] = y]
  BY ServiceFacts DEF Types, RestType, Create
<1>2. y.at = "clear"
  <2>1. IsFresh(y, "clear", NoJobs, {}, <<>>, 0, "due")
    BY IdleUpdates, Zenon
  <2> HIDE DEF y
  <2> QED
    BY <2>1 DEF IsFresh
<1> HIDE DEF y
<1>3. /\ run'[p] = y
      /\ \A r \in Runners : r # p => run'[r].at = run[r].at
  BY <1>1, RunMoves, SelfFacts
<1>4. /\ run'[p].at = "clear" /\ p = <<service', "start">>
      /\ \A r \in Runners : r # p => run'[r].at = "idle"
      /\ \A r \in Runners : Held(run'[r]) = {}
  BY <1>1, <1>2, <1>3 DEF Held
<1> HIDE DEF p
<1>5. Alone'
  BY <1>1, <1>4 DEF Alone, OneService, Down, Clearing
<1>6. ~Loaded'
  BY <1>4 DEF Loaded
<1>7. Stores'
  BY <1>6 DEF Stores, Agree, SoundDisk, DoneOver
<1>8. Marks'
  BY <1>4, <1>6 DEF Marks, MarkersHold, MarksMem, MarkedHeld
<1>9. Holds'
  BY <1>4 DEF Holds, HoldOnce, HeldNew
<1>10. NeverAsleep'
  BY <1>4 DEF NeverAsleep
<1> QED
  BY <1>5, <1>7, <1>8, <1>9, <1>10 DEF Calm

\* A reload during a run excuses every job.
LEMMA ReloadCalm == ASSUME Types, Types', Calm, Reload, excused' # Jobs PROVE Calm'
<1>1. /\ up /\ up' = up /\ Create(run) /\ armed' = armed \ {service} /\ UNCHANGED <<disk, done>>
      /\ excused' = IF \E r \in Runners : run[r].at # "idle" THEN Jobs ELSE excused
  BY DEF Reload
<1>2. \A r \in Runners : run[r].at = "idle"
  BY <1>1
<1>3. excused' = excused /\ armed' = {} /\ Stores
  BY <1>1, <1>2 DEF Calm, Alone, OneService
<1> QED
  BY <1>1, <1>2, <1>3, CreateCalm

LEMMA BootCalm == ASSUME Types, Types', Calm, Boot PROVE Calm'
<1>1. ~up /\ up' = TRUE /\ Create(run) /\ UNCHANGED <<disk, armed, done, excused>>
  BY DEF Boot
<1>2. armed' = {} /\ Stores /\ \A r \in Runners : run[r].at = "idle"
  BY <1>1 DEF Calm, Alone, Down
<1> QED
  BY <1>1, <1>2, CreateCalm

LEMMA CrashCalm == ASSUME Types, Types', Calm, Crash PROVE Calm'
<1>1. up' = FALSE /\ armed' = {} /\ run' = [r \in Runners |-> Idle]
      /\ UNCHANGED <<disk, service, done, excused>>
  BY DEF Crash
<1>2. \A r \in Runners : run'[r].at = "idle" /\ Held(run'[r]) = {}
  BY <1>1, IdleFacts
<1>3. <<service', "start">> \in Runners /\ ~Loaded'
  BY <1>1, ServiceFacts DEF Types, RestType, Loaded
<1>4. Alone'
  BY <1>1, <1>2, <1>3 DEF Alone, OneService, Down, Clearing
<1>5. Stores'
  BY <1>1, <1>3 DEF Calm, Stores, Agree, SoundDisk, DoneOver
<1>6. Marks'
  BY <1>2, <1>3 DEF Marks, MarkersHold, MarksMem, MarkedHeld
<1>7. Holds'
  BY <1>2 DEF Holds, HoldOnce, HeldNew
<1>8. NeverAsleep'
  BY <1>1 DEF NeverAsleep
<1> QED
  BY <1>4, <1>5, <1>6, <1>7, <1>8 DEF Calm

\* The clock is no part of it.
LEMMA StillCalm ==
  ASSUME Calm, UNCHANGED <<disk, mem, service, up, armed, run, done, excused>> PROVE Calm'
<1>1. Loaded' = Loaded
  BY DEF Loaded
<1>2. Alone'
  BY DEF Calm, Alone, OneService, Down, Clearing
<1>3. Stores'
  BY <1>1 DEF Calm, Stores, Agree, SoundDisk, DoneOver
<1>4. Marks'
  BY <1>1 DEF Calm, Marks, MarkersHold, MarksMem, MarkedHeld
<1>5. Holds'
  BY DEF Calm, Holds, HoldOnce, HeldNew
<1>6. NeverAsleep'
  BY DEF Calm, NeverAsleep
<1> QED
  BY <1>2, <1>3, <1>4, <1>5, <1>6 DEF Calm

LEMMA InitIInv == ASSUME Init PROVE IInv
<1>1. Types
  BY InitTypes
<1> DEFINE p == <<1, "start">>
           y == [Idle EXCEPT !.at = "clear"]
<1>2. /\ service = 1 /\ up = TRUE /\ armed = {} /\ done = {} /\ p \in Runners
      /\ run = [r \in Runners |-> IF r = p THEN y ELSE Idle]
  BY ServiceFacts DEF Init
<1>3. y.at = "clear"
  <2>1. IsFresh(y, "clear", NoJobs, {}, <<>>, 0, "due")
    BY IdleUpdates, Zenon
  <2> HIDE DEF y
  <2> QED
    BY <2>1 DEF IsFresh
<1> HIDE DEF y
<1>4. run[p].at = "clear" /\ \A r \in Runners : (r # p => run[r].at = "idle") /\ Held(run[r]) = {}
  BY <1>2, <1>3, IdleFacts DEF Held
<1>5. \A r \in Runners : r[1] # 1 => r # p
  OBVIOUS
<1> HIDE DEF p
<1>6. Alone
  BY <1>2, <1>4, <1>5 DEF Alone, OneService, Down, Clearing, p
<1>7. ~Loaded
  BY <1>2, <1>4 DEF Loaded, p
<1>8. SoundDisk
  <2>1. PICK file \in Stored : disk = [j \in DOMAIN file |-> NewJob(file[j], 2, 1)]
    BY DEF Init
  <2>2. ASSUME NEW j \in DOMAIN file
        PROVE  Sound(NewJob(file[j], 2, 1))
    <3>1. file[j].kind \in {"at", "every", "cron"} /\ file[j].deletes \in BOOLEAN
      BY ScheduleFacts
    <3>2. 1 \in Times /\ 2 \in Times
      BY DEF Times
    <3> QED
      BY <3>1, <3>2, NewJobFacts
  <2> QED
    BY <2>1, <2>2 DEF SoundDisk
<1>9. Stores
  BY <1>2, <1>7, <1>8 DEF Stores, Agree, DoneOver
<1>10. Marks
  BY <1>4, <1>7 DEF Marks, MarkersHold, MarksMem, MarkedHeld
<1>11. Holds
  BY <1>4 DEF Holds, HoldOnce, HeldNew
<1>12. NeverAsleep
  BY <1>2, <1>4 DEF NeverAsleep, p
<1> QED
  BY <1>1, <1>6, <1>9, <1>10, <1>11, <1>12 DEF IInv, Calm

\* A job that is excused stays so.
LEMMA ExcusedGrows == ASSUME Types, Next PROVE excused \subseteq excused'
<1>1. \A store : Excuse(store) => excused \subseteq excused'
  BY DEF Excuse
<1>2. ASSUME NEW s \in Services, StartStep(s) \/ Tick(s) \/ RunnerStep(s)
      PROVE  excused \subseteq excused'
  <2>1. CASE Clear(s) \/ Plan(s) \/ Reserve(s)
    BY <2>1 DEF Clear, Plan, Reserve
  <2>2. CASE FinishCatchup(s)
    BY <1>1, <2>2 DEF FinishCatchup
  <2>3. CASE FinishStart(s)
    BY <1>1, <2>3 DEF FinishStart
  <2>4. CASE Tick(s)
    BY <1>1, <2>4 DEF Tick
  <2>5. CASE FinishTick(s)
    BY <1>1, <2>5 DEF FinishTick
  <2>6. CASE FinishManual(s)
    BY <1>1, <2>6, FinishManualFacts
  <2> QED
    BY <1>2, <2>1, <2>2, <2>3, <2>4, <2>5, <2>6 DEF StartStep, RunnerStep
<1>3. ASSUME NEW s \in Services, Request(s)
      PROVE  excused \subseteq excused'
  <2>1. \A store : Change(s, store) => excused \subseteq excused'
    BY <1>1 DEF Change
  <2> QED
    BY <1>1, <1>3, <2>1 DEF Request, Ask, Add, Enable, Reschedule, Update, Edit, RemoveJob, Read
<1>4. ASSUME NEW r \in Runners, BodyStep(r)
      PROVE  excused \subseteq excused'
  BY <1>4 DEF BodyStep, StartBody, EndBody
<1>5. CASE Reload \/ Crash \/ Boot \/ Advance
  BY <1>5 DEF Reload, Crash, Boot, Advance, Types, RestType
<1> QED
  BY <1>2, <1>3, <1>4, <1>5 DEF Next

LEMMA NextIInv == ASSUME IInv, [Next]_vars PROVE IInv'
<1>1. Types /\ Types'
  BY StepTypes DEF IInv
<1> SUFFICES ASSUME excused' # Jobs
             PROVE  Calm'
  BY <1>1 DEF IInv
<1>2. Calm
  <2>1. excused \subseteq excused' /\ excused' \subseteq Jobs
    BY <1>1, ExcusedGrows DEF vars, Types, RestType
  <2> QED
    BY <2>1 DEF IInv
<1>3. ASSUME NEW s \in Services, StartStep(s)
      PROVE  Calm'
  BY <1>1, <1>2, <1>3, ClearCalm, PlanCalm, FinishCatchupCalm, FinishStartCalm DEF StartStep
<1>4. ASSUME NEW s \in Services, Tick(s) \/ RunnerStep(s)
      PROVE  Calm'
  BY <1>1, <1>2, <1>4, TickCalm, FinishTickCalm, ReserveCalm, FinishManualCalm DEF RunnerStep
<1>5. ASSUME NEW s \in Services, Request(s)
      PROVE  Calm'
  <2>1. CASE \E j \in Jobs, mode \in Modes : Ask(s, j, mode)
    BY <1>1, <1>2, <2>1, AskCalm
  <2>2. CASE \E j \in Jobs, sched \in Schedules : Add(s, j, sched, now + 1)
    BY <1>1, <1>2, <2>2, AddCalm
  <2>3. ASSUME NEW j \in Jobs, (\E value \in BOOLEAN : Enable(s, j, value)) \/ Reschedule(s, j, now + 1)
        PROVE  Calm'
    <3>1. j \in DOMAIN mem[s] /\ \E job : IsJob(job, now) /\ job.marker = mem[s][j].marker /\ Update(s, j, job)
      BY <1>1, <2>3, UpdateCases
    <3> QED
      BY <1>1, <1>2, <3>1, UpdateCalm
  <2>4. CASE \E j \in Jobs : Edit(s, j) \/ RemoveJob(s, j)
    BY <1>1, <1>2, <2>4, EditCalm, RemoveJobCalm
  <2>5. CASE Read(s)
    BY <1>1, <1>2, <2>5, ReadCalm
  <2> QED
    BY <1>5, <2>1, <2>2, <2>3, <2>4, <2>5 DEF Request
<1>6. ASSUME NEW r \in Runners, BodyStep(r)
      PROVE  Calm'
  BY <1>1, <1>2, <1>6, StartBodyCalm, EndBodyCalm DEF BodyStep
<1>7. CASE Reload \/ Crash \/ Boot
  BY <1>1, <1>2, <1>7, ReloadCalm, CrashCalm, BootCalm
<1>8. CASE Advance \/ UNCHANGED vars
  BY <1>2, <1>8, StillCalm DEF Advance, vars
<1> QED
  BY <1>3, <1>4, <1>5, <1>6, <1>7, <1>8 DEF Next

-----------------------------------------------------------------------------
(* What the runs check                                                      *)

\* A job keeps its marker while it is held, and is not run twice at a time: the
\* tick, the start and a request take a job only if it has no marker (onTimer,
\* prepareManualRun, planStartupCatchup).  Excused are the jobs whose marker was
\* taken away while they were held.  The types are right.
THEOREM NoJobRunsTwiceAtATime == Spec => []Inv
<1>1. IInv => Inv
  <2> SUFFICES ASSUME IInv
               PROVE  Inv
    OBVIOUS
  <2>1. TypeOK
    <3>1. /\ now \in 1 .. MaxTime /\ service \in Services /\ up \in BOOLEAN /\ armed \subseteq Services
          /\ DOMAIN disk \subseteq born /\ born \subseteq Jobs /\ events \in 0 .. MaxEvents
          /\ done \subseteq Jobs /\ excused \subseteq Jobs
      BY Constants DEF IInv, Types, RestType, StoreType, Times
    <3>2. IsStore(disk) /\ \A s \in Services : IsStore(mem[s])
      BY DEF IInv, Types, StoreType, IsStore, IsPlain, IsJob
    <3>3. ASSUME NEW r \in Runners
          PROVE  /\ run[r].at \in Steps
                 /\ DOMAIN run[r].slot \subseteq Jobs
                 /\ \A j \in DOMAIN run[r].slot : run[r].slot[j] \in Slot
                 /\ run[r].skip \subseteq Jobs
                 /\ ToSet(run[r].later) \subseteq Jobs
      <4>1. IsRunner(run[r], r[2], now)
        BY DEF IInv, Types, RunType
      <4>2. \A j \in DOMAIN run[r].slot : run[r].slot[j] \in Slot
        BY <4>1 DEF IsRunner, IsSlot
      <4>3. run[r].later \in Seq(Jobs)
        BY <4>1 DEF IsRunner
      <4>4. ToSet(run[r].later) \subseteq Jobs
        BY <4>3 DEF ToSet
      <4> QED
        BY <4>1, <4>2, <4>4 DEF IsRunner
    <3> QED
      BY <3>1, <3>2, <3>3 DEF TypeOK
  <2>2. MarkersHold
    BY DEF IInv, Types, StoreType, IsPlain, Calm, Marks, MarkersHold
  <2>3. NoOverlap
    <3> SUFFICES ASSUME NEW j \in Jobs \ excused
                 PROVE  Cardinality({r \in Runners : j \in Held(run[r])}) <= 1
      BY DEF NoOverlap
    <3> DEFINE S == {r \in Runners : j \in Held(run[r])}
    <3>1. \A p, q \in S : p = q
      BY DEF IInv, Calm, Holds, HoldOnce
    <3>2. CASE S = {}
      BY <3>2, FS_EmptySet
    <3>3. CASE S # {}
      <4>1. PICK p : S = {p}
        BY <3>1, <3>3
      <4> HIDE DEF S
      <4>2. Cardinality(S) = 1
        BY <4>1, FS_Singleton
      <4> QED
        BY <4>2 DEF S
    <3> QED
      BY <3>2, <3>3
  <2> QED
    BY <2>1, <2>2, <2>3 DEF Inv
<1> QED
  BY <1>1, InitIInv, NextIInv, PTL DEF Spec

\* While the gateway runs and an enabled job that is not excused has a next run,
\* the newest service has a timer armed or is still starting: every path that
\* leaves a next run in the file ends in armTimer (ops.ts, timer.ts).
THEOREM SchedulerStaysAwake == Spec => []NeverAsleep
<1>1. IInv => NeverAsleep
  BY DEF IInv, Types, StoreType, IsPlain, Calm, NeverAsleep
<1> QED
  BY <1>1, InitIInv, NextIInv, PTL DEF Spec

\* A start that takes a step is somewhere else.
LEMMA StartMoves ==
  ASSUME Types, NEW s \in Services, StartStep(s)
  PROVE  run'[<<s, "start">>] # run[<<s, "start">>]
<1> DEFINE p == <<s, "start">>
<1>1. p \in Runners /\ RunType /\ IsRecord(run[p])
  BY ServiceFacts DEF Types, RunType, IsRunner
<1>2. CASE Clear(s)
  <2> DEFINE marked == {j \in DOMAIN disk : disk[j].marker # 0}
             y == [Idle EXCEPT !.at = "plan", !.skip = marked]
  <2>1. y.at = "plan"
    <3>1. IsFresh(y, "plan", NoJobs, marked, <<>>, 0, "due")
      BY IdleUpdates, Zenon
    <3> HIDE DEF y
    <3> QED
      BY <3>1 DEF IsFresh
  <2>2. run' = [run EXCEPT ![p] = y] /\ run[p].at = "clear"
    BY <1>2 DEF Clear, Starting
  <2> HIDE DEF y
  <2> QED
    BY <1>1, <2>1, <2>2 DEF RunType
<1>3. CASE Plan(s)
  <2>1. run[p].at = "plan"
    BY <1>3 DEF Plan, Starting
  <2>2. CASE run' = [run EXCEPT ![p].at = "final"]
    <3> DEFINE y == [run[p] EXCEPT !.at = "final"]
    <3>1. y.at = "final"
      BY <1>1 DEF IsRecord
    <3>2. run' = [run EXCEPT ![p] = y]
      BY <2>2
    <3> HIDE DEF y
    <3> QED
      BY <1>1, <2>1, <3>1, <3>2 DEF RunType
  <2>3. ASSUME NEW first, NEW later,
               run' = [run EXCEPT ![p] =
                 [Idle EXCEPT !.at = "bodies", !.slot = [j \in first |-> Waiting], !.later = later]]
        PROVE  run'[p] # run[p]
    <3> DEFINE slot == [j \in first |-> Waiting]
               y == [Idle EXCEPT !.at = "bodies", !.slot = slot, !.later = later]
    <3>1. y.at = "bodies"
      <4>1. IsFresh(y, "bodies", slot, {}, later, 0, "due")
        BY IdleUpdates, Zenon
      <4> HIDE DEF y
      <4> QED
        BY <4>1 DEF IsFresh
    <3>2. run' = [run EXCEPT ![p] = y]
      BY <2>3
    <3> HIDE DEF y
    <3> QED
      BY <1>1, <2>1, <3>1, <3>2 DEF RunType
  <2> QED
    BY <1>3, <2>2, <2>3, PlanFacts
<1>4. CASE FinishCatchup(s)
  <2> DEFINE x == Detached(s)[p]
             y == [x EXCEPT !.at = "final"]
  <2>1. DOMAIN Detached(s) = Runners /\ IsRecord(x)
    BY <1>1, DetachedFacts DEF IsRunner
  <2>2. run' = [Detached(s) EXCEPT ![p] = y] /\ run[p].at = "bodies"
    BY <1>4 DEF FinishCatchup, Starting
  <2>3. y.at = "final"
    <3> HIDE DEF x
    <3> QED
      BY <2>1 DEF IsRecord
  <2> HIDE DEF y
  <2> QED
    BY <1>1, <2>1, <2>2, <2>3
<1>5. CASE FinishStart(s)
  <2>1. DOMAIN Detached(s) = Runners
    BY <1>1, DetachedFacts
  <2>2. run' = [Detached(s) EXCEPT ![p] = Idle] /\ run[p].at = "final"
    BY <1>5 DEF FinishStart, Starting
  <2> QED
    BY <1>1, <2>1, <2>2, IdleFacts
<1> QED
  BY <1>2, <1>3, <1>4, <1>5 DEF StartStep

\* Timers, outcomes, reads and requests to run put off no run that is due.
LEMMA SlotStays ==
  ASSUME IInv, Types', [Next]_vars, NEW j \in Jobs \ excused', Skips(j)
  PROVE  events' # events \/ \E s \in Services : run'[<<s, "start">>] # run[<<s, "start">>]
<1>1. Types /\ Calm
  <2>1. Types /\ excused \subseteq excused' /\ excused' \subseteq Jobs
    BY ExcusedGrows DEF IInv, vars, Types, RestType
  <2> QED
    BY <2>1 DEF IInv
<1>2. /\ RunType /\ now \in Times /\ IsPlain(disk, now) /\ DOMAIN mem = Services
      /\ \A i \in DOMAIN disk : Sound(disk[i])
  BY <1>1 DEF Types, RestType, StoreType, Calm, Stores, SoundDisk
<1>3. /\ j \in DOMAIN disk /\ j \in DOMAIN disk' /\ disk[j].next # 0 /\ disk[j].next \in Nat
      /\ disk'[j].next > disk[j].next
      /\ ~\E r \in Runners : j \in DOMAIN run[r].slot /\ run'[r].at # run[r].at
  BY <1>2 DEF Skips, IsPlain, IsJob, Job
<1>4. disk'[j].next # disk[j].next
  BY <1>3
<1>5. disk' # disk
  BY <1>4
<1>6. ASSUME NEW s \in Services, StartStep(s)
      PROVE  \E o \in Services : run'[<<o, "start">>] # run[<<o, "start">>]
  BY <1>1, <1>6, StartMoves
<1>7. ASSUME NEW s \in Services, Tick(s)
      PROVE  FALSE
  <2> DEFINE due == {i \in DOMAIN disk : Due(disk[i], now)}
  <2>1. CASE Persist(s, Maintained(disk, now, TRUE))
    <3>1. TRUE \in BOOLEAN
      OBVIOUS
    <3>2. ~(Maintained(disk, now, TRUE)[j].next > disk[j].next)
      BY <1>2, <1>3, <3>1, MaintainedKeeps
    <3> QED
      BY <1>3, <2>1, <3>2 DEF Persist
  <2>2. CASE Persist(s, Marked(disk, due, now))
    <3>1. Same(Marked(disk, due, now)[j], disk[j])
      BY <1>2, <1>3, MarkedFacts DEF Times
    <3> HIDE DEF due
    <3> QED
      BY <1>4, <2>2, <3>1 DEF Persist, Same
  <2> QED
    BY <1>7, <2>1, <2>2 DEF Tick
<1>8. ASSUME NEW s \in Services, FinishTick(s)
      PROVE  FALSE
  <2> DEFINE p == <<s, "tick">>
             base == Applied(disk, run[p].slot)
             store == Maintained(base, now, FALSE)
  <2>1. p \in Runners /\ run[p].at = "bodies" /\ Active(p) = {} /\ Persist(s, store)
        /\ run' = [Detached(s) EXCEPT ![p] = Idle]
    BY <1>8, ServiceFacts DEF FinishTick
  <2>2. run'[p].at = "idle"
    BY <1>2, <2>1, DetachedFacts, IdleFacts
  <2>3. j \notin DOMAIN run[p].slot
    BY <1>3, <2>1, <2>2
  <2>4. Same(store[j], disk[j])
    <3>1. \A i \in DOMAIN store :
            (i \notin DOMAIN run[p].slot /\ base = Applied(disk, run[p].slot) /\ Sound(disk[i])) =>
              Same(store[i], disk[i])
      BY <1>1, <2>1, RecordedFacts
    <3>2. j \in DOMAIN store
      BY <1>3, <2>1 DEF Persist
    <3> QED
      BY <1>2, <1>3, <2>3, <3>1, <3>2
  <2> HIDE DEF store
  <2> QED
    BY <1>4, <2>1, <2>4 DEF Persist, Same
<1>9. ASSUME NEW s \in Services, Reserve(s)
      PROVE  FALSE
  <2>1. Requestable(s)
    <3>1. <<s, "manual">> \in Runners /\ run[<<s, "manual">>].at = "reserve"
      BY <1>9, ServiceFacts DEF Reserve
    <3> QED
      BY <1>1, <3>1, ActingFacts DEF Calm, Requestable, Loaded
  <2>2. IsPlain(mem[s], now) /\ DOMAIN mem[s] = DOMAIN disk /\ Same(mem[s][j], disk[j])
    BY <1>1, <1>3, <2>1, RequestFacts
  <2>3. PICK i \in Jobs :
          /\ run[<<s, "manual">>].asked \in Times
          /\ Persist(s, Marked(mem[s], {i}, run[<<s, "manual">>].asked)) \/ UNCHANGED <<disk, mem>>
    BY <1>1, <1>9, ReserveFacts
  <2> DEFINE store == Marked(mem[s], {i}, run[<<s, "manual">>].asked)
  <2>4. Same(store[j], mem[s][j])
    BY <1>3, <2>2, <2>3, MarkedFacts DEF Times
  <2>5. disk' = store
    BY <1>5, <2>3 DEF Persist
  <2> HIDE DEF store
  <2> QED
    BY <1>4, <2>2, <2>4, <2>5 DEF Same
<1>10. ASSUME NEW s \in Services, FinishManual(s)
       PROVE  FALSE
  <2> DEFINE p == <<s, "manual">>
  <2>1. PICK i \in Jobs :
          /\ DOMAIN run[p].slot = {i} /\ run[p].at = "bodies"
          /\ \/ /\ run' = [Detached(s) EXCEPT ![p] = Idle]
                /\ \E merged : IsMerged(merged, s, i) /\ Persist(s, Maintained(merged, now, TRUE))
             \/ UNCHANGED <<disk, mem>>
    BY <1>1, <1>10, FinishManualFacts
  <2>2. PICK merged : IsMerged(merged, s, i) /\ Persist(s, Maintained(merged, now, TRUE))
    BY <1>5, <2>1
  <2>3. run'[p].at = "idle" /\ p \in Runners
    BY <1>2, <1>5, <2>1, DetachedFacts, IdleFacts, ServiceFacts
  <2>4. j # i
    BY <1>3, <2>1, <2>3
  <2>5. j \in DOMAIN merged /\ merged[j] = disk[j] /\ IsPlain(merged, now)
    BY <1>3, <2>2, <2>4 DEF IsMerged
  <2>6. ~(Maintained(merged, now, TRUE)[j].next > merged[j].next)
    <3>1. TRUE \in BOOLEAN
      OBVIOUS
    <3> QED
      BY <1>2, <1>3, <2>5, <3>1, MaintainedKeeps
  <2> QED
    BY <1>3, <2>2, <2>5, <2>6 DEF Persist
<1>11. ASSUME NEW s \in Services, Request(s)
       PROVE  events' # events
  <2>1. CASE Counted
    BY <1>1, <2>1, CountedFacts
  <2>2. CASE Read(s)
    <3>1. Requestable(s) /\ Persist(s, Maintained(mem[s], now, FALSE))
      BY <2>2 DEF Read
    <3>2. IsPlain(mem[s], now) /\ DOMAIN mem[s] = DOMAIN disk /\ Same(mem[s][j], disk[j])
          /\ Sound(mem[s][j])
      BY <1>1, <1>3, <3>1, RequestFacts
    <3> DEFINE store == Maintained(mem[s], now, FALSE)
    <3>3. Same(store[j], mem[s][j])
      BY <1>2, <1>3, <3>2, MaintainedAlone
    <3>4. disk' = store
      BY <3>1 DEF Persist
    <3> HIDE DEF store
    <3> QED
      BY <1>4, <3>2, <3>3, <3>4 DEF Same
  <2> QED
    BY <1>11, <2>1, <2>2 DEF Request, Ask, Add, Enable, Reschedule, Update, Edit, RemoveJob
<1>12. ASSUME NEW r \in Runners, BodyStep(r)
       PROVE  FALSE
  BY <1>5, <1>12 DEF BodyStep, StartBody, EndBody
<1>13. CASE Reload \/ Crash \/ Boot \/ Advance \/ UNCHANGED vars
  BY <1>5, <1>13 DEF Reload, Crash, Boot, Advance, vars
<1> QED
  BY <1>6, <1>7, <1>8, <1>9, <1>10, <1>11, <1>12, <1>13 DEF Next, RunnerStep

\* A run that is due is not put off by a timer, an outcome, a read or a request to
\* run a job (recomputeNextRunsForMaintenance): only a request to add or change a
\* job, or a start, may move it.
THEOREM DueRunsAreKept == Spec => DueSlotsKept
<1>1. IInv /\ IInv' /\ [Next]_vars =>
        [\A j \in Jobs \ excused' :
           Skips(j) => \/ events' # events
                       \/ \E s \in Services : run'[<<s, "start">>] # run[<<s, "start">>]]_vars
  BY SlotStays DEF IInv
<1> QED
  BY <1>1, InitIInv, NextIInv, PTL DEF Spec, DueSlotsKept

\* A step in which runner p becomes y, and no body that y runs is new.
LEMMA NoneBegins ==
  ASSUME NEW f, DOMAIN f = Runners, \A r \in Runners : Quiet(f[r], run[r]),
         NEW p \in Runners, NEW y, run' = [f EXCEPT ![p] = y],
         \A j \in DOMAIN y.slot : y.slot[j].st = "running" => j \in Running(p)
  PROVE  \A r \in Runners : Running(r)' \subseteq Running(r)
<1> SUFFICES ASSUME NEW r \in Runners, NEW j \in Running(r)'
             PROVE  j \in Running(r)
  OBVIOUS
<1>1. j \in DOMAIN run'[r].slot /\ run'[r].slot[j].st = "running"
  BY DEF Running
<1>2. CASE r = p
  BY <1>1, <1>2
<1>3. CASE r # p
  BY <1>1, <1>3 DEF Quiet, Running
<1> QED
  BY <1>2, <1>3

LEMMA QuietRunning ==
  ASSUME \A r \in Runners : Quiet(run'[r], run[r])
  PROVE  \A r \in Runners : Running(r)' \subseteq Running(r)
BY DEF Quiet, Running

LEMMA IdleBegins ==
  ASSUME RunType, NEW s, NEW p \in Runners, run' \in {[Detached(s) EXCEPT ![p] = Idle], [run EXCEPT ![p] = Idle]}
  PROVE  \A r \in Runners : Running(r)' \subseteq Running(r)
<1>1. DOMAIN Idle.slot = {}
  BY DEF Idle, NoJobs
<1>2. CASE run' = [Detached(s) EXCEPT ![p] = Idle]
  BY <1>1, <1>2, DetachedFacts, NoneBegins
<1>3. CASE run' = [run EXCEPT ![p] = Idle]
  BY <1>1, <1>3, SelfFacts, NoneBegins
<1> QED
  BY <1>2, <1>3

\* But for StartBody and a request, no step makes a body run.
LEMMA OnlyBodiesBegin ==
  ASSUME Types, [Next]_vars, ~\E r \in Runners, j \in Jobs : StartBody(r, j)
  PROVE  \A r \in Runners : r[2] # "manual" => Running(r)' \subseteq Running(r)
<1>1. RunType /\ DOMAIN NoJobs = {}
  BY DEF Types, NoJobs
<1>2. ASSUME NEW js
      PROVE  ~\E j \in DOMAIN [i \in js |-> Waiting] : [i \in js |-> Waiting][j].st = "running"
  BY WaitingFacts
<1>3. ASSUME NEW s \in Services, Clear(s)
      PROVE  \A r \in Runners : Running(r)' \subseteq Running(r)
  <2> DEFINE marked == {j \in DOMAIN disk : disk[j].marker # 0}
             y == [Idle EXCEPT !.at = "plan", !.skip = marked]
  <2>1. y.slot = NoJobs
    <3>1. IsFresh(y, "plan", NoJobs, marked, <<>>, 0, "due")
      BY IdleUpdates, Zenon
    <3> HIDE DEF y
    <3> QED
      BY <3>1 DEF IsFresh
  <2>2. run' = [run EXCEPT ![<<s, "start">>] = y] /\ <<s, "start">> \in Runners
    BY <1>3, ServiceFacts DEF Clear
  <2> HIDE DEF y
  <2> QED
    BY <1>1, <2>1, <2>2, SelfFacts, NoneBegins
<1>4. ASSUME NEW s \in Services, Plan(s)
      PROVE  \A r \in Runners : Running(r)' \subseteq Running(r)
  <2> DEFINE p == <<s, "start">>
  <2>1. p \in Runners /\ IsRecord(run[p])
    BY <1>1, ServiceFacts DEF RunType, IsRunner
  <2>2. CASE run' = [run EXCEPT ![p].at = "final"]
    <3> DEFINE y == [run[p] EXCEPT !.at = "final"]
    <3>1. y.slot = run[p].slot
      BY <2>1 DEF IsRecord
    <3>2. run' = [run EXCEPT ![p] = y]
      BY <2>2
    <3> HIDE DEF y
    <3>3. \A j \in DOMAIN y.slot : y.slot[j].st = "running" => j \in Running(p)
      BY <3>1 DEF Running
    <3> QED
      BY <1>1, <2>1, <3>2, <3>3, SelfFacts, NoneBegins
  <2>3. ASSUME NEW first, NEW later,
               run' = [run EXCEPT ![p] =
                 [Idle EXCEPT !.at = "bodies", !.slot = [j \in first |-> Waiting], !.later = later]]
        PROVE  \A r \in Runners : Running(r)' \subseteq Running(r)
    <3> DEFINE slot == [j \in first |-> Waiting]
               y == [Idle EXCEPT !.at = "bodies", !.slot = slot, !.later = later]
    <3>1. y.slot = slot
      <4>1. IsFresh(y, "bodies", slot, {}, later, 0, "due")
        BY IdleUpdates, Zenon
      <4> HIDE DEF y
      <4> QED
        BY <4>1 DEF IsFresh
    <3>2. run' = [run EXCEPT ![p] = y]
      BY <2>3
    <3>3. ~\E j \in DOMAIN slot : slot[j].st = "running"
      BY <1>2
    <3> HIDE DEF y, slot
    <3> QED
      BY <1>1, <2>1, <3>1, <3>2, <3>3, SelfFacts, NoneBegins
  <2> QED
    BY <1>4, <2>2, <2>3, PlanFacts
<1>5. ASSUME NEW s \in Services, FinishCatchup(s)
      PROVE  \A r \in Runners : Running(r)' \subseteq Running(r)
  <2> DEFINE p == <<s, "start">>
             x == Detached(s)[p]
             y == [x EXCEPT !.at = "final"]
  <2>1. /\ p \in Runners /\ DOMAIN Detached(s) = Runners /\ IsRecord(x) /\ x.slot = run[p].slot
        /\ \A r \in Runners : Quiet(Detached(s)[r], run[r])
    <3>1. p \in Runners /\ DOMAIN Detached(s) = Runners
      BY <1>1, ServiceFacts, DetachedFacts
    <3>2. \A r \in Runners : IsRunner(Detached(s)[r], r[2], now) /\ Quiet(Detached(s)[r], run[r])
      BY <1>1, DetachedFacts
    <3>3. IsRunner(x, p[2], now) /\ Quiet(x, run[p])
      BY <3>1, <3>2
    <3> HIDE DEF x
    <3> QED
      BY <3>1, <3>2, <3>3 DEF IsRunner, Quiet
  <2>2. run' = [Detached(s) EXCEPT ![p] = y]
    BY <1>5 DEF FinishCatchup
  <2>3. y.slot = run[p].slot
    <3> HIDE DEF x
    <3> QED
      BY <2>1 DEF IsRecord
  <2> HIDE DEF y
  <2>4. \A j \in DOMAIN y.slot : y.slot[j].st = "running" => j \in Running(p)
    BY <2>3 DEF Running
  <2> QED
    BY <2>1, <2>2, <2>4, NoneBegins
<1>6. ASSUME NEW s \in Services, FinishStart(s) \/ FinishTick(s) \/ FinishManual(s)
      PROVE  \A r \in Runners : Running(r)' \subseteq Running(r)
  <2>1. \E p \in Runners :
          run' \in {[Detached(s) EXCEPT ![p] = Idle], [run EXCEPT ![p] = Idle]}
    BY <1>6, ServiceFacts DEF FinishStart, FinishTick, FinishManual
  <2> QED
    BY <1>1, <2>1, IdleBegins
<1>7. ASSUME NEW s \in Services, Tick(s)
      PROVE  \A r \in Runners : Running(r)' \subseteq Running(r)
  <2> DEFINE p == <<s, "tick">>
             due == {j \in DOMAIN disk : Due(disk[j], now)}
             slot == [j \in due |-> Waiting]
             y == [Idle EXCEPT !.at = "bodies", !.slot = slot]
  <2>1. /\ p \in Runners /\ DOMAIN Detached(s) = Runners
        /\ \A r \in Runners : Quiet(Detached(s)[r], run[r])
    BY <1>1, ServiceFacts, DetachedFacts
  <2>2. CASE run' = Detached(s)
    BY <2>1, <2>2, QuietRunning
  <2>3. CASE run' = [Detached(s) EXCEPT ![p] = y]
    <3>1. y.slot = slot
      <4>1. IsFresh(y, "bodies", slot, {}, <<>>, 0, "due")
        BY IdleUpdates, Zenon
      <4> HIDE DEF y
      <4> QED
        BY <4>1 DEF IsFresh
    <3>2. ~\E j \in DOMAIN slot : slot[j].st = "running"
      BY <1>2
    <3> HIDE DEF y, slot, due
    <3> QED
      BY <2>1, <2>3, <3>1, <3>2, NoneBegins
  <2> QED
    BY <1>7, <2>2, <2>3 DEF Tick
<1>8. ASSUME NEW r \in Runners, NEW j \in Jobs, NEW how \in Outcomes, EndBody(r, j, how)
      PROVE  \A q \in Runners : Running(q)' \subseteq Running(q)
  <2> DEFINE x == run[r]
             w == [x.slot[j] EXCEPT !.st = "done", !.to = now, !.how = how]
             y == [x EXCEPT !.slot[j] = w]
  <2>1. IsRunner(x, r[2], now) /\ j \in DOMAIN x.slot
    BY <1>1, <1>8 DEF RunType, EndBody, Running
  <2>2. run' = [run EXCEPT ![r] = y]
    BY <1>8 DEF EndBody
  <2>3. y.slot = [x.slot EXCEPT ![j] = w]
    <3> HIDE DEF x, w
    <3> QED
      BY <2>1 DEF IsRunner, IsRecord
  <2>4. w.st = "done"
    BY <2>1 DEF IsRunner, IsSlot, Slot
  <2> HIDE DEF y, w
  <2>5. \A i \in DOMAIN y.slot : y.slot[i].st = "running" => i \in Running(r)
    BY <2>3, <2>4 DEF Running
  <2> QED
    BY <1>1, <2>2, <2>5, SelfFacts, NoneBegins
<1>9. ASSUME NEW s \in Services, Request(s)
      PROVE  \A r \in Runners : Running(r)' \subseteq Running(r)
  <2>1. CASE run' = run
    BY <1>1, <2>1, SelfFacts, QuietRunning
  <2>2. ASSUME NEW j \in Jobs, NEW mode \in Modes, Ask(s, j, mode)
        PROVE  \A r \in Runners : Running(r)' \subseteq Running(r)
    <3> DEFINE p == <<s, "manual">>
               slot == [i \in {j} |-> Waiting]
               y == [Idle EXCEPT !.at = "reserve", !.slot = slot, !.asked = now, !.mode = mode]
    <3>1. y.slot = slot
      <4>1. IsFresh(y, "reserve", slot, {}, <<>>, now, mode)
        BY IdleUpdates, Zenon
      <4> HIDE DEF y
      <4> QED
        BY <4>1 DEF IsFresh
    <3>2. (run' = run \/ run' = [run EXCEPT ![p] = y]) /\ p \in Runners
      BY <2>2, ServiceFacts DEF Ask
    <3>3. ~\E i \in DOMAIN slot : slot[i].st = "running"
      BY <1>2
    <3> HIDE DEF y, slot, p
    <3>4. CASE run' = [run EXCEPT ![p] = y]
      BY <1>1, <3>1, <3>2, <3>3, <3>4, SelfFacts, NoneBegins
    <3> QED
      BY <2>1, <3>2, <3>4
  <2> QED
    BY <1>9, <2>1, <2>2 DEF Request, Add, Enable, Reschedule, Update, Edit, RemoveJob, Read, Change
<1>10. ASSUME NEW s \in Services, Reserve(s)
       PROVE  \A r \in Runners : r[2] # "manual" => Running(r)' \subseteq Running(r)
  <2>1. \E y : run' = [run EXCEPT ![<<s, "manual">>] = y]
    BY <1>1, <1>10, ReserveFacts
  <2>2. \A r \in Runners : r[2] # "manual" => run'[r] = run[r]
    BY <1>1, <2>1 DEF RunType
  <2> QED
    BY <2>2 DEF Running
<1>11. ASSUME Reload \/ Boot
       PROVE  \A r \in Runners : Running(r)' \subseteq Running(r)
  <2> DEFINE y == [Idle EXCEPT !.at = "clear"]
             p == <<service + 1, "start">>
  <2>1. y.slot = NoJobs
    <3>1. IsFresh(y, "clear", NoJobs, {}, <<>>, 0, "due")
      BY IdleUpdates, Zenon
    <3> HIDE DEF y
    <3> QED
      BY <3>1 DEF IsFresh
  <2>2. run' = [run EXCEPT ![p] = y] /\ p \in Runners
    BY <1>11, ServiceFacts DEF Reload, Boot, Create, Types, RestType
  <2> HIDE DEF y, p
  <2> QED
    BY <1>1, <2>1, <2>2, SelfFacts, NoneBegins
<1>12. CASE Crash
  BY <1>12, <1>1 DEF Crash, Running, Idle
<1>13. CASE Advance \/ UNCHANGED vars
  BY <1>13 DEF Advance, vars, Running
<1> QED
  BY <1>3, <1>4, <1>5, <1>6, <1>7, <1>8, <1>9, <1>10, <1>11, <1>12, <1>13
  DEF Next, StartStep, RunnerStep, BodyStep

\* No timer and no start begins to run a job whose success is recorded.
LEMMA NoSecondRun ==
  ASSUME IInv, [Next]_vars, NEW r \in Runners, r[2] # "manual", NEW j \in done \ excused,
         j \in Running(r)'
  PROVE  j \in Running(r)
<1>1. Types /\ Calm
  BY DEF IInv, Types, RestType
<1>2. ASSUME NEW q \in Runners, NEW i \in Jobs, StartBody(q, i)
      PROVE  j \in Running(r)
  <2> DEFINE x == run[q]
             w == [Waiting EXCEPT !.st = "running", !.from = now]
             y == [x EXCEPT !.slot[i] = w]
  <2>1. RunType /\ IsRecord(x) /\ DOMAIN run = Runners /\ x.at = "bodies" /\ i \in DOMAIN x.slot
    BY <1>1, <1>2 DEF Types, RunType, IsRunner, StartBody
  <2>2. run' = [run EXCEPT ![q] = y]
    BY <1>2 DEF StartBody
  <2>3. y.slot = [x.slot EXCEPT ![i] = w]
    <3> HIDE DEF x, w
    <3> QED
      BY <2>1 DEF IsRecord
  <2> HIDE DEF y
  <2>4. j \in DOMAIN run'[r].slot /\ run'[r].slot[j].st = "running"
    BY DEF Running
  <2>5. CASE q = r
    <3>1. i # j
      BY <1>1, <2>1, <2>5 DEF Calm, Holds, HeldNew, Held
    <3>2. run'[r].slot = [x.slot EXCEPT ![i] = w]
      BY <2>1, <2>2, <2>3, <2>5
    <3> QED
      BY <2>4, <2>5, <3>1, <3>2 DEF Running
  <2>6. CASE q # r
    BY <2>1, <2>2, <2>4, <2>6 DEF Running
  <2> QED
    BY <2>5, <2>6
<1>3. CASE ~\E q \in Runners, i \in Jobs : StartBody(q, i)
  BY <1>1, <1>3, OnlyBodiesBegin
<1> QED
  BY <1>2, <1>3

\* A one-shot job whose success is recorded is not run again by a timer or a start
\* (applyJobResult disables it), through crashes and reloads, unless a request
\* enables or reschedules it.
THEOREM OneShotsRunOnce == Spec => OnceIsOnce
<1>1. ASSUME IInv, [Next]_vars
      PROVE  \A s \in Services, role \in {"start", "tick"} : \A j \in done \ excused :
               j \in Running(<<s, role>>)' => j \in Running(<<s, role>>)
  <2>1. \A s \in Services, role \in {"start", "tick"} :
          <<s, role>> \in Runners /\ <<s, role>>[2] # "manual"
    BY ServiceFacts
  <2> QED
    BY <1>1, <2>1, NoSecondRun
<1>2. IInv /\ [Next]_vars =>
        [\A s \in Services, role \in {"start", "tick"} : \A j \in done \ excused :
           j \in Running(<<s, role>>)' => j \in Running(<<s, role>>)]_vars
  BY <1>1
<1> QED
  BY <1>2, InitIInv, NextIInv, PTL DEF Spec, OnceIsOnce
=============================================================================
