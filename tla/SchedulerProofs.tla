-------------------------- MODULE SchedulerProofs --------------------------
(* Theorems about the Run queue, for every set of Runs, Threads and workers *)
(* and every lease length, delay and bound.                                 *)
EXTENDS Scheduler, TLAPS

USE SchedulerAssumption, NoClaimAssumption

-----------------------------------------------------------------------------
(* What the row updates do.                                                 *)

\* Giving a row up keeps its token and attempts and clears the lease.
LEMMA ReleaseFacts ==
    ASSUME NEW j \in Job, NEW s \in JobState
    PROVE  /\ Release(j, s) \in Job
           /\ Release(j, s).state = s
           /\ Release(j, s).token = j.token
           /\ Release(j, s).attempts = j.attempts
           /\ Release(j, s).expires = 0
  BY DEF Release, Job, JobState

\* A claim takes the next token and one attempt.
LEMMA ClaimedFacts ==
    ASSUME NEW j \in Job, NEW w \in Workers, NEW now \in Nat
    PROVE  /\ ClaimedJob(j, w, now) \in Job
           /\ ClaimedJob(j, w, now).state = "CLAIMED"
           /\ ClaimedJob(j, w, now).owner = w
           /\ ClaimedJob(j, w, now).token = j.token + 1
           /\ ClaimedJob(j, w, now).attempts = j.attempts + 1
           /\ ClaimedJob(j, w, now).expires = now + LeaseSeconds
<1>1. now + LeaseSeconds \in Nat /\ "CLAIMED" \in JobState
  BY DEF JobState
<1>2. j.token + 1 \in Nat /\ j.attempts + 1 \in Nat
  BY DEF Job
<1> QED
  BY <1>1, <1>2 DEF ClaimedJob, Job

\* A settled row is not CLAIMED and keeps token and attempts.
LEMMA SettledFacts ==
    ASSUME NEW j \in Job, NEW o \in Outcomes, NEW now \in Nat, NEW d \in Delays
    PROVE  /\ SettledJob(j, o, now, d) \in Job
           /\ SettledJob(j, o, now, d).state \in {"QUEUED", "COMPLETED", "FAILED"}
           /\ SettledJob(j, o, now, d).token = j.token
           /\ SettledJob(j, o, now, d).attempts = j.attempts
           /\ SettledJob(j, o, now, d).state = "QUEUED" => j.attempts < MaxAttempts
<1>1. CASE o = "succeeded"
  BY <1>1, ReleaseFacts DEF SettledJob, JobState
<1>2. CASE o # "succeeded" /\ MayRetry(j, o)
  <2>1. now + d \in Nat
    OBVIOUS
  <2> DEFINE q == Release(j, "QUEUED")
  <2>2. /\ q \in Job /\ q.state = "QUEUED"
        /\ q.token = j.token /\ q.attempts = j.attempts
    BY ReleaseFacts DEF JobState
  <2>3. SettledJob(j, o, now, d) = [q EXCEPT !.available = now + d]
    BY <1>2 DEF SettledJob
  <2> HIDE DEF q
  <2> QED
    BY <1>2, <2>1, <2>2, <2>3 DEF Job, MayRetry
<1>3. CASE o # "succeeded" /\ ~MayRetry(j, o)
  BY <1>3, ReleaseFacts DEF SettledJob, JobState
<1> QED
  BY <1>1, <1>2, <1>3

\* The exhaustion sweep only turns expired rows into FAILED ones.
LEMMA SweepFacts ==
    ASSUME NEW js \in [Runs -> Job], NEW now \in Nat
    PROVE  /\ FailExhausted(js, now) \in [Runs -> Job]
           /\ \A r \in Runs :
                /\ FailExhausted(js, now)[r].token = js[r].token
                /\ FailExhausted(js, now)[r].attempts = js[r].attempts
                /\ \/ FailExhausted(js, now)[r] = js[r]
                   \/ /\ Expired(js[r], now)
                      /\ FailExhausted(js, now)[r].state = "FAILED"
  BY ReleaseFacts DEF FailExhausted, JobState

\* Cancelling only turns QUEUED and CLAIMED rows into CANCELLED ones.
LEMMA CancelFacts ==
    ASSUME NEW js \in [Runs -> Job], NEW S
    PROVE  /\ CancelJobs(js, S) \in [Runs -> Job]
           /\ \A r \in Runs :
                /\ CancelJobs(js, S)[r].token = js[r].token
                /\ CancelJobs(js, S)[r].attempts = js[r].attempts
                /\ \/ CancelJobs(js, S)[r] = js[r]
                   \/ /\ js[r].state \in {"QUEUED", "CLAIMED"}
                      /\ CancelJobs(js, S)[r].state = "CANCELLED"
  BY ReleaseFacts DEF CancelJobs, JobState

LEMMA EmptyJobType == EmptyJob \in Job
  BY DEF EmptyJob, Job

LEMMA QueuedFacts ==
    ASSUME NEW p \in Priorities, NEW a \in Nat, NEW now \in Nat
    PROVE  /\ QueuedJob(p, a, now) \in Job
           /\ QueuedJob(p, a, now).state = "QUEUED"
           /\ QueuedJob(p, a, now).token = 0
           /\ QueuedJob(p, a, now).attempts = 0
  BY DEF QueuedJob, EmptyJob, Job, JobState

\* Superseding is cancelling plus a fresh row for a Run that had none.
LEMMA SupersedeFacts ==
    ASSUME TypeOK, NEW S \in SUBSET Runs, NEW r \in Runs, NEW p \in Priorities,
           NEW sent \in SendTimes, SupersedeRuns(S, r, p, sent)
    PROVE  /\ jobs[r].state = "ABSENT"
           /\ jobs' \in [Runs -> Job]
           /\ jobs'[r].state = "QUEUED" /\ jobs'[r].token = 0 /\ jobs'[r].attempts = 0
           /\ \A q \in Runs \ {r} :
                /\ jobs'[q].token = jobs[q].token
                /\ jobs'[q].attempts = jobs[q].attempts
                /\ jobs'[q] = jobs[q] \/ jobs'[q].state = "CANCELLED"
           /\ claims' = claims /\ clock' = clock
<1>1. sent \in Nat /\ jobs \in [Runs -> Job]
  BY DEF SendTimes, TypeOK
<1>2. /\ CancelJobs(jobs, S) \in [Runs -> Job]
      /\ \A q \in Runs :
            /\ CancelJobs(jobs, S)[q].token = jobs[q].token
            /\ CancelJobs(jobs, S)[q].attempts = jobs[q].attempts
            /\ \/ CancelJobs(jobs, S)[q] = jobs[q]
               \/ CancelJobs(jobs, S)[q].state = "CANCELLED"
  BY <1>1, CancelFacts
<1>3. /\ QueuedJob(p, sent, sent) \in Job
      /\ QueuedJob(p, sent, sent).state = "QUEUED"
      /\ QueuedJob(p, sent, sent).token = 0
      /\ QueuedJob(p, sent, sent).attempts = 0
  BY <1>1, QueuedFacts
<1>4. /\ jobs[r].state = "ABSENT" /\ claims' = claims /\ clock' = clock
      /\ jobs' = [CancelJobs(jobs, S) EXCEPT ![r] = QueuedJob(p, sent, sent)]
  BY DEF SupersedeRuns
<1> QED
  BY <1>2, <1>3, <1>4

-----------------------------------------------------------------------------
(* The steps by name: every proof about a step splits on these.             *)

\* A Next step is one of the operations with arguments from their sets.
LEMMA NextCases ==
    ASSUME Next
    PROVE  \/ \E r \in Runs, p \in Priorities, delay \in Delays \cup {0}, now \in Readings :
                EnqueueRun(r, p, delay, now)
           \/ \E w \in Workers, now \in Readings : FindNoRun(w, now)
           \/ \E w \in Workers, now \in Readings, r \in Runs : ClaimRun(w, r, now)
           \/ \E w \in Workers, now \in Readings : HeartbeatRun(w, now)
           \/ \E w \in Workers, now \in Readings, o \in Outcomes, delay \in Delays :
                FinishRunClaim(w, o, delay, now)
           \/ \E w \in Workers, now \in Readings : LoseLease(w, now)
           \/ \E w \in Workers : CrashWorker(w)
           \/ \E S \in SUBSET Runs : CancelRuns(S)
           \/ \E S \in SUBSET Runs, r \in Runs, p \in Priorities, sent \in SendTimes :
                SupersedeRuns(S, r, p, sent)
           \/ Tick
<1>1. \A w \in Workers : HolderReadings(w) \subseteq Readings
  BY DEF HolderReadings
<1>2. \A t : {r \in Runs : ThreadOf[r] = t} \subseteq Runs
  OBVIOUS
<1> QED
  BY <1>1, <1>2, Zenon DEF Next, Claim

LEMMA ReadingsFacts ==
    ASSUME TypeOK, NEW now \in Readings
    PROVE  /\ now \in Nat
           /\ now <= clock
           /\ LockWait = 0 => now = clock
  BY DEF Readings, TypeOK

\* A holder with a live claim: its row is CLAIMED, unexpired, with its token.
LEMMA LiveClaimFacts ==
    ASSUME TypeOK, NEW w \in Workers, NEW now, LiveClaim(w, now)
    PROVE  /\ claims[w] \in WorkerClaim
           /\ claims[w].run \in Runs
           /\ Unexpired(jobs[claims[w].run], now)
           /\ jobs[claims[w].run].owner = w
           /\ jobs[claims[w].run].token = claims[w].token
  BY DEF LiveClaim, TypeOK, WorkerClaim

\* Finishing settles the holder's row and drops its claim.
LEMMA FinishFacts ==
    ASSUME TypeOK, NEW w \in Workers, NEW now \in Readings, NEW o \in Outcomes,
           NEW d \in Delays, FinishRunClaim(w, o, d, now)
    PROVE  /\ jobs' \in [Runs -> Job]
           /\ \A q \in Runs :
                /\ jobs'[q].token = jobs[q].token
                /\ jobs'[q].attempts = jobs[q].attempts
                /\ \/ jobs'[q] = jobs[q]
                   \/ jobs'[q].state \in {"QUEUED", "COMPLETED", "FAILED"}
           /\ claims' = [claims EXCEPT ![w] = NoClaim] /\ clock' = clock
<1> DEFINE r == claims[w].run
           s == SettledJob(jobs[r], o, now, d)
<1>1. now \in Nat /\ r \in Runs /\ jobs \in [Runs -> Job] /\ jobs[r] \in Job
  BY ReadingsFacts, LiveClaimFacts DEF FinishRunClaim, TypeOK
<1>2. /\ jobs' = [jobs EXCEPT ![r] = s]
      /\ claims' = [claims EXCEPT ![w] = NoClaim] /\ clock' = clock
  BY DEF FinishRunClaim
<1>3. /\ s \in Job
      /\ s.state \in {"QUEUED", "COMPLETED", "FAILED"}
      /\ s.token = jobs[r].token
      /\ s.attempts = jobs[r].attempts
  <2> HIDE DEF r
  <2>1. ASSUME NEW j \in Job
        PROVE  LET q == SettledJob(j, o, now, d)
               IN  /\ q \in Job
                   /\ q.state \in {"QUEUED", "COMPLETED", "FAILED"}
                   /\ q.token = j.token /\ q.attempts = j.attempts
    BY <1>1, SettledFacts
  <2> QED
    BY <1>1, <2>1
<1> HIDE DEF s
<1> QED
  BY <1>1, <1>2, <1>3

-----------------------------------------------------------------------------
(* Type correctness.                                                        *)

LEMMA TypeInit == Init => TypeOK
<1> SUFFICES ASSUME Init PROVE TypeOK
  OBVIOUS
<1>1. \A r \in Runs : jobs[r] = EmptyJob
  BY DEF Init
<1>2. EmptyJob.attempts = 0
  BY DEF EmptyJob
<1> QED
  BY <1>1, <1>2, EmptyJobType DEF Init, TypeOK

LEMMA TypeStep == TypeOK /\ [Next]_schedVars => TypeOK'
<1> SUFFICES ASSUME TypeOK, [Next]_schedVars
             PROVE  TypeOK'
  OBVIOUS
<1>1. ASSUME NEW r \in Runs, NEW p \in Priorities, NEW delay \in Delays \cup {0},
             NEW now \in Readings, EnqueueRun(r, p, delay, now)
      PROVE  TypeOK'
  <2>1. now \in Nat /\ now + delay \in Nat
    BY ReadingsFacts
  <2>2. QueuedJob(p, now + delay, now) \in Job
        /\ QueuedJob(p, now + delay, now).attempts = 0
    BY <2>1, QueuedFacts
  <2> QED
    BY <1>1, <2>2 DEF EnqueueRun, TypeOK
<1>2. ASSUME NEW w \in Workers, NEW now \in Readings, FindNoRun(w, now)
      PROVE  TypeOK'
  <2>1. now \in Nat /\ jobs \in [Runs -> Job]
    BY ReadingsFacts DEF TypeOK
  <2>2. jobs' = FailExhausted(jobs, now) /\ UNCHANGED <<clock, claims>>
    BY <1>2 DEF FindNoRun
  <2>3. jobs' \in [Runs -> Job] /\ \A r \in Runs : jobs'[r].attempts = jobs[r].attempts
    BY <2>1, <2>2, SweepFacts
  <2> QED
    BY <2>2, <2>3 DEF TypeOK
<1>3. ASSUME NEW w \in Workers, NEW now \in Readings, NEW r \in Runs,
             ClaimRun(w, r, now)
      PROVE  TypeOK'
  <2> DEFINE swept == FailExhausted(jobs, now)
  <2>1. now \in Nat
    BY ReadingsFacts
  <2>2. swept \in [Runs -> Job] /\ \A q \in Runs : swept[q].attempts <= MaxAttempts
    BY <2>1, SweepFacts DEF TypeOK
  <2>3. /\ swept[r].attempts < MaxAttempts
        /\ jobs' = [swept EXCEPT ![r] = ClaimedJob(swept[r], w, now)]
        /\ claims' = [claims EXCEPT ![w] =
                        [run |-> r, token |-> swept[r].token + 1,
                         expires |-> now + LeaseSeconds]]
        /\ clock' = clock
    BY <1>3 DEF ClaimRun, Candidates
  <2> HIDE DEF swept
  <2>4. ClaimedJob(swept[r], w, now) \in Job
        /\ ClaimedJob(swept[r], w, now).attempts = swept[r].attempts + 1
    BY <2>1, <2>2, ClaimedFacts
  <2>5. swept[r].attempts \in Nat /\ swept[r].token \in Nat
    BY <2>2 DEF Job
  <2>6. [run |-> r, token |-> swept[r].token + 1,
         expires |-> now + LeaseSeconds] \in WorkerClaim
    BY <2>1, <2>5 DEF WorkerClaim
  <2>7. \A q \in Runs : jobs'[q].attempts <= MaxAttempts
    BY <2>2, <2>3, <2>4, <2>5
  <2> QED
    BY <2>2, <2>3, <2>4, <2>6, <2>7 DEF TypeOK
<1>4. ASSUME NEW w \in Workers, NEW now \in Readings, HeartbeatRun(w, now)
      PROVE  TypeOK'
  <2>1. now + LeaseSeconds \in Nat
    BY ReadingsFacts
  <2>2. claims[w] \in WorkerClaim /\ claims[w].run \in Runs
    BY <1>4, LiveClaimFacts DEF HeartbeatRun
  <2>3. [claims[w] EXCEPT !.expires = now + LeaseSeconds] \in WorkerClaim
    BY <2>1, <2>2 DEF WorkerClaim
  <2>4. [jobs[claims[w].run] EXCEPT !.expires = now + LeaseSeconds] \in Job
    BY <2>1, <2>2 DEF TypeOK, Job
  <2>5. [jobs[claims[w].run] EXCEPT !.expires = now + LeaseSeconds].attempts
            = jobs[claims[w].run].attempts
    BY <2>2 DEF TypeOK, Job
  <2> QED
    BY <1>4, <2>2, <2>3, <2>4, <2>5 DEF HeartbeatRun, TypeOK
<1>5. ASSUME NEW w \in Workers, NEW now \in Readings, NEW o \in Outcomes,
             NEW delay \in Delays, FinishRunClaim(w, o, delay, now)
      PROVE  TypeOK'
  <2>1. /\ jobs' \in [Runs -> Job] /\ clock' = clock
        /\ claims' = [claims EXCEPT ![w] = NoClaim]
        /\ \A r \in Runs : jobs'[r].attempts = jobs[r].attempts
    BY <1>5, FinishFacts
  <2> QED
    BY <2>1 DEF TypeOK
<1>6. ASSUME NEW w \in Workers, NEW now \in Readings, LoseLease(w, now)
      PROVE  TypeOK'
  BY <1>6 DEF LoseLease, TypeOK
<1>7. ASSUME NEW w \in Workers, CrashWorker(w)
      PROVE  TypeOK'
  BY <1>7 DEF CrashWorker, TypeOK
<1>8. ASSUME NEW S \in SUBSET Runs, CancelRuns(S)
      PROVE  TypeOK'
  BY <1>8, CancelFacts DEF CancelRuns, TypeOK
<1>9. ASSUME NEW S \in SUBSET Runs, NEW r \in Runs, NEW p \in Priorities,
             NEW sent \in SendTimes, SupersedeRuns(S, r, p, sent)
      PROVE  TypeOK'
  <2>1. /\ jobs' \in [Runs -> Job] /\ claims' = claims /\ clock' = clock
        /\ jobs'[r].attempts = 0
        /\ \A q \in Runs \ {r} : jobs'[q].attempts = jobs[q].attempts
    BY <1>9, SupersedeFacts
  <2>2. \A q \in Runs : jobs'[q].attempts <= MaxAttempts
    BY <2>1 DEF TypeOK
  <2> QED
    BY <2>1, <2>2 DEF TypeOK
<1>10. CASE Tick
  BY <1>10 DEF Tick, TypeOK
<1>11. CASE UNCHANGED schedVars
  BY <1>11 DEF schedVars, TypeOK
<1> QED
  BY <1>1, <1>2, <1>3, <1>4, <1>5, <1>6, <1>7, <1>8, <1>9, <1>10, <1>11, NextCases

\* Every reachable state is well typed and no Run is ever claimed more often
\* than max_attempts allows.
THEOREM TypeCorrect == Spec => []TypeOK
  BY TypeInit, TypeStep, PTL DEF Spec

-----------------------------------------------------------------------------
(* Fencing, with stale clock readings allowed.  FencedClaims is not         *)
(* inductive alone: enqueueing starts a row at token 0, so one must know    *)
(* that a Run without a row has given no token out.                         *)

FencingInv ==
    /\ TypeOK
    /\ FencedClaims
    /\ \A r \in Runs : jobs[r].state = "ABSENT" => jobs[r].token = 0

\* A step that leaves the claims alone or drops or extends some of them, keeps
\* every token, and leaves each row as it was unless it is not CLAIMED.
LEMMA FencingKept ==
    ASSUME FencingInv, TypeOK',
           \A w \in Workers, r \in Runs : Holds(w, r)' =>
                Holds(w, r) /\ claims'[w].token = claims[w].token,
           \A r \in Runs :
                /\ jobs'[r].token = jobs[r].token
                /\ jobs'[r].state = "ABSENT" => jobs[r].state = "ABSENT"
                /\ jobs'[r].state = "CLAIMED" =>
                        jobs[r].state = "CLAIMED" /\ jobs'[r].owner = jobs[r].owner
    PROVE  FencingInv'
<1>1. FencedClaims'
  <2> SUFFICES ASSUME NEW r \in Runs, NEW w \in Workers, Holds(w, r)'
               PROVE  /\ claims'[w].token <= jobs'[r].token
                      /\ \A v \in Workers \ {w} :
                            Holds(v, r)' => claims'[v].token # claims'[w].token
                      /\ jobs'[r].state = "CLAIMED" /\ jobs'[r].token = claims'[w].token
                            => jobs'[r].owner = w
    BY DEF FencedClaims
  <2> QED
    BY DEF FencingInv, FencedClaims
<1> QED
  BY <1>1 DEF FencingInv

LEMMA FencingStep == FencingInv /\ [Next]_schedVars => FencingInv'
<1> SUFFICES ASSUME FencingInv, [Next]_schedVars
             PROVE  FencingInv'
  OBVIOUS
<1>0. TypeOK /\ TypeOK' /\ jobs \in [Runs -> Job] /\ jobs' \in [Runs -> Job]
  BY TypeStep DEF FencingInv, TypeOK
<1>1. ASSUME NEW r \in Runs, NEW p \in Priorities, NEW delay \in Delays \cup {0},
             NEW now \in Readings, EnqueueRun(r, p, delay, now)
      PROVE  FencingInv'
  <2>1. now \in Nat /\ now + delay \in Nat
    BY <1>0, ReadingsFacts
  <2>2. /\ QueuedJob(p, now + delay, now).state = "QUEUED"
        /\ QueuedJob(p, now + delay, now).token = 0
    BY <2>1, QueuedFacts
  <2>3. jobs[r].token = 0 /\ claims' = claims
        /\ jobs' = [jobs EXCEPT ![r] = QueuedJob(p, now + delay, now)]
    BY <1>1 DEF EnqueueRun, FencingInv
  <2>4. \A q \in Runs :
            /\ jobs'[q].token = jobs[q].token
            /\ jobs'[q].state = "ABSENT" => jobs[q].state = "ABSENT"
            /\ jobs'[q].state = "CLAIMED" =>
                    jobs[q].state = "CLAIMED" /\ jobs'[q].owner = jobs[q].owner
    BY <1>0, <2>2, <2>3
  <2> QED
    BY <1>0, <2>3, <2>4, FencingKept DEF Holds
<1>2. ASSUME NEW w \in Workers, NEW now \in Readings, FindNoRun(w, now)
      PROVE  FencingInv'
  <2>1. now \in Nat
    BY <1>0, ReadingsFacts
  <2>2. jobs' = FailExhausted(jobs, now) /\ claims' = claims
    BY <1>2 DEF FindNoRun
  <2>3. \A q \in Runs :
            /\ jobs'[q].token = jobs[q].token
            /\ jobs'[q] = jobs[q] \/ jobs'[q].state = "FAILED"
    BY <1>0, <2>1, <2>2, SweepFacts
  <2> QED
    BY <1>0, <2>2, <2>3, FencingKept DEF Holds
<1>3. ASSUME NEW w \in Workers, NEW now \in Readings, NEW r \in Runs,
             ClaimRun(w, r, now)
      PROVE  FencingInv'
  <2> DEFINE swept == FailExhausted(jobs, now)
             new == [run |-> r, token |-> swept[r].token + 1,
                     expires |-> now + LeaseSeconds]
  <2>1. now \in Nat
    BY <1>0, ReadingsFacts
  <2>2. /\ swept \in [Runs -> Job]
        /\ \A q \in Runs : /\ swept[q].token = jobs[q].token
                           /\ swept[q] = jobs[q] \/ swept[q].state = "FAILED"
    BY <1>0, <2>1, SweepFacts
  <2>3. /\ jobs' = [swept EXCEPT ![r] = ClaimedJob(swept[r], w, now)]
        /\ claims' = [claims EXCEPT ![w] = new]
    BY <1>3 DEF ClaimRun
  <2> HIDE DEF swept
  <2>4. jobs'[r] = ClaimedJob(swept[r], w, now) /\ \A q \in Runs \ {r} : jobs'[q] = swept[q]
    BY <2>2, <2>3
  <2>5. /\ jobs'[r].state = "CLAIMED" /\ jobs'[r].owner = w
        /\ jobs'[r].token = jobs[r].token + 1 /\ jobs[r].token \in Nat
    BY <1>0, <2>1, <2>2, <2>4, ClaimedFacts DEF Job
  <2>6. \A q \in Runs \ {r} :
            /\ jobs'[q].token = jobs[q].token
            /\ jobs'[q] = jobs[q] \/ jobs'[q].state = "FAILED"
    BY <2>2, <2>4
  <2>7. claims'[w] = new /\ \A v \in Workers \ {w} : claims'[v] = claims[v]
    BY <1>0, <2>3 DEF TypeOK
  <2>8. claims'[w] # NoClaim
    BY <1>0, <2>5, <2>7, <2>2, <2>1 DEF WorkerClaim
  <2>9. /\ claims'[w].run = r /\ claims'[w].token = jobs[r].token + 1
        /\ \A q \in Runs : Holds(w, q)' => q = r
    BY <2>2, <2>7, <2>8 DEF Holds
  <2>10. \A v \in Workers \ {w}, q \in Runs : Holds(v, q)' =>
            Holds(v, q) /\ claims'[v].token = claims[v].token
                /\ claims[v].token <= jobs[q].token /\ claims[v].token \in Nat
    BY <1>0, <2>7 DEF Holds, FencingInv, FencedClaims, TypeOK, WorkerClaim
  <2>11. FencedClaims'
    <3> SUFFICES ASSUME NEW q \in Runs, NEW u \in Workers, Holds(u, q)'
                 PROVE  /\ claims'[u].token <= jobs'[q].token
                        /\ \A v \in Workers \ {u} :
                              Holds(v, q)' => claims'[v].token # claims'[u].token
                        /\ jobs'[q].state = "CLAIMED" /\ jobs'[q].token = claims'[u].token
                              => jobs'[q].owner = u
      BY DEF FencedClaims
    <3>1. CASE u = w
      BY <3>1, <2>5, <2>9, <2>10
    <3>2. CASE u # w /\ q = r
      BY <3>2, <2>5, <2>9, <2>10 DEF FencingInv, FencedClaims
    <3>3. CASE u # w /\ q # r
      BY <3>3, <2>6, <2>9, <2>10 DEF FencingInv, FencedClaims
    <3> QED
      BY <3>1, <3>2, <3>3
  <2> QED
    BY <1>0, <2>5, <2>6, <2>11 DEF FencingInv
<1>4. ASSUME NEW w \in Workers, NEW now \in Readings, HeartbeatRun(w, now)
      PROVE  FencingInv'
  <2> DEFINE e == now + LeaseSeconds
  <2>1. claims[w] # NoClaim /\ claims[w] \in WorkerClaim /\ claims[w].run \in Runs
    BY <1>0, <1>4, LiveClaimFacts DEF HeartbeatRun, LiveClaim
  <2>2. /\ jobs' = [jobs EXCEPT ![claims[w].run] = [jobs[claims[w].run] EXCEPT !.expires = e]]
        /\ claims' = [claims EXCEPT ![w] = [claims[w] EXCEPT !.expires = e]]
    BY <1>4 DEF HeartbeatRun
  <2>3. \A q \in Runs : /\ jobs'[q].token = jobs[q].token
                        /\ jobs'[q].state = jobs[q].state
                        /\ jobs'[q].owner = jobs[q].owner
    BY <1>0, <2>1, <2>2 DEF Job
  <2>4. \A v \in Workers : claims'[v] # NoClaim =>
            /\ claims[v] # NoClaim
            /\ claims'[v].run = claims[v].run /\ claims'[v].token = claims[v].token
    BY <1>0, <2>1, <2>2 DEF TypeOK, WorkerClaim
  <2> QED
    BY <1>0, <2>3, <2>4, FencingKept DEF Holds
<1>5. ASSUME NEW w \in Workers, NEW now \in Readings, NEW o \in Outcomes,
             NEW delay \in Delays, FinishRunClaim(w, o, delay, now)
      PROVE  FencingInv'
  <2>1. /\ claims' = [claims EXCEPT ![w] = NoClaim]
        /\ \A q \in Runs :
              /\ jobs'[q].token = jobs[q].token
              /\ jobs'[q] = jobs[q] \/ jobs'[q].state \in {"QUEUED", "COMPLETED", "FAILED"}
    BY <1>0, <1>5, FinishFacts
  <2>2. \A v \in Workers : claims'[v] # NoClaim => claims'[v] = claims[v]
    BY <1>0, <2>1 DEF TypeOK
  <2> QED
    BY <1>0, <2>1, <2>2, FencingKept DEF Holds
<1>6. ASSUME NEW w \in Workers, NEW now \in Readings, LoseLease(w, now)
      PROVE  FencingInv'
  <2>1. jobs' = jobs /\ \A v \in Workers : claims'[v] # NoClaim => claims'[v] = claims[v]
    BY <1>0, <1>6 DEF LoseLease, TypeOK
  <2> QED
    BY <1>0, <2>1, FencingKept DEF Holds
<1>7. ASSUME NEW w \in Workers, CrashWorker(w)
      PROVE  FencingInv'
  <2>1. jobs' = jobs /\ \A v \in Workers : claims'[v] # NoClaim => claims'[v] = claims[v]
    BY <1>0, <1>7 DEF CrashWorker, TypeOK
  <2> QED
    BY <1>0, <2>1, FencingKept DEF Holds
<1>8. ASSUME NEW S \in SUBSET Runs, CancelRuns(S)
      PROVE  FencingInv'
  <2>1. /\ claims' = claims
        /\ \A q \in Runs : /\ jobs'[q].token = jobs[q].token
                           /\ jobs'[q] = jobs[q] \/ jobs'[q].state = "CANCELLED"
    BY <1>0, <1>8, CancelFacts DEF CancelRuns
  <2> QED
    BY <1>0, <2>1, FencingKept DEF Holds
<1>9. ASSUME NEW S \in SUBSET Runs, NEW r \in Runs, NEW p \in Priorities,
             NEW sent \in SendTimes, SupersedeRuns(S, r, p, sent)
      PROVE  FencingInv'
  <2>1. /\ claims' = claims
        /\ \A q \in Runs :
              /\ jobs'[q].token = jobs[q].token
              /\ jobs'[q] = jobs[q] \/ jobs'[q].state \in {"QUEUED", "CANCELLED"}
    BY <1>0, <1>9, SupersedeFacts DEF FencingInv
  <2> QED
    BY <1>0, <2>1, FencingKept DEF Holds
<1>10. CASE Tick
  BY <1>0, <1>10, FencingKept DEF Tick, Holds
<1>11. CASE UNCHANGED schedVars
  BY <1>0, <1>11, FencingKept DEF schedVars, Holds
<1> QED
  BY <1>1, <1>2, <1>3, <1>4, <1>5, <1>6, <1>7, <1>8, <1>9, <1>10, <1>11, NextCases

LEMMA FencingInit == Init => FencingInv
<1>1. Init => FencedClaims
  BY DEF Init, FencedClaims, Holds
<1>2. Init => \A r \in Runs : jobs[r].token = 0
  <2>1. EmptyJob.token = 0
    BY DEF EmptyJob
  <2> QED
    BY <2>1 DEF Init
<1> QED
  BY <1>1, <1>2, TypeInit DEF FencingInv

LEMMA FencingInvariant == Spec => []FencingInv
  BY FencingInit, FencingStep, PTL DEF Spec

\* However stale the clock readings are, no claim in any worker's hands is
\* newer than its row and no two workers hold the same token of a Run.
THEOREM Fencing == Spec => []FencedClaims
<1>1. FencingInv => FencedClaims
  BY DEF FencingInv
<1> QED
  BY <1>1, FencingInvariant, PTL


-----------------------------------------------------------------------------
(* What a step does to the leases when a transaction uses the time at which *)
(* it holds the lock (LockWait = 0): it is a claim, or it keeps every token *)
(* and makes no lease live that was not live.                               *)

LeasesOnlyEnd ==
    \A r \in Runs :
        /\ jobs'[r].token = jobs[r].token
        /\ Live(r)' => Live(r) /\ jobs'[r].owner = jobs[r].owner

ClaimStep == \E w \in Workers, now \in Readings, r \in Runs : ClaimRun(w, r, now)

\* A heartbeat extends only a lease that is still live; everything else ends
\* leases or touches rows that are not claimed.
LEMMA ClaimOrEnd ==
    ASSUME FencingInv, LockWait = 0, [Next]_schedVars
    PROVE  ClaimStep \/ LeasesOnlyEnd
<1>0. TypeOK /\ jobs \in [Runs -> Job] /\ clock \in Nat
  BY DEF FencingInv, TypeOK
<1> USE DEF Live, Unexpired
<1>1. ASSUME NEW r \in Runs, NEW p \in Priorities, NEW delay \in Delays \cup {0},
             NEW now \in Readings, EnqueueRun(r, p, delay, now)
      PROVE  LeasesOnlyEnd
  <2>1. now \in Nat /\ now + delay \in Nat
    BY <1>0, ReadingsFacts
  <2>2. /\ QueuedJob(p, now + delay, now).state = "QUEUED"
        /\ QueuedJob(p, now + delay, now).token = 0
    BY <2>1, QueuedFacts
  <2>3. jobs[r].token = 0 /\ clock' = clock
        /\ jobs' = [jobs EXCEPT ![r] = QueuedJob(p, now + delay, now)]
    BY <1>1 DEF EnqueueRun, FencingInv
  <2> QED
    BY <1>0, <2>2, <2>3 DEF LeasesOnlyEnd
<1>2. ASSUME NEW w \in Workers, NEW now \in Readings, FindNoRun(w, now)
      PROVE  LeasesOnlyEnd
  <2>1. now \in Nat
    BY <1>0, ReadingsFacts
  <2>2. jobs' = FailExhausted(jobs, now) /\ clock' = clock
    BY <1>2 DEF FindNoRun
  <2>3. \A q \in Runs : /\ jobs'[q].token = jobs[q].token
                        /\ jobs'[q] = jobs[q] \/ jobs'[q].state = "FAILED"
    BY <1>0, <2>1, <2>2, SweepFacts
  <2> QED
    BY <2>2, <2>3 DEF LeasesOnlyEnd
<1>3. ASSUME NEW w \in Workers, NEW now \in Readings, HeartbeatRun(w, now)
      PROVE  LeasesOnlyEnd
  <2> DEFINE r == claims[w].run
             j == [jobs[r] EXCEPT !.expires = now + LeaseSeconds]
  <2>1. now = clock
    BY <1>0, ReadingsFacts
  <2>2. r \in Runs /\ Live(r)
    BY <1>0, <1>3, <2>1, LiveClaimFacts DEF HeartbeatRun
  <2>3. j.token = jobs[r].token /\ j.owner = jobs[r].owner
    BY <1>0, <2>2 DEF Job
  <2>4. clock' = clock /\ jobs' = [jobs EXCEPT ![r] = j]
    BY <1>3 DEF HeartbeatRun
  <2>5. jobs'[r] = j /\ \A q \in Runs \ {r} : jobs'[q] = jobs[q]
    BY <1>0, <2>2, <2>4
  <2> QED
    BY <2>2, <2>3, <2>4, <2>5 DEF LeasesOnlyEnd
<1>4. ASSUME NEW w \in Workers, NEW now \in Readings, NEW o \in Outcomes,
             NEW delay \in Delays, FinishRunClaim(w, o, delay, now)
      PROVE  LeasesOnlyEnd
  <2>1. /\ clock' = clock
        /\ \A q \in Runs :
              /\ jobs'[q].token = jobs[q].token
              /\ jobs'[q] = jobs[q] \/ jobs'[q].state \in {"QUEUED", "COMPLETED", "FAILED"}
    BY <1>0, <1>4, FinishFacts
  <2> QED
    BY <2>1 DEF LeasesOnlyEnd
<1>5. ASSUME NEW w \in Workers, NEW now \in Readings, LoseLease(w, now)
      PROVE  LeasesOnlyEnd
  BY <1>5 DEF LoseLease, LeasesOnlyEnd
<1>6. ASSUME NEW w \in Workers, CrashWorker(w)
      PROVE  LeasesOnlyEnd
  BY <1>6 DEF CrashWorker, LeasesOnlyEnd
<1>7. ASSUME NEW S \in SUBSET Runs, CancelRuns(S)
      PROVE  LeasesOnlyEnd
  <2>1. /\ clock' = clock
        /\ \A q \in Runs : /\ jobs'[q].token = jobs[q].token
                           /\ jobs'[q] = jobs[q] \/ jobs'[q].state = "CANCELLED"
    BY <1>0, <1>7, CancelFacts DEF CancelRuns
  <2> QED
    BY <2>1 DEF LeasesOnlyEnd
<1>8. ASSUME NEW S \in SUBSET Runs, NEW r \in Runs, NEW p \in Priorities,
             NEW sent \in SendTimes, SupersedeRuns(S, r, p, sent)
      PROVE  LeasesOnlyEnd
  <2>1. /\ clock' = clock
        /\ \A q \in Runs :
              /\ jobs'[q].token = jobs[q].token
              /\ jobs'[q] = jobs[q] \/ jobs'[q].state \in {"QUEUED", "CANCELLED"}
    BY <1>0, <1>8, SupersedeFacts DEF FencingInv
  <2> QED
    BY <2>1 DEF LeasesOnlyEnd
<1>9. CASE Tick
  <2>1. clock' = clock + 1 /\ jobs' = jobs /\ \A q \in Runs : jobs[q].expires \in Nat
    BY <1>0, <1>9 DEF Tick, Job
  <2> QED
    BY <1>0, <2>1 DEF LeasesOnlyEnd
<1>10. CASE UNCHANGED schedVars
  BY <1>10 DEF schedVars, LeasesOnlyEnd
<1> QED
  BY <1>1, <1>2, <1>3, <1>4, <1>5, <1>6, <1>7, <1>8, <1>9, <1>10, NextCases DEF ClaimStep

\* A claim checks the other Runs of the Thread at the current time: no lease
\* of the Thread is live before it, and only the claimed Run's is after it.
LEMMA ClaimLeases ==
    ASSUME TypeOK, LockWait = 0,
           NEW w \in Workers, NEW now \in Readings, NEW r \in Runs, ClaimRun(w, r, now)
    PROVE  /\ \A o \in Runs : ThreadOf[o] = ThreadOf[r] => ~Live(o)
           /\ Live(r)' /\ jobs'[r].owner = w /\ jobs'[r].token = jobs[r].token + 1
           /\ \A o \in Runs \ {r} :
                /\ Live(o)' <=> Live(o)
                /\ Live(o) => jobs'[o].owner = jobs[o].owner
                /\ jobs'[o].token = jobs[o].token
<1> DEFINE swept == FailExhausted(jobs, now)
<1>1. now = clock /\ now \in Nat /\ jobs \in [Runs -> Job]
  BY ReadingsFacts DEF TypeOK
<1>2. /\ swept \in [Runs -> Job]
      /\ \A q \in Runs :
            /\ swept[q].token = jobs[q].token
            /\ swept[q] = jobs[q] \/ (Expired(jobs[q], now) /\ swept[q].state = "FAILED")
  BY <1>1, SweepFacts
<1>3. /\ \A o \in Runs \ {r} : ThreadOf[o] = ThreadOf[r] => ~Unexpired(swept[o], now)
      /\ swept[r].state = "QUEUED" \/ Expired(swept[r], now)
      /\ jobs' = [swept EXCEPT ![r] = ClaimedJob(swept[r], w, now)]
      /\ clock' = clock
  BY DEF ClaimRun, Candidates, ThreadBusy
<1> HIDE DEF swept
<1>4. /\ jobs'[r] = ClaimedJob(swept[r], w, now)
      /\ \A o \in Runs \ {r} : jobs'[o] = swept[o]
  BY <1>2, <1>3
<1>5. /\ jobs'[r].state = "CLAIMED" /\ jobs'[r].owner = w
      /\ jobs'[r].token = jobs[r].token + 1
      /\ jobs'[r].expires = now + LeaseSeconds
  <2>1. swept[r] \in Job /\ swept[r].token = jobs[r].token
    BY <1>2
  <2> QED
    BY <1>1, <1>4, <2>1, ClaimedFacts
<1>6. \A o \in Runs : jobs[o].expires \in Nat
  BY <1>1 DEF Job
<1>7. \A o \in Runs : ThreadOf[o] = ThreadOf[r] => ~Live(o)
  BY <1>1, <1>2, <1>3, <1>6 DEF Live, Unexpired, Expired
<1>8. Live(r)'
  BY <1>1, <1>3, <1>5 DEF Live, Unexpired
<1>9. \A o \in Runs \ {r} :
          /\ Live(o)' <=> Live(o)
          /\ Live(o) => jobs'[o].owner = jobs[o].owner
          /\ jobs'[o].token = jobs[o].token
  BY <1>1, <1>2, <1>3, <1>4, <1>6 DEF Live, Unexpired, Expired
<1> QED
  BY <1>5, <1>7, <1>8, <1>9

-----------------------------------------------------------------------------
(* Mutual exclusion.                                                        *)

\* If no time passes between reading the clock and holding the write lock,
\* two Runs of a Thread are never claimed by unexpired leases at once.
THEOREM MutualExclusion ==
    ASSUME LockWait = 0
    PROVE  Spec => []OneLiveRunPerThread
<1>1. Init => OneLiveRunPerThread
  BY DEF Init, OneLiveRunPerThread, Live, Unexpired, EmptyJob
<1>2. FencingInv /\ OneLiveRunPerThread /\ [Next]_schedVars => OneLiveRunPerThread'
  <2> SUFFICES ASSUME FencingInv, OneLiveRunPerThread, [Next]_schedVars
               PROVE  OneLiveRunPerThread'
    OBVIOUS
  <2>1. CASE ClaimStep
    <3>1. PICK w \in Workers, now \in Readings, r \in Runs : ClaimRun(w, r, now)
      BY <2>1 DEF ClaimStep
    <3>2. /\ \A o \in Runs : ThreadOf[o] = ThreadOf[r] => ~Live(o)
          /\ \A o \in Runs \ {r} : Live(o)' <=> Live(o)
      BY <3>1, ClaimLeases DEF FencingInv
    <3> QED
      BY <3>2 DEF OneLiveRunPerThread
  <2>2. CASE LeasesOnlyEnd
    BY <2>2 DEF LeasesOnlyEnd, OneLiveRunPerThread
  <2> QED
    BY <2>1, <2>2, ClaimOrEnd
<1> QED
  BY <1>1, <1>2, FencingInvariant, PTL DEF Spec

-----------------------------------------------------------------------------
(* The queue implements FencedLease when LockWait = 0.                      *)

LEMMA LeaseInit == Init => Leases!Init
<1>1. EmptyJob.state = "ABSENT" /\ EmptyJob.token = 0
  BY DEF EmptyJob
<1> QED
  BY <1>1 DEF Init, Leases!Init, Live, Unexpired

HolderMap == [r \in Runs |-> IF Live(r) THEN jobs[r].owner ELSE NoWorker]
TokenMap  == [r \in Runs |-> jobs[r].token]

\* A claim is a Grant; every other step is an End.
LEMMA LeaseStep ==
    ASSUME FencingInv, LockWait = 0, [Next]_schedVars
    PROVE  Leases!Next
<1>1. CASE ClaimStep
  <2>1. PICK w \in Workers, now \in Readings, r \in Runs : ClaimRun(w, r, now)
    BY <1>1 DEF ClaimStep
  <2>2. /\ \A o \in Runs : ThreadOf[o] = ThreadOf[r] => ~Live(o)
        /\ Live(r)' /\ jobs'[r].owner = w /\ jobs'[r].token = jobs[r].token + 1
        /\ \A o \in Runs \ {r} :
              /\ Live(o)' <=> Live(o)
              /\ Live(o) => jobs'[o].owner = jobs[o].owner
              /\ jobs'[o].token = jobs[o].token
    BY <2>1, ClaimLeases DEF FencingInv
  <2>3. Leases!Free(r)
    BY <2>2 DEF Leases!Free
  <2>4. HolderMap' = [HolderMap EXCEPT ![r] = w]
    BY <2>2 DEF HolderMap
  <2>5. TokenMap' = [TokenMap EXCEPT ![r] = TokenMap[r] + 1]
    BY <2>2 DEF TokenMap
  <2> QED
    BY <2>3, <2>4, <2>5 DEF Leases!Grant, Leases!Next, HolderMap, TokenMap
<1>2. CASE LeasesOnlyEnd
  <2> DEFINE S == {r \in Runs : ~Live(r)'}
  <2>1. HolderMap' = [r \in Runs |-> IF r \in S THEN NoWorker ELSE HolderMap[r]]
    BY <1>2 DEF LeasesOnlyEnd, HolderMap
  <2>2. TokenMap' = TokenMap
    BY <1>2 DEF LeasesOnlyEnd, TokenMap
  <2>3. S \in SUBSET Runs
    OBVIOUS
  <2> HIDE DEF S
  <2> QED
    BY <2>1, <2>2, <2>3 DEF Leases!End, Leases!Next, HolderMap, TokenMap
<1> QED
  BY <1>1, <1>2, ClaimOrEnd

\* With fresh clock readings the Run queue is a fenced lease service: one
\* holder per Thread, a larger token with every grant, no lease that comes
\* back from expiry.
THEOREM ImplementsFencedLease ==
    ASSUME LockWait = 0
    PROVE  Spec => LeaseSpec
<1>1. FencingInv /\ [Next]_schedVars => Leases!Next
  BY LeaseStep
<1> QED
  BY <1>1, LeaseInit, FencingInvariant, PTL DEF Spec, LeaseSpec, Leases!Spec

\* With fresh clock readings a lease that has expired stays so until a claim
\* with a larger token.
THEOREM NothingRevived ==
    ASSUME LockWait = 0
    PROVE  Spec => NeverRevived
<1> DEFINE Step == \A r \in Runs : ~Live(r) /\ Live(r)' => jobs'[r].token > jobs[r].token
<1>1. FencingInv /\ [Next]_schedVars => Step
  <2> SUFFICES ASSUME FencingInv, [Next]_schedVars PROVE Step
    OBVIOUS
  <2>1. CASE ClaimStep
    <3>1. PICK w \in Workers, now \in Readings, r \in Runs : ClaimRun(w, r, now)
      BY <2>1 DEF ClaimStep
    <3>2. /\ jobs'[r].token = jobs[r].token + 1
          /\ \A o \in Runs \ {r} : Live(o)' <=> Live(o)
      BY <3>1, ClaimLeases DEF FencingInv
    <3>3. jobs[r].token \in Nat
      BY DEF FencingInv, TypeOK, Job
    <3> QED
      BY <3>2, <3>3
  <2>2. CASE LeasesOnlyEnd
    BY <2>2 DEF LeasesOnlyEnd
  <2> QED
    BY <2>1, <2>2, ClaimOrEnd
<1> QED
  BY <1>1, FencingInvariant, PTL DEF Spec, NeverRevived

-----------------------------------------------------------------------------
(* What a step may do to a row, with clock readings of any age.             *)

Created(q) ==
    jobs[q].state = "ABSENT" /\ jobs'[q].state = "QUEUED" /\ jobs'[q].attempts = 0
TakenOver(q) ==
    /\ jobs[q].state = "QUEUED" \/ Expired(jobs[q], clock)
    /\ jobs'[q].state = "CLAIMED"
    /\ jobs'[q].token = jobs[q].token + 1
MovedByHolder(q) ==
    /\ jobs[q].state = "CLAIMED"
    /\ \E w \in Workers : Holds(w, q) /\ claims[w].token = jobs[q].token
    /\ jobs'[q].token = jobs[q].token
    /\ jobs'[q].state = "QUEUED" => jobs'[q].attempts < MaxAttempts
Ended(q) ==
    /\ jobs[q].state \in {"QUEUED", "CLAIMED"}
    /\ jobs'[q].state \in {"FAILED", "CANCELLED"}
    /\ jobs'[q].token = jobs[q].token
    /\ jobs'[q].expires = 0

RowMove(q) ==
    jobs'[q] = jobs[q] \/ Created(q) \/ TakenOver(q) \/ MovedByHolder(q) \/ Ended(q)

\* A holder that passes the fence, with the row it is about to change.
LEMMA HolderMoves ==
    ASSUME TypeOK, NEW w \in Workers, NEW now, LiveClaim(w, now)
    PROVE  /\ claims[w].run \in Runs /\ jobs[claims[w].run] \in Job
           /\ Holds(w, claims[w].run)
           /\ jobs[claims[w].run].state = "CLAIMED"
           /\ claims[w].token = jobs[claims[w].run].token
<1>1. claims[w].run \in Runs /\ claims[w] # NoClaim
  BY LiveClaimFacts DEF LiveClaim
<1> QED
  BY <1>1 DEF LiveClaim, Unexpired, Holds, TypeOK

LEMMA RowMoves ==
    ASSUME TypeOK, [Next]_schedVars, NEW q \in Runs
    PROVE  RowMove(q)
<1>0. jobs \in [Runs -> Job] /\ clock \in Nat
  BY DEF TypeOK
<1> USE DEF RowMove
<1>1. ASSUME NEW r \in Runs, NEW p \in Priorities, NEW delay \in Delays \cup {0},
             NEW now \in Readings, EnqueueRun(r, p, delay, now)
      PROVE  RowMove(q)
  <2>1. now \in Nat /\ now + delay \in Nat
    BY ReadingsFacts
  <2>2. /\ QueuedJob(p, now + delay, now).state = "QUEUED"
        /\ QueuedJob(p, now + delay, now).attempts = 0
    BY <2>1, QueuedFacts
  <2> QED
    BY <1>0, <1>1, <2>2 DEF EnqueueRun, Created
<1>2. ASSUME NEW now \in Readings
      PROVE  LET swept == FailExhausted(jobs, now)
             IN  /\ swept[q] \in Job /\ swept[q].token = jobs[q].token
                 /\ \/ swept[q] = jobs[q]
                    \/ /\ jobs[q].state = "CLAIMED" /\ swept[q].state = "FAILED"
                       /\ swept[q].expires = 0
  <2>1. now \in Nat
    BY ReadingsFacts
  <2>2. /\ FailExhausted(jobs, now)[q] \in Job
        /\ FailExhausted(jobs, now)[q].token = jobs[q].token
    BY <1>0, <2>1, SweepFacts
  <2>3. \/ FailExhausted(jobs, now)[q] = jobs[q]
        \/ /\ jobs[q].state = "CLAIMED"
           /\ FailExhausted(jobs, now)[q] = Release(jobs[q], "FAILED")
    BY DEF FailExhausted, Expired
  <2>4. /\ Release(jobs[q], "FAILED").state = "FAILED"
        /\ Release(jobs[q], "FAILED").expires = 0
    BY <1>0, ReleaseFacts DEF JobState
  <2> QED
    BY <2>2, <2>3, <2>4
<1>3. ASSUME NEW w \in Workers, NEW now \in Readings, FindNoRun(w, now)
      PROVE  RowMove(q)
  BY <1>2, <1>3 DEF FindNoRun, Ended
<1>4. ASSUME NEW w \in Workers, NEW now \in Readings, NEW r \in Runs,
             ClaimRun(w, r, now)
      PROVE  RowMove(q)
  <2> DEFINE swept == FailExhausted(jobs, now)
  <2>1. now \in Nat /\ now <= clock
    BY ReadingsFacts
  <2>2. swept \in [Runs -> Job]
    BY <1>0, <2>1, SweepFacts
  <2>3. /\ swept[q].token = jobs[q].token
        /\ \/ swept[q] = jobs[q]
           \/ /\ jobs[q].state = "CLAIMED" /\ swept[q].state = "FAILED"
              /\ swept[q].expires = 0
    BY <1>2
  <2>4. /\ swept[r].state = "QUEUED" \/ Expired(swept[r], now)
        /\ jobs' = [swept EXCEPT ![r] = ClaimedJob(swept[r], w, now)]
    BY <1>4 DEF ClaimRun, Candidates
  <2> HIDE DEF swept
  <2>5. CASE q # r
    <3>1. jobs'[q] = swept[q]
      BY <2>2, <2>4, <2>5
    <3> QED
      BY <2>3, <3>1 DEF Ended
  <2>6. CASE q = r
    <3>1. jobs'[q] = ClaimedJob(swept[q], w, now) /\ swept[q] \in Job
      BY <2>2, <2>4, <2>6
    <3>2. jobs'[q].state = "CLAIMED" /\ jobs'[q].token = jobs[q].token + 1
      BY <2>1, <2>3, <3>1, ClaimedFacts
    <3>3. swept[q] = jobs[q]
      BY <2>3, <2>4, <2>6 DEF Expired
    <3>4. jobs[q].expires \in Nat
      BY <1>0 DEF Job
    <3>5. jobs[q].state = "QUEUED" \/ Expired(jobs[q], clock)
      BY <1>0, <2>1, <2>4, <2>6, <3>3, <3>4 DEF Expired
    <3> QED
      BY <3>2, <3>5 DEF TakenOver
  <2> QED
    BY <2>5, <2>6
<1>5. ASSUME NEW w \in Workers, NEW now \in Readings, HeartbeatRun(w, now)
      PROVE  RowMove(q)
  <2> DEFINE r == claims[w].run
  <2>1. /\ r \in Runs /\ jobs[r] \in Job /\ Holds(w, r)
        /\ jobs[r].state = "CLAIMED" /\ claims[w].token = jobs[r].token
        /\ jobs' = [jobs EXCEPT ![r] = [jobs[r] EXCEPT !.expires = now + LeaseSeconds]]
    BY <1>5, HolderMoves DEF HeartbeatRun
  <2> HIDE DEF r
  <2>2. q # r => jobs'[q] = jobs[q]
    BY <1>0, <2>1
  <2>3. jobs'[r].token = jobs[r].token /\ jobs'[r].state = "CLAIMED"
    BY <1>0, <2>1 DEF Job
  <2> QED
    BY <2>1, <2>2, <2>3 DEF MovedByHolder
<1>6. ASSUME NEW w \in Workers, NEW now \in Readings, NEW o \in Outcomes,
             NEW delay \in Delays, FinishRunClaim(w, o, delay, now)
      PROVE  RowMove(q)
  <2> DEFINE r == claims[w].run
  <2>1. /\ r \in Runs /\ jobs[r] \in Job /\ Holds(w, r)
        /\ jobs[r].state = "CLAIMED" /\ claims[w].token = jobs[r].token
        /\ jobs' = [jobs EXCEPT ![r] = SettledJob(jobs[r], o, now, delay)]
        /\ now \in Nat
    BY <1>6, HolderMoves, ReadingsFacts DEF FinishRunClaim
  <2> HIDE DEF r
  <2>2. q # r => jobs'[q] = jobs[q]
    BY <1>0, <2>1
  <2>3. jobs'[r] = SettledJob(jobs[r], o, now, delay)
    BY <1>0, <2>1
  <2>4. /\ jobs'[r].token = jobs[r].token
        /\ jobs'[r].state = "QUEUED" => jobs'[r].attempts < MaxAttempts
    BY <2>1, <2>3, SettledFacts
  <2> QED
    BY <2>1, <2>2, <2>4 DEF MovedByHolder
<1>7. ASSUME NEW S \in SUBSET Runs
      PROVE  \/ CancelJobs(jobs, S)[q] = jobs[q]
             \/ /\ jobs[q].state \in {"QUEUED", "CLAIMED"}
                /\ CancelJobs(jobs, S)[q] = Release(jobs[q], "CANCELLED")
  BY DEF CancelJobs
<1>8. /\ Release(jobs[q], "CANCELLED").state = "CANCELLED"
      /\ Release(jobs[q], "CANCELLED").expires = 0
      /\ Release(jobs[q], "CANCELLED").token = jobs[q].token
  BY <1>0, ReleaseFacts DEF JobState
<1>9. ASSUME NEW S \in SUBSET Runs, CancelRuns(S)
      PROVE  RowMove(q)
  BY <1>7, <1>8, <1>9 DEF CancelRuns, Ended
<1>10. ASSUME NEW S \in SUBSET Runs, NEW r \in Runs, NEW p \in Priorities,
              NEW sent \in SendTimes, SupersedeRuns(S, r, p, sent)
       PROVE  RowMove(q)
  <2>1. CASE q = r
    BY <1>10, <2>1, SupersedeFacts DEF Created
  <2>2. CASE q # r
    <3>1. jobs'[q] = CancelJobs(jobs, S)[q]
      BY <1>0, <1>10, <2>2, CancelFacts DEF SupersedeRuns
    <3> QED
      BY <1>7, <1>8, <3>1 DEF Ended
  <2> QED
    BY <2>1, <2>2
<1>11. ASSUME jobs' = jobs
       PROVE  RowMove(q)
  BY <1>11
<1> QED
  BY <1>1, <1>3, <1>4, <1>5, <1>6, <1>9, <1>10, <1>11, NextCases
     DEF LoseLease, CrashWorker, Tick, schedVars

-----------------------------------------------------------------------------
(* What follows from the moves of a row, whatever LockWait is.              *)

\* claim_next_run never takes over a lease that has not expired by the clock.
THEOREM NothingTakenEarly == Spec => NoStolenLease
<1> DEFINE Step == \A r \in Runs : jobs'[r].token # jobs[r].token => ~Live(r)
<1>1. TypeOK /\ [Next]_schedVars => Step
  <2> SUFFICES ASSUME TypeOK, [Next]_schedVars, NEW r \in Runs,
                      jobs'[r].token # jobs[r].token
               PROVE  ~Live(r)
    OBVIOUS
  <2>1. clock \in Nat /\ jobs[r].expires \in Nat
    BY DEF TypeOK, Job
  <2>2. Created(r) \/ TakenOver(r)
    BY RowMoves DEF RowMove, MovedByHolder, Ended
  <2> QED
    BY <2>1, <2>2 DEF Created, TakenOver, Expired, Live, Unexpired
<1> QED
  BY <1>1, TypeCorrect, PTL DEF Spec, NoStolenLease

\* Only the holder of the newest token extends or settles a claimed row.
THEOREM HolderSettles == Spec => OnlyHolderSettles
<1> DEFINE Step == \A r \in Runs :
        /\ jobs[r].state = "CLAIMED"
        /\ jobs'[r].token = jobs[r].token
        /\ \/ jobs'[r].state \in {"QUEUED", "COMPLETED"}
           \/ jobs'[r].expires > jobs[r].expires
        => \E w \in Workers : Holds(w, r) /\ claims[w].token = jobs[r].token
<1>1. TypeOK /\ [Next]_schedVars => Step
  <2> SUFFICES ASSUME TypeOK, [Next]_schedVars, NEW r \in Runs,
                      jobs[r].state = "CLAIMED",
                      jobs'[r].token = jobs[r].token,
                      \/ jobs'[r].state \in {"QUEUED", "COMPLETED"}
                      \/ jobs'[r].expires > jobs[r].expires
               PROVE  MovedByHolder(r)
    BY DEF MovedByHolder
  <2>1. jobs[r].expires \in Nat /\ jobs[r].token \in Nat
    BY DEF TypeOK, Job
  <2> QED
    BY <2>1, RowMoves DEF RowMove, Created, TakenOver, Ended
<1> QED
  BY <1>1, TypeCorrect, PTL DEF Spec, OnlyHolderSettles

\* A settled job is never claimed, retried or cancelled again.
THEOREM SettledStays == Spec => TerminalIsFinal
<1> DEFINE Step == \A r \in Runs : jobs[r].state \in TerminalJobState => jobs'[r] = jobs[r]
<1>1. TypeOK /\ [Next]_schedVars => Step
  BY RowMoves DEF RowMove, Created, TakenOver, MovedByHolder, Ended, Expired, TerminalJobState
<1> QED
  BY <1>1, TypeCorrect, PTL DEF Spec, TerminalIsFinal

\* No order of retries, expiries and crashes leaves a queued job without an
\* attempt to run.
THEOREM QueuedRuns == Spec => []QueuedCanRun
<1>1. Init => QueuedCanRun
  BY DEF Init, EmptyJob, QueuedCanRun
<1>2. TypeOK /\ QueuedCanRun /\ [Next]_schedVars => QueuedCanRun'
  <2> SUFFICES ASSUME TypeOK, QueuedCanRun, [Next]_schedVars, NEW r \in Runs,
                      jobs'[r].state = "QUEUED"
               PROVE  jobs'[r].attempts < MaxAttempts
    BY DEF QueuedCanRun
  <2> QED
    BY RowMoves DEF RowMove, Created, TakenOver, MovedByHolder, Ended, QueuedCanRun
<1> QED
  BY <1>1, <1>2, TypeCorrect, PTL DEF Spec
=============================================================================
