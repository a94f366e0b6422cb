----------------------------- MODULE Scheduler -----------------------------
(***************************************************************************)
(* The durable Run queue of SQLiteRuntimeRepository: the scheduler_jobs     *)
(* table, the WorkerClaims its callers hold, and the wall clock.  Every     *)
(* public method is one BEGIN IMMEDIATE transaction, hence one action.  The *)
(* timestamp a method works with is read BEFORE the write lock is taken, so *)
(* an action picks a reading that may be LockWait ticks old.                *)
(*                                                                          *)
(* lease_id and fencing_token are renewed together and only by a claim, so  *)
(* the token stands for both.  A Worker is one execution slot of a host.    *)
(***************************************************************************)
EXTENDS Integers

CONSTANTS
    Runs, Threads, Workers, Executors,
    ThreadOf,       \* the Thread of a Run
    ExecutorOf,     \* the executor_key of a Run's job
    Serves,         \* the executor keys a Worker claims for
    Priorities,     \* the priorities a job may be enqueued with
    MaxAttempts,    \* max_attempts of every job
    LeaseSeconds,   \* lease_seconds of every claim and heartbeat
    Delays,         \* retry, availability and message delays
    LockWait,       \* how old a clock reading may be once the lock is held
    MaxTime,        \* bound: idle time and heartbeats stop here
    NoWorker, NoClaim

ASSUME SchedulerAssumption ==
    /\ ThreadOf \in [Runs -> Threads]
    /\ ExecutorOf \in [Runs -> Executors]
    /\ Serves \in [Workers -> SUBSET Executors]
    /\ Priorities \subseteq Int
    /\ MaxAttempts \in Nat \ {0}
    /\ LeaseSeconds \in Nat \ {0}
    /\ Delays \subseteq Nat
    /\ LockWait \in Nat
    /\ MaxTime \in Nat
    /\ NoWorker \notin Workers

JobState == {"QUEUED", "CLAIMED", "COMPLETED", "FAILED", "CANCELLED"}
TerminalJobState == {"COMPLETED", "FAILED", "CANCELLED"}

\* "ABSENT" is a Run with no row; expires is meaningful while CLAIMED.
Job == [state : JobState \cup {"ABSENT"}, priority : Int, available : Nat,
        attempts : Nat, owner : Workers \cup {NoWorker}, token : Nat,
        expires : Nat, created : Nat]
WorkerClaim == [run : Runs, token : Nat \ {0}, expires : Nat]

ASSUME NoClaimAssumption == NoClaim \notin WorkerClaim

VARIABLES
    clock,      \* the wall clock
    jobs,       \* the scheduler_jobs row of every Run
    claims      \* the WorkerClaim each Worker holds, live or stale

schedVars == <<clock, jobs, claims>>

-----------------------------------------------------------------------------
(* Clock readings.                                                          *)

\* What the clock showed at most LockWait ago.
Readings == {t \in 0..clock : clock <= t + LockWait}

\* A holder reads the clock again only after the reading its claim is from.
HolderReadings(w) == {t \in Readings : claims[w].expires <= t + LeaseSeconds}

\* When the message behind a command that commits now was written.
SendTimes == {t \in 0..clock : clock - t \in Delays \cup {0}}

Unexpired(j, now) == j.state = "CLAIMED" /\ j.expires > now

\* Mutant of Expired: a lease ends one tick early.
ExpiredEarly(j, now) == j.state = "CLAIMED" /\ j.expires <= now + 1
Expired(j, now) == j.state = "CLAIMED" /\ j.expires <= now

\* Mutants of LiveClaim: the lease's age, then the fence, is not looked at.
LiveClaimOfAnyAge(w, now) ==
    /\ claims[w] # NoClaim
    /\ LET j == jobs[claims[w].run]
       IN  j.state = "CLAIMED" /\ j.owner = w /\ j.token = claims[w].token
LiveClaimOfAnyone(w, now) ==
    claims[w] # NoClaim /\ Unexpired(jobs[claims[w].run], now)

\* _assert_live_worker_claim
LiveClaim(w, now) ==
    /\ claims[w] # NoClaim
    /\ LET j == jobs[claims[w].run]
       IN  /\ Unexpired(j, now)
           /\ j.owner = w
           /\ j.token = claims[w].token

-----------------------------------------------------------------------------
(* Row updates.                                                             *)

EmptyJob == [state |-> "ABSENT", priority |-> 0, available |-> 0,
             attempts |-> 0, owner |-> NoWorker, token |-> 0,
             expires |-> 0, created |-> 0]

Release(j, state) ==
    [j EXCEPT !.state = state, !.owner = NoWorker, !.expires = 0]

QueuedJob(p, available, now) ==
    [EmptyJob EXCEPT !.state = "QUEUED", !.priority = p,
                     !.available = available, !.created = now]

\* Mutant of ClaimedJob: the fencing token is not renewed.
ReclaimedJob(j, w, now) ==
    [j EXCEPT !.state = "CLAIMED", !.attempts = @ + 1, !.owner = w,
              !.token = IF @ = 0 THEN 1 ELSE @, !.expires = now + LeaseSeconds]

ClaimedJob(j, w, now) ==
    [j EXCEPT !.state = "CLAIMED", !.attempts = @ + 1, !.owner = w,
              !.token = @ + 1, !.expires = now + LeaseSeconds]

\* How a holder's claim ends: done, retry while attempts are left, or failed.
Outcomes == {"succeeded", "retryable", "permanent"}

\* Mutant of MayRetry: one attempt too many.
MayRetryOnceMore(j, outcome) == outcome = "retryable" /\ j.attempts <= MaxAttempts

MayRetry(j, outcome) == outcome = "retryable" /\ j.attempts < MaxAttempts

SettledJob(j, outcome, now, delay) ==
    IF outcome = "succeeded" THEN Release(j, "COMPLETED")
    ELSE IF MayRetry(j, outcome)
         THEN [Release(j, "QUEUED") EXCEPT !.available = now + delay]
         ELSE Release(j, "FAILED")

\* Mutant of FailExhausted: nothing sweeps.
FailNothing(js, now) == js

\* _fail_exhausted_worker_claims
FailExhausted(js, now) ==
    [r \in Runs |-> IF Expired(js[r], now) /\ js[r].attempts >= MaxAttempts
                    THEN Release(js[r], "FAILED") ELSE js[r]]

\* Mutants of CancelJobs: ended jobs are cancelled too; claimed jobs are not.
CancelAnyJobs(js, S) ==
    [r \in Runs |-> IF r \in S /\ js[r].state # "ABSENT"
                    THEN Release(js[r], "CANCELLED") ELSE js[r]]
CancelQueuedJobs(js, S) ==
    [r \in Runs |-> IF r \in S /\ js[r].state = "QUEUED"
                    THEN Release(js[r], "CANCELLED") ELSE js[r]]

CancelJobs(js, S) ==
    [r \in Runs |-> IF r \in S /\ js[r].state \in {"QUEUED", "CLAIMED"}
                    THEN Release(js[r], "CANCELLED") ELSE js[r]]

-----------------------------------------------------------------------------
(* The candidate query of claim_next_run.                                   *)

\* Mutant of ThreadBusy: a Run does not wait for the others of its Thread.
ThreadNeverBusy(js, r, now) == FALSE

ThreadBusy(js, r, now) ==
    \E o \in Runs \ {r} : ThreadOf[o] = ThreadOf[r] /\ Unexpired(js[o], now)

Candidates(js, w, now) ==
    {r \in Runs :
        /\ \/ js[r].state = "QUEUED" /\ js[r].available <= now
           \/ Expired(js[r], now)
        /\ js[r].attempts < MaxAttempts
        /\ ExecutorOf[r] \in Serves[w]
        /\ ~ThreadBusy(js, r, now)}

\* ORDER BY priority DESC, available_at ASC, created_at ASC
Precedes(a, b) ==
    \/ a.priority > b.priority
    \/ /\ a.priority = b.priority
       /\ \/ a.available < b.available
          \/ a.available = b.available /\ a.created <= b.created

-----------------------------------------------------------------------------
(* The operations.                                                          *)

Init ==
    /\ clock = 0
    /\ jobs = [r \in Runs |-> EmptyJob]
    /\ claims = [w \in Workers |-> NoClaim]

\* Enqueueing a Run that has a row returns that row: no step.
EnqueueRun(r, p, delay, now) ==
    /\ jobs[r].state = "ABSENT"
    /\ jobs' = [jobs EXCEPT ![r] = QueuedJob(p, now + delay, now)]
    /\ UNCHANGED <<clock, claims>>

\* The sweep is committed even when no candidate is left to claim.
FindNoRun(w, now) ==
    /\ claims[w] = NoClaim
    /\ Candidates(FailExhausted(jobs, now), w, now) = {}
    /\ jobs' = FailExhausted(jobs, now)
    /\ UNCHANGED <<clock, claims>>

\* Mutant of ClaimRun: expired jobs are claimed whatever their attempts.
ClaimRunForever(w, r, now) ==
    /\ claims[w] = NoClaim
    /\ Expired(jobs[r], now) \/ r \in Candidates(jobs, w, now)
    /\ ~ThreadBusy(jobs, r, now)
    /\ jobs' = [jobs EXCEPT ![r] = ClaimedJob(@, w, now)]
    /\ claims' = [claims EXCEPT ![w] =
                    [run |-> r, token |-> jobs[r].token + 1,
                     expires |-> now + LeaseSeconds]]
    /\ UNCHANGED clock

ClaimRun(w, r, now) ==
    LET swept == FailExhausted(jobs, now)
    IN  /\ claims[w] = NoClaim
        /\ r \in Candidates(swept, w, now)
        /\ \A o \in Candidates(swept, w, now) : Precedes(swept[r], swept[o])
        /\ jobs' = [swept EXCEPT ![r] = ClaimedJob(@, w, now)]
        /\ claims' = [claims EXCEPT ![w] =
                        [run |-> r, token |-> swept[r].token + 1,
                         expires |-> now + LeaseSeconds]]
        /\ UNCHANGED clock

HeartbeatRun(w, now) ==
    /\ now <= MaxTime
    /\ LiveClaim(w, now)
    /\ jobs' = [jobs EXCEPT ![claims[w].run].expires = now + LeaseSeconds]
    /\ claims' = [claims EXCEPT ![w].expires = now + LeaseSeconds]
    /\ UNCHANGED clock

FinishRunClaim(w, outcome, delay, now) ==
    /\ LiveClaim(w, now)
    /\ jobs' = [jobs EXCEPT ![claims[w].run] =
                    SettledJob(@, outcome, now, delay)]
    /\ claims' = [claims EXCEPT ![w] = NoClaim]
    /\ UNCHANGED clock

\* A cancelling Thread update ends the jobs of the Thread's open Runs S.
CancelRuns(S) ==
    /\ jobs' = CancelJobs(jobs, S)
    /\ UNCHANGED <<clock, claims>>

\* Any other Thread update ends the jobs of the Runs it supersedes and queues
\* the Run that takes their place, in one transaction.  That row is dated sent,
\* when the message asking for the update was written.
SupersedeRuns(S, r, p, sent) ==
    /\ jobs[r].state = "ABSENT"
    /\ jobs' = [CancelJobs(jobs, S) EXCEPT ![r] = QueuedJob(p, sent, sent)]
    /\ UNCHANGED <<clock, claims>>

\* A fenced call raises StaleLease and the worker gives its claim up.
LoseLease(w, now) ==
    /\ claims[w] # NoClaim
    /\ ~LiveClaim(w, now)
    /\ claims' = [claims EXCEPT ![w] = NoClaim]
    /\ UNCHANGED <<clock, jobs>>

\* The worker process dies and restarts; its row stays CLAIMED.
CrashWorker(w) ==
    /\ claims[w] # NoClaim
    /\ claims' = [claims EXCEPT ![w] = NoClaim]
    /\ UNCHANGED <<clock, jobs>>

\* Past MaxTime the clock only runs for a lease or delay still pending.
Tick ==
    /\ \/ clock < MaxTime
       \/ \E r \in Runs : \/ Unexpired(jobs[r], clock)
                          \/ jobs[r].state = "QUEUED" /\ jobs[r].available > clock
    /\ clock' = clock + 1
    /\ UNCHANGED <<jobs, claims>>

Claim(w) == \E now \in Readings :
                FindNoRun(w, now) \/ \E r \in Runs : ClaimRun(w, r, now)

Next ==
    \/ \E r \in Runs, p \in Priorities, delay \in Delays \cup {0}, now \in Readings :
            EnqueueRun(r, p, delay, now)
    \/ \E w \in Workers : Claim(w)
    \/ \E w \in Workers : claims[w] # NoClaim /\ \E now \in HolderReadings(w) :
            \/ HeartbeatRun(w, now)
            \/ \E outcome \in Outcomes, delay \in Delays :
                    FinishRunClaim(w, outcome, delay, now)
            \/ LoseLease(w, now)
    \/ \E w \in Workers : CrashWorker(w)
    \/ \E t \in Threads : \E S \in SUBSET {o \in Runs : ThreadOf[o] = t} :
            \/ CancelRuns(S)
            \/ \E r \in Runs, p \in Priorities, sent \in SendTimes :
                    ThreadOf[r] = t /\ SupersedeRuns(S, r, p, sent)
    \/ Tick

Spec == Init /\ [][Next]_schedVars

\* Workers keep polling, a call on a lost claim returns, and time passes.
\* Nothing obliges a worker to finish, crash or heartbeat; that heartbeats end
\* (MaxTime) stands for Executors that do not run for ever.
Fairness ==
    /\ \A w \in Workers : WF_schedVars(Claim(w))
    /\ \A w \in Workers : WF_schedVars(LoseLease(w, clock))
    /\ WF_schedVars(Tick)

FairSpec == Spec /\ Fairness

-----------------------------------------------------------------------------
(* Properties.                                                              *)

\* The type invariant, with the bound on attempts that max_attempts promises.
TypeOK ==
    /\ clock \in Nat
    /\ jobs \in [Runs -> Job]
    /\ claims \in [Workers -> WorkerClaim \cup {NoClaim}]
    /\ \A r \in Runs : jobs[r].attempts <= MaxAttempts

\* A row is claimable again only while it has attempts left: a QUEUED job that
\* no claim_next_run would ever pick cannot arise from any order of retries,
\* expiries and crashes.
QueuedCanRun ==
    \A r \in Runs : jobs[r].state = "QUEUED" => jobs[r].attempts < MaxAttempts

Holds(w, r) == claims[w] # NoClaim /\ claims[w].run = r

\* Fencing: no claim a worker still holds, however old, carries a token newer
\* than the row's, and no two workers hold the same token of a Run.
FencedClaims ==
    \A r \in Runs, w \in Workers : Holds(w, r) =>
        /\ claims[w].token <= jobs[r].token
        /\ \A v \in Workers \ {w} :
                Holds(v, r) => claims[v].token # claims[w].token
        /\ jobs[r].state = "CLAIMED" /\ jobs[r].token = claims[w].token
                => jobs[r].owner = w

Live(r) == Unexpired(jobs[r], clock)

\* STATE_EVENT_SPEC invariant 4: two Runs of a Thread are never claimed by
\* unexpired leases at once.
OneLiveRunPerThread ==
    \A r, o \in Runs :
        r # o /\ ThreadOf[r] = ThreadOf[o] => ~(Live(r) /\ Live(o))

\* claim_next_run never takes over a lease that has not expired.
NoStolenLease ==
    [][\A r \in Runs : jobs'[r].token # jobs[r].token => ~Live(r)]_schedVars

\* A lease that has expired stays so until a claim with a larger token.
NeverRevived ==
    [][\A r \in Runs : ~Live(r) /\ Live(r)' => jobs'[r].token > jobs[r].token]_schedVars

\* Only the holder of the newest token extends or settles a claimed row;
\* anything else that ends a claim is a cancellation or the exhaustion sweep.
OnlyHolderSettles ==
    [][\A r \in Runs :
        /\ jobs[r].state = "CLAIMED"
        /\ jobs'[r].token = jobs[r].token
        /\ \/ jobs'[r].state \in {"QUEUED", "COMPLETED"}
           \/ jobs'[r].expires > jobs[r].expires
        => \E w \in Workers : Holds(w, r) /\ claims[w].token = jobs[r].token]_schedVars

\* A settled job is never claimed, retried or cancelled again.
TerminalIsFinal ==
    [][\A r \in Runs : jobs[r].state \in TerminalJobState => jobs'[r] = jobs[r]]_schedVars

\* Every enqueued Run that some worker serves ends in a terminal job state,
\* whatever crashes and retries happen on the way.
JobsSettle ==
    \A r \in Runs :
        jobs[r].state = "QUEUED" /\ (\E w \in Workers : ExecutorOf[r] \in Serves[w])
            ~> jobs[r].state \in TerminalJobState

-----------------------------------------------------------------------------
(* The lease service the queue implements when no time passes between the   *)
(* clock reading and the lock (LockWait = 0).                               *)

Leases == INSTANCE FencedLease WITH
    Units <- Runs, Groups <- Threads, GroupOf <- ThreadOf,
    Holders <- Workers, Nobody <- NoWorker,
    holder <- [r \in Runs |-> IF Live(r) THEN jobs[r].owner ELSE NoWorker],
    token  <- [r \in Runs |-> jobs[r].token]

LeaseSpec == Leases!Spec
=============================================================================
