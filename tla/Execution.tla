----------------------------- MODULE Execution -----------------------------
(***************************************************************************)
(* Execution of Runs: the WorkerHost slots that claim, start, run, verify   *)
(* and settle Runs, the Thread projections they write to, the Steps and     *)
(* Deliveries they record, and the user updates that race with them.  The   *)
(* queue itself is module Scheduler; a repository method that touches both  *)
(* the queue and the Thread is one transaction, hence one action here, and  *)
(* every step is a Scheduler step or leaves the queue alone.                *)
(*                                                                          *)
(* An attempt of a Run is the fencing token of its claim: attempts and      *)
(* fencing_token are both raised by a claim and by nothing else.  Artifacts *)
(* and the outbox row, inserted with its Delivery, are left out.            *)
(***************************************************************************)
EXTENDS Scheduler, Sequences, FiniteSets

CONSTANTS
    Branches, MainBranch, NoRun, Invalid,   \* see ThreadReducer
    Verified,           \* the executor keys that have a Verifier
    MaxCheckpoints      \* bound: checkpoints of a Run

INSTANCE ThreadReducer

ASSUME ExecutionAssumption ==
    /\ MainBranch \in Branches
    /\ NoRun \notin Runs
    /\ Invalid \notin ThreadProjection
    /\ Verified \subseteq Executors
    /\ MaxCheckpoints \in Nat

\* Where a slot is in _execute_active; "retryable" and "permanent" are the
\* except branches, which settle the failure the slot caught.
Phases == {"idle", "claimed", "started", "transforming", "transformed",
           "verifying", "verified", "retryable", "permanent"}
StepKind == {"TRANSFORM", "VERIFIER"}
StepState == {"ABSENT", "RUNNING", "SUCCEEDED", "FAILED"}
Delivery == [run : Runs, attempt : 1..MaxAttempts, state : {"PREPARED", "PRESENTED"}]

VARIABLES
    threads,    \* the projection of each Thread, Invalid until it is created
    phase,      \* what each Worker is doing
    steps,      \* runtime_steps: a Run's Steps by attempt and kind
    deliveries  \* the Deliveries of each Thread, by version

execVars == <<clock, jobs, claims, threads, phase, steps, deliveries>>
runtime == <<threads, phase, steps, deliveries>>

-----------------------------------------------------------------------------
(* What a Worker holds.                                                     *)

RunOf(w) == claims[w].run
ThreadFor(w) == threads[ThreadOf[RunOf(w)]]
AttemptOf(w) == claims[w].token

Holder(w, now) == claims[w] # NoClaim /\ now \in HolderReadings(w) /\ LiveClaim(w, now)

\* What claimed writes to the Thread require besides the lease.
ActiveRun(w) == /\ HasRun(ThreadFor(w), RunOf(w))
                /\ ThreadFor(w).runs[RunOf(w)].state = "RUNNING"
                /\ ThreadFor(w).active = RunOf(w)

ThreadBecomes(w, p) ==
    p # Invalid /\ threads' = [threads EXCEPT ![ThreadOf[RunOf(w)]] = p]

Goto(w, p) == phase' = [phase EXCEPT ![w] = p]

\* Mutant of StepOf: the Step id does not name the attempt.
StepOfRun(w, kind) == steps[RunOf(w)][1][kind]

StepOf(w, kind) == steps[RunOf(w)][AttemptOf(w)][kind]

StepBecomes(w, kind, state) ==
    steps' = [steps EXCEPT ![RunOf(w)][AttemptOf(w)][kind] = state]

HasVerifier(w) == ExecutorOf[RunOf(w)] \in Verified

-----------------------------------------------------------------------------
(* User commands.                                                           *)

Queued(p, r) == RunTo(p, r, "QUEUED")

\* submit_task; legacy submissions bind no snapshots.
SubmitTask(t, r, bound, p, now) ==
    LET created == CreateRun(NewThread, r, MainBranch)
        frozen  == IF bound THEN BindSnapshots(created, r) ELSE created
    IN  /\ threads[t] = Invalid
        /\ ThreadOf[r] = t
        /\ EnqueueRun(r, p, 0, now)
        /\ threads' = [threads EXCEPT ![t] = ThreadTo(Queued(frozen, r), "QUEUED")]
        /\ UNCHANGED <<phase, steps, deliveries>>

RunsOf(t) == {r \in Runs : ThreadOf[r] = t}
OpenRuns(t) == {r \in RunsOf(t) : OpenRun(threads[t], r)}

\* Mutant of Superseded: a queued Run is left to run.
SupersededRunning(t) == {r \in OpenRuns(t) : threads[t].runs[r].state = "RUNNING"}

\* The Runs an update supersedes.  The inbox computes them from a read of its
\* own; the update is refused unless the Thread still has that revision, so
\* they are those of the state the update commits in.
Superseded(t) == {r \in OpenRuns(t) : threads[t].runs[r].branch = threads[t].branch}

\* The projection after an update whose new Run r is on branch b: the current
\* branch, or (METHOD_CHANGE) a new one forked from it.
Revised(t, r, b) ==
    LET p     == threads[t]
        ended == CancelOpenRuns(p, Superseded(t))
        moved == IF b = p.branch THEN ended
                 ELSE SelectBranch(ForkBranch(ended, b, p.branch), b)
        next  == Queued(BindSnapshots(CreateRun(moved, r, b), r), r)
    IN  IF next = Invalid \/ p.actual = "QUEUED" THEN next
        ELSE ThreadTo(next, "QUEUED")

\* A SUPPLEMENT, GOAL_CHANGE or METHOD_CHANGE message.
ReviseThread(t, r, b, p, sent) ==
    /\ threads[t] # Invalid
    /\ threads[t].actual \notin {"CANCELLED", "ARCHIVED"}
    /\ threads[t].desired = "RUN"
    /\ ThreadOf[r] = t
    /\ b = threads[t].branch \/ ~HasBranch(threads[t], b)
    /\ Revised(t, r, b) # Invalid
    /\ threads' = [threads EXCEPT ![t] = Revised(t, r, b)]
    /\ SupersedeRuns(Superseded(t), r, p, sent)
    /\ UNCHANGED <<phase, steps, deliveries>>

Cancelled(t) == ThreadTo(CancelOpenRuns(DesiredTo(threads[t], "CANCEL"), OpenRuns(t)),
                         "CANCELLED")

\* A CANCEL message; a delivered Thread refuses it.
CancelThread(t) ==
    /\ threads[t] # Invalid
    /\ threads[t].actual \notin {"CANCELLED", "ARCHIVED", "DELIVERED"}
    /\ Cancelled(t) # Invalid
    /\ threads' = [threads EXCEPT ![t] = Cancelled(t)]
    /\ CancelRuns(OpenRuns(t))
    /\ UNCHANGED <<phase, steps, deliveries>>

\* set_desired_state; a paused Thread keeps its job.
SetDesiredState(t, s) ==
    /\ threads[t] # Invalid
    /\ threads[t].desired # s
    /\ threads' = [threads EXCEPT ![t] = DesiredTo(@, s)]
    /\ UNCHANGED <<schedVars, phase, steps, deliveries>>

PresentDelivery(t, i) ==
    /\ deliveries[t][i].state = "PREPARED"
    /\ deliveries' = [deliveries EXCEPT ![t][i].state = "PRESENTED"]
    /\ UNCHANGED <<schedVars, threads, phase, steps>>

-----------------------------------------------------------------------------
(* The Worker.  A Worker that crashes, or whose call raises anything its    *)
(* code does not catch, drops its claim (Crash).                            *)

Poll(w) == /\ phase[w] = "idle"
           /\ Claim(w)
           /\ Goto(w, IF claims'[w] = NoClaim THEN "idle" ELSE "claimed")
           /\ UNCHANGED <<threads, steps, deliveries>>

Running(p, r) ==
    LET q == IF p.actual = "RUNNING" THEN p ELSE ThreadTo(p, "RUNNING")
    IN  IF q = Invalid \/ q.runs[r].state = "RUNNING" THEN q
        ELSE RunTo(q, r, "RUNNING")

\* start_claimed_run, a transaction of its own after the claim's.  When the
\* Thread is paused or the snapshots are missing it raises, out of the host.
StartClaimedRun(w, now) ==
    /\ phase[w] = "claimed"
    /\ Holder(w, now)
    /\ HasRun(ThreadFor(w), RunOf(w))
    /\ ThreadFor(w).runs[RunOf(w)].bound
    /\ ThreadFor(w).desired = "RUN"
    /\ ThreadBecomes(w, Running(ThreadFor(w), RunOf(w)))
    /\ Goto(w, "started")
    /\ UNCHANGED <<schedVars, steps, deliveries>>

\* The heartbeat thread of _execute_active.
Heartbeat(w, now) ==
    /\ phase[w] \notin {"idle", "claimed"}
    /\ Holder(w, now)
    /\ HeartbeatRun(w, now)
    /\ UNCHANGED runtime

\* A Step id that has a row already is taken as it is.
BeginStep(w, kind, now) ==
    /\ \/ phase[w] = "started" /\ kind = "TRANSFORM" /\ Goto(w, "transforming")
       \/ /\ phase[w] = "transformed" /\ HasVerifier(w)
          /\ kind = "VERIFIER" /\ Goto(w, "verifying")
    /\ Holder(w, now)
    /\ IF StepOf(w, kind) = "ABSENT"
       THEN ThreadFor(w).runs[RunOf(w)].state = "RUNNING" /\ StepBecomes(w, kind, "RUNNING")
       ELSE UNCHANGED steps
    /\ UNCHANGED <<schedVars, threads, deliveries>>

SaveCheckpoint(w, now) ==
    LET sequence == ThreadFor(w).runs[RunOf(w)].checkpoint + 1
    IN  /\ phase[w] = "transforming"
        /\ Holder(w, now)
        /\ ActiveRun(w)
        /\ sequence <= MaxCheckpoints
        /\ ThreadBecomes(w, Checkpoint(ThreadFor(w), RunOf(w), sequence))
        /\ UNCHANGED <<schedVars, phase, steps, deliveries>>

\* Mutant of FinishTransform: the fence is not checked.
FinishTransformUnfenced(w, now) ==
    /\ phase[w] = "transforming"
    /\ StepOf(w, "TRANSFORM") = "RUNNING"
    /\ StepBecomes(w, "TRANSFORM", "SUCCEEDED")
    /\ Goto(w, "transformed")
    /\ UNCHANGED <<schedVars, threads, deliveries>>

FinishTransform(w, now) ==
    /\ phase[w] = "transforming"
    /\ Holder(w, now)
    /\ StepOf(w, "TRANSFORM") = "RUNNING"
    /\ StepBecomes(w, "TRANSFORM", "SUCCEEDED")
    /\ Goto(w, "transformed")
    /\ UNCHANGED <<schedVars, threads, deliveries>>

\* Mutant of FinishVerifier: the verdict is recorded but not acted on.
FinishVerifierAnyway(w, passed, now) ==
    /\ phase[w] = "verifying"
    /\ Holder(w, now)
    /\ StepOf(w, "VERIFIER") = "RUNNING"
    /\ StepBecomes(w, "VERIFIER", IF passed THEN "SUCCEEDED" ELSE "FAILED")
    /\ Goto(w, "verified")
    /\ UNCHANGED <<schedVars, threads, deliveries>>

\* A verdict other than PASSED fails the Step and then the Run for good.
FinishVerifier(w, passed, now) ==
    /\ phase[w] = "verifying"
    /\ Holder(w, now)
    /\ StepOf(w, "VERIFIER") = "RUNNING"
    /\ StepBecomes(w, "VERIFIER", IF passed THEN "SUCCEEDED" ELSE "FAILED")
    /\ Goto(w, IF passed THEN "verified" ELSE "permanent")
    /\ UNCHANGED <<schedVars, threads, deliveries>>

\* An exception with no Step open: the request does not load, or the Verifier's
\* Step cannot be begun.
Raise(w, outcome) ==
    /\ \/ phase[w] = "started"
       \/ phase[w] = "transformed" /\ HasVerifier(w)
    /\ Goto(w, outcome)
    /\ UNCHANGED <<schedVars, threads, steps, deliveries>>

\* An exception in the Executor or the Verifier: _fail_step_safely closes the
\* open Step and swallows its own failure to do so.
FailStep(w, outcome, now) ==
    LET kind == IF phase[w] = "transforming" THEN "TRANSFORM" ELSE "VERIFIER"
    IN  /\ phase[w] \in {"transforming", "verifying"}
        /\ IF Holder(w, now) /\ StepOf(w, kind) = "RUNNING"
           THEN StepBecomes(w, kind, "FAILED") ELSE UNCHANGED steps
        /\ Goto(w, outcome)
        /\ UNCHANGED <<schedVars, threads, deliveries>>

\* Mutant of Failed: a retry does not take the Thread out of RUNNING.
FailedInPlace(p, r, retry) ==
    IF retry THEN RunTo(p, r, "QUEUED")
    ELSE AttentionTo(ThreadTo(RunTo(p, r, "FAILED"), "FAILED"), "FAILED")

\* finish_claimed_execution for a failure.
Failed(p, r, retry) ==
    IF retry THEN ThreadTo(RunTo(p, r, "QUEUED"), "QUEUED")
    ELSE AttentionTo(ThreadTo(RunTo(p, r, "FAILED"), "FAILED"), "FAILED")

SettleFailure(w, delay, now) ==
    /\ phase[w] \in {"retryable", "permanent"}
    /\ Holder(w, now)
    /\ ActiveRun(w)
    /\ ThreadBecomes(w, Failed(ThreadFor(w), RunOf(w),
                               MayRetry(jobs[RunOf(w)], phase[w])))
    /\ FinishRunClaim(w, phase[w], delay, now)
    /\ Goto(w, "idle")
    /\ UNCHANGED <<steps, deliveries>>

\* finish_claimed_execution for the success of an Executor without a Verifier.
FinishExecution(w, delay, now) ==
    /\ phase[w] = "transformed" /\ ~HasVerifier(w)
    /\ Holder(w, now)
    /\ ActiveRun(w)
    /\ ThreadBecomes(w, ThreadTo(RunTo(ThreadFor(w), RunOf(w), "COMPLETED"), "DORMANT"))
    /\ FinishRunClaim(w, "succeeded", delay, now)
    /\ Goto(w, "idle")
    /\ UNCHANGED <<steps, deliveries>>

\* finalize_claimed_delivery: job, Run, Thread, attention and Delivery at once.
FinalizeDelivery(w, delay, now) ==
    LET done == RunTo(ThreadFor(w), RunOf(w), "COMPLETED")
    IN  /\ phase[w] = "verified"
        /\ Holder(w, now)
        /\ ActiveRun(w)
        /\ ThreadBecomes(w, AttentionTo(ThreadTo(done, "DELIVERED"), "DELIVERY_READY"))
        /\ deliveries' = [deliveries EXCEPT ![ThreadOf[RunOf(w)]] = Append(@,
                [run |-> RunOf(w), attempt |-> AttemptOf(w), state |-> "PREPARED"])]
        /\ FinishRunClaim(w, "succeeded", delay, now)
        /\ Goto(w, "idle")
        /\ UNCHANGED steps

\* Mutant of GiveUp: the slot goes on after losing its lease.
GoOn(w, now) == LoseLease(w, now) /\ UNCHANGED runtime

\* A call raises StaleLease: the slot reports LOST_LEASE and goes on.
GiveUp(w, now) == /\ LoseLease(w, now)
                  /\ Goto(w, "idle")
                  /\ UNCHANGED <<threads, steps, deliveries>>

\* Mutant of Crash: a failing host puts its job back without the fence.
CrashAndRequeue(w) ==
    /\ claims[w] # NoClaim
    /\ claims' = [claims EXCEPT ![w] = NoClaim]
    /\ jobs' = [jobs EXCEPT ![RunOf(w)] = Release(@, "QUEUED")]
    /\ Goto(w, "idle")
    /\ UNCHANGED <<clock, threads, steps, deliveries>>

Crash(w) == /\ CrashWorker(w)
            /\ Goto(w, "idle")
            /\ UNCHANGED <<threads, steps, deliveries>>

-----------------------------------------------------------------------------

ExecInit ==
    /\ Init
    /\ threads = [t \in Threads |-> Invalid]
    /\ phase = [w \in Workers |-> "idle"]
    /\ steps = [r \in Runs |-> [a \in 1..MaxAttempts |-> [k \in StepKind |-> "ABSENT"]]]
    /\ deliveries = [t \in Threads |-> <<>>]

UserStep(t) ==
    \/ \E r \in Runs, bound \in BOOLEAN, p \in Priorities, now \in Readings :
            SubmitTask(t, r, bound, p, now)
    \/ \E r \in Runs, b \in Branches, p \in Priorities, sent \in SendTimes :
            ReviseThread(t, r, b, p, sent)
    \/ CancelThread(t)
    \/ \E s \in {"RUN", "PAUSE"} : SetDesiredState(t, s)
    \/ \E i \in DOMAIN deliveries[t] : PresentDelivery(t, i)

WorkerStep(w, now) ==
    \/ StartClaimedRun(w, now)
    \/ Heartbeat(w, now)
    \/ \E kind \in StepKind : BeginStep(w, kind, now)
    \/ SaveCheckpoint(w, now)
    \/ FinishTransform(w, now)
    \/ \E passed \in BOOLEAN : FinishVerifier(w, passed, now)
    \/ \E outcome \in {"retryable", "permanent"} :
            Raise(w, outcome) \/ FailStep(w, outcome, now)
    \/ \E delay \in Delays :
            \/ SettleFailure(w, delay, now)
            \/ FinishExecution(w, delay, now)
            \/ FinalizeDelivery(w, delay, now)
    \/ GiveUp(w, now)

ExecNext ==
    \/ \E t \in Threads : UserStep(t)
    \/ \E w \in Workers : Poll(w) \/ Crash(w)
    \/ \E w \in Workers : claims[w] # NoClaim /\ \E now \in HolderReadings(w) : WorkerStep(w, now)
    \/ Tick /\ UNCHANGED runtime

ExecSpec == ExecInit /\ [][ExecNext]_execVars

\* As in Scheduler: hosts poll, a call on a lost claim returns, time passes.
\* No Worker has to start, finish or survive.
ExecFairSpec ==
    /\ ExecSpec
    /\ \A w \in Workers : WF_execVars(Poll(w)) /\ WF_execVars(GiveUp(w, clock))
    /\ WF_execVars(Tick /\ UNCHANGED runtime)

-----------------------------------------------------------------------------
(* Properties.                                                              *)

ExecTypeOK ==
    /\ TypeOK
    /\ threads \in [Threads -> ThreadProjection \cup {Invalid}]
    /\ phase \in [Workers -> Phases]
    /\ \A w \in Workers : phase[w] = "idle" <=> claims[w] = NoClaim
    /\ steps \in [Runs -> [1..MaxAttempts -> [StepKind -> StepState]]]
    /\ deliveries \in [Threads -> Seq(Delivery)]

RunStateOf(r) == IF threads[ThreadOf[r]] = Invalid THEN "ABSENT"
                 ELSE threads[ThreadOf[r]].runs[r].state

\* Whatever updates, retries and crashes come in which order, a Thread has at
\* most one Run that has not ended, and it is on the current branch: an update
\* supersedes only Runs of that branch, so another one would run on unseen.
OneOpenRun ==
    \A t \in Threads : \A r, o \in Runs :
        OpenRun(threads[t], r) /\ OpenRun(threads[t], o) =>
            r = o /\ threads[t].runs[r].branch = threads[t].branch

\* The Thread is RUNNING exactly while one Run is, and that is the active Run.
RunningIsActive ==
    \A t \in Threads : threads[t] # Invalid =>
        {r \in Runs : threads[t].runs[r].state = "RUNNING"} =
            IF threads[t].actual = "RUNNING" THEN {threads[t].active} ELSE {}

\* The queue and the Thread never disagree about a Run, except that a job whose
\* last lease expired is FAILED while its Run has not ended (JobEndsWithRun).
JobAndRunAgree ==
    \A r \in Runs : LET job == jobs[r].state
                        run == RunStateOf(r)
                    IN  /\ job = "ABSENT" <=> run = "ABSENT"
                        /\ job = "QUEUED" => run = "QUEUED"
                        /\ job = "CLAIMED" => run \in {"QUEUED", "RUNNING"}
                        /\ job = "COMPLETED" <=> run = "COMPLETED"
                        /\ job = "CANCELLED" => run = "CANCELLED"
                        /\ run = "FAILED" => job = "FAILED"

\* The claim is the newest of a row that nothing has ended.
Current(w) == /\ claims[w] # NoClaim
              /\ jobs[RunOf(w)].state = "CLAIMED"
              /\ jobs[RunOf(w)].token = AttemptOf(w)

\* A Worker past the start whose claim is the current one finds its Run active,
\* its Thread RUNNING and its Steps as it left them, so that none of its calls
\* raises InvalidTransition: it can always settle.
HolderCanSettle ==
    \A w \in Workers : Current(w) /\ phase[w] \notin {"idle", "claimed"} =>
        /\ ActiveRun(w)
        /\ ThreadFor(w).actual = "RUNNING"
        /\ phase[w] = "started" => StepOf(w, "TRANSFORM") = "ABSENT"
        /\ phase[w] = "transforming" => StepOf(w, "TRANSFORM") = "RUNNING"
        /\ phase[w] = "transformed" => StepOf(w, "VERIFIER") = "ABSENT"
        /\ phase[w] = "verifying" => StepOf(w, "VERIFIER") = "RUNNING"

\* A Delivery is prepared only by an attempt that ran and verified to the end,
\* and a Run with a Verifier completes with exactly one Delivery.
DeliveriesAreVerified ==
    \A t \in Threads :
        /\ \A i \in DOMAIN deliveries[t] : LET d == deliveries[t][i] IN
                \A k \in StepKind : steps[d.run][d.attempt][k] = "SUCCEEDED"
        /\ \A r \in Runs : ThreadOf[r] = t /\ ExecutorOf[r] \in Verified =>
                Cardinality({i \in DOMAIN deliveries[t] : deliveries[t][i].run = r})
                    = IF RunStateOf(r) = "COMPLETED" THEN 1 ELSE 0

\* Nothing a superseded, cancelled or finished Run's Worker still does reaches
\* the record of the Run: its projection and its Steps stay as they were.
EndedRunIsFrozen ==
    [][\A r \in Runs : RunStateOf(r) \in TerminalRunState =>
        /\ threads'[ThreadOf[r]].runs[r] = threads[ThreadOf[r]].runs[r]
        /\ steps'[r] = steps[r]]_execVars

\* A stale Worker cannot touch a Step: once a later attempt of the Run has been
\* claimed, the Steps of the earlier ones never change.
StaleAttemptsAreFrozen ==
    [][\A r \in Runs : \A a \in 1..MaxAttempts :
        a < jobs[r].token => steps'[r][a] = steps[r][a]]_execVars

\* The Run queue inside the execution behaves as module Scheduler says.
QueueSpec == Spec

\* Every Run a worker serves ends, or its job runs out of attempts, paused or
\* not and whatever crashes.
RunsSettle ==
    \A r \in Runs :
        RunStateOf(r) = "QUEUED" /\ (\E w \in Workers : ExecutorOf[r] \in Serves[w])
            ~> RunStateOf(r) \in TerminalRunState \/ jobs[r].state = "FAILED"

\* V2_RUNTIME_CONTRACT invariant 5: a scheduler job cannot become terminal
\* independently from its Run.
JobEndsWithRun ==
    \A r \in Runs : jobs[r].state \in TerminalJobState
                        => RunStateOf(r) \in TerminalRunState
=============================================================================
