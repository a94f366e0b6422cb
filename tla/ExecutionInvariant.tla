------------------------- MODULE ExecutionInvariant -------------------------
(* The inductive invariant of the execution of Runs, and what follows from  *)
(* it for every number of Threads, Runs, workers and attempts.              *)
EXTENDS ExecutionProofs

USE SchedulerAssumption, NoClaimAssumption, ExecutionAssumption

-----------------------------------------------------------------------------
(* What the properties rest on.                                             *)

\* The fencing token of a row counts its attempts, so a claim's token is one
\* of the attempts there are.
TokensAreAttempts == \A r \in Runs : jobs[r].token = jobs[r].attempts

\* A Run belongs to its own Thread.
RunsAtHome == \A t \in Threads : \A r \in Runs : HasRun(threads[t], r) => ThreadOf[r] = t

\* The Run of a current claim whose start was committed is RUNNING.
HolderRuns == \A w \in Workers :
    Current(w) /\ phase[w] \notin {"idle", "claimed"} => RunStateOf(RunOf(w)) = "RUNNING"

\* Nobody has written to the Steps of an attempt that is still to come.
FutureStepsAbsent == \A r \in Runs : \A a \in 1..MaxAttempts : \A k \in StepKind :
    a > jobs[r].token => steps[r][a][k] = "ABSENT"

\* How far each Step of an attempt is where its Worker is; a failed one may be
\* anywhere.
StepsAt(place, transform, verifier) ==
    /\ place \in {"claimed", "started"} => transform = "ABSENT" /\ verifier = "ABSENT"
    /\ place = "transforming" => transform = "RUNNING" /\ verifier = "ABSENT"
    /\ place = "transformed" => transform = "SUCCEEDED" /\ verifier = "ABSENT"
    /\ place = "verifying" => transform = "SUCCEEDED" /\ verifier = "RUNNING"
    /\ place = "verified" => transform = "SUCCEEDED" /\ verifier = "SUCCEEDED"

\* A Worker, however stale, finds the Steps of its attempt as it left them.
StepsAsLeft == \A w \in Workers : claims[w] # NoClaim =>
    StepsAt(phase[w], StepOf(w, "TRANSFORM"), StepOf(w, "VERIFIER"))

\* The inductive invariant.
ExecInv ==
    /\ ExecTypeOK
    /\ FencingInv
    /\ TokensAreAttempts
    /\ RunsAtHome
    /\ OneOpenRun
    /\ RunningIsActive
    /\ JobAndRunAgree
    /\ HolderRuns
    /\ FutureStepsAbsent
    /\ StepsAsLeft
    /\ DeliveriesAreVerified

\* A claim's token is one of the attempts, none newer than the row's, and no
\* other claim of the Run has it.
LEMMA AttemptFacts ==
    ASSUME ExecInv, NEW w \in Workers, claims[w] # NoClaim
    PROVE  /\ RunOf(w) \in Runs
           /\ AttemptOf(w) \in 1..MaxAttempts
           /\ AttemptOf(w) <= jobs[RunOf(w)].token
           /\ \A v \in Workers \ {w} : claims[v] # NoClaim /\ RunOf(v) = RunOf(w)
                    => AttemptOf(v) # AttemptOf(w)
<1>1. /\ TypeOK /\ FencedClaims /\ TokensAreAttempts /\ jobs \in [Runs -> Job]
      /\ RunOf(w) \in Runs /\ AttemptOf(w) \in Nat \ {0}
  BY Typed DEF ExecInv, FencingInv, TypeOK
<1>2. /\ AttemptOf(w) <= jobs[RunOf(w)].token
      /\ \A v \in Workers \ {w} : claims[v] # NoClaim /\ RunOf(v) = RunOf(w)
                    => AttemptOf(v) # AttemptOf(w)
  BY <1>1 DEF FencedClaims, Holds, RunOf, AttemptOf
<1>3. jobs[RunOf(w)].token \in Nat /\ jobs[RunOf(w)].token <= MaxAttempts
  BY <1>1 DEF TypeOK, TokensAreAttempts, Job
<1> QED
  BY <1>1, <1>2, <1>3

\* Every open Run of a Thread is its own and on its current branch: an update
\* supersedes all of them.
LEMMA SupersededFacts ==
    ASSUME ExecInv, NEW t \in Threads
    PROVE  /\ OpenRuns(t) = {r \in Runs : OpenRun(threads[t], r)}
           /\ Superseded(t) = OpenRuns(t)
           /\ threads[t] = Invalid => OpenRuns(t) = {}
  BY DEF ExecInv, RunsAtHome, OneOpenRun, OpenRuns, RunsOf, Superseded, OpenRun, HasRun
-----------------------------------------------------------------------------
(* The kinds of step, by what they do to the state.                         *)

SameWork == claims' = claims /\ phase' = phase /\ steps' = steps

\* The rows of S that had not ended are cancelled, the others but r's kept.
RowsEnd(S, r) == \A o \in Runs \ {r} :
    IF o \in S /\ jobs[o].state \in {"QUEUED", "CLAIMED"}
    THEN /\ jobs'[o].state = "CANCELLED"
         /\ jobs'[o].token = jobs[o].token /\ jobs'[o].attempts = jobs[o].attempts
    ELSE jobs'[o] = jobs[o]

\* Run r takes the place of the open Runs of its Thread.
Queues(t, r, b) ==
    /\ ThreadOf[r] = t /\ jobs[r].state = "ABSENT"
    /\ threads' = [threads EXCEPT ![t] = threads'[t]]
    /\ QueuedOn(t, threads'[t], r, b, OpenRuns(t))
    /\ jobs'[r].state = "QUEUED" /\ jobs'[r].token = 0 /\ jobs'[r].attempts = 0
    /\ RowsEnd(OpenRuns(t), r)
    /\ SameWork /\ deliveries' = deliveries

\* The open Runs of a Thread are cancelled.
Cancels(t) ==
    /\ threads[t] # Invalid
    /\ threads' = [threads EXCEPT ![t] = threads'[t]]
    /\ threads'[t] \in ThreadProjection /\ threads'[t].actual = "CANCELLED"
    /\ threads'[t].branch = threads[t].branch
    /\ RunsEnd(threads[t], threads'[t], OpenRuns(t))
    /\ RowsEnd(OpenRuns(t), NoRun)
    /\ SameWork /\ deliveries' = deliveries

\* A Thread is changed in nothing its Runs' lives depend on.
Retouches(t) ==
    /\ threads' = [threads EXCEPT ![t] = threads'[t]]
    /\ Retouched(t, threads'[t])
    /\ \A o \in Runs : threads[t].runs[o].state \in TerminalRunState
            => threads'[t].runs[o] = threads[t].runs[o]
    /\ jobs' = jobs /\ SameWork /\ deliveries' = deliveries

\* A worker polls: it claims a Run or goes without.
Polls(w) ==
    /\ threads' = threads /\ steps' = steps /\ deliveries' = deliveries
    /\ phase[w] = "idle"
    /\ \/ /\ \A o \in Runs : Swept(o)
          /\ claims' = claims /\ phase' = phase
       \/ \E r \in Runs : Claims(w, r)

\* The holder of a claim starts its Run.
Starts(w) ==
    LET r == RunOf(w)
        t == ThreadOf[r]
        p == threads[t]
        q == threads'[t]
    IN  /\ Current(w) /\ r \in Runs /\ t \in Threads
        /\ threads' = [threads EXCEPT ![t] = q]
        /\ p # Invalid /\ q \in ThreadProjection
        /\ q.actual = "RUNNING" /\ q.branch = p.branch
        /\ RunBecomes(p, q, r, "RUNNING")
        /\ HasRun(p, r)
        /\ IF p.runs[r].state = "RUNNING" THEN q.active = p.active
           ELSE p.active \in {NoRun, r} /\ q.active = r
        /\ phase[w] = "claimed" /\ phase' = [phase EXCEPT ![w] = "started"]
        /\ jobs' = jobs /\ claims' = claims /\ steps' = steps /\ deliveries' = deliveries

\* A worker writes to its own Steps and goes on.
WritesStep(w) == \E k \in StepKind, s \in StepState \ {"ABSENT"} :
    /\ Current(w)
    /\ StepOf(w, k) \in {"ABSENT", "RUNNING"}
    /\ steps' = [steps EXCEPT ![RunOf(w)][AttemptOf(w)][k] = s]

Proceeds(w) ==
    /\ claims[w] # NoClaim
    /\ phase[w] \notin {"idle", "claimed"}
    /\ \E p \in Phases \ {"idle", "claimed"} : phase' = [phase EXCEPT ![w] = p]
    /\ steps' = steps \/ WritesStep(w)
    /\ StepsAt(phase'[w], StepOf(w, "TRANSFORM")', StepOf(w, "VERIFIER")')
    /\ jobs' = jobs /\ claims' = claims /\ threads' = threads /\ deliveries' = deliveries

\* The holder of a claim settles its Run, with a Delivery if that is verified.
Delivers(w) ==
    deliveries' = [deliveries EXCEPT ![ThreadOf[RunOf(w)]] = Append(@,
                    [run |-> RunOf(w), attempt |-> AttemptOf(w), state |-> "PREPARED"])]

SettlesSomehow(w) ==
    \/ (Settles(w, "QUEUED") \/ Settles(w, "FAILED")) /\ deliveries' = deliveries
    \/ Settles(w, "COMPLETED") /\ ~HasVerifier(w) /\ deliveries' = deliveries
    \/ Settles(w, "COMPLETED") /\ phase[w] = "verified" /\ Delivers(w)

\* A worker drops its claim.
Drops(w) ==
    /\ jobs' = jobs /\ threads' = threads /\ steps' = steps /\ deliveries' = deliveries
    /\ claims' = [claims EXCEPT ![w] = NoClaim]
    /\ phase' = [phase EXCEPT ![w] = "idle"]

\* Only the lease or the clock moves.
Waits == RowsKeep /\ ClaimsKeep /\ runtime' = runtime

\* A Delivery is presented.
Presents(t, i) ==
    /\ i \in DOMAIN deliveries[t]
    /\ deliveries' = [deliveries EXCEPT ![t][i].state = "PRESENTED"]
    /\ jobs' = jobs /\ threads' = threads /\ SameWork

LEMMA CancelRows ==
    ASSUME TypeOK, NEW S, NEW r,
           \A o \in Runs \ {r} : jobs'[o] = CancelJobs(jobs, S)[o]
    PROVE  RowsEnd(S, r)
<1>1. jobs \in [Runs -> Job]
  BY DEF TypeOK
<1>2. \A o \in Runs : LET q == CancelJobs(jobs, S)[o]
                      IN  IF o \in S /\ jobs[o].state \in {"QUEUED", "CLAIMED"}
                          THEN q = Release(jobs[o], "CANCELLED") ELSE q = jobs[o]
  BY DEF CancelJobs
<1>3. \A o \in Runs : LET q == Release(jobs[o], "CANCELLED")
                      IN  /\ q.state = "CANCELLED" /\ q.token = jobs[o].token
                          /\ q.attempts = jobs[o].attempts
  BY <1>1, ReleaseFacts DEF JobState
<1> QED
  BY <1>2, <1>3 DEF RowsEnd
\* What a worker's own Steps are after it writes one.
LEMMA WrittenSteps ==
    ASSUME ExecInv, NEW w \in Workers, claims[w] # NoClaim, claims' = claims,
           NEW k \in StepKind, NEW s,
           steps' = [steps EXCEPT ![RunOf(w)][AttemptOf(w)][k] = s]
    PROVE  \A j \in StepKind : StepOf(w, j)' = IF j = k THEN s ELSE StepOf(w, j)
<1>1. RunOf(w) \in Runs /\ AttemptOf(w) \in 1..MaxAttempts
  BY AttemptFacts
<1>2. /\ RunOf(w)' = RunOf(w) /\ AttemptOf(w)' = AttemptOf(w)
      /\ steps \in [Runs -> [1..MaxAttempts -> [StepKind -> StepState]]]
  BY DEF RunOf, AttemptOf, ExecInv, ExecTypeOK
<1> QED
  BY <1>1, <1>2 DEF StepOf

LEMMA StepsUnwritten ==
    ASSUME NEW w \in Workers, claims' = claims, steps' = steps
    PROVE  \A j \in StepKind : StepOf(w, j)' = StepOf(w, j)
  BY DEF StepOf, RunOf, AttemptOf

LEMMA BeginEffect ==
    ASSUME ExecInv, NEW w \in Workers, NEW kind \in StepKind, NEW now,
           BeginStep(w, kind, now)
    PROVE  Proceeds(w)
<1>1. /\ Holder(w, now) /\ claims[w] # NoClaim /\ Current(w) /\ phase \in [Workers -> Phases]
      /\ jobs' = jobs /\ claims' = claims /\ threads' = threads /\ deliveries' = deliveries
  BY HolderFacts, Typed DEF BeginStep, ExecInv, Holder, schedVars
<1>2. StepsAt(phase[w], StepOf(w, "TRANSFORM"), StepOf(w, "VERIFIER"))
  BY <1>1 DEF ExecInv, StepsAsLeft
<1>3. StepOf(w, kind) = "ABSENT"
  BY <1>2 DEF BeginStep, StepsAt
<1>4. steps' = [steps EXCEPT ![RunOf(w)][AttemptOf(w)][kind] = "RUNNING"]
  BY <1>3 DEF BeginStep, StepBecomes
<1>5. \A j \in StepKind : StepOf(w, j)' = IF j = kind THEN "RUNNING" ELSE StepOf(w, j)
  BY <1>1, <1>4, WrittenSteps
<1>6. WritesStep(w)
  BY <1>1, <1>3, <1>4 DEF WritesStep, StepState
<1>7. CASE phase[w] = "started" /\ kind = "TRANSFORM" /\ phase' = [phase EXCEPT ![w] = "transforming"]
  <2>1. StepsAt(phase'[w], StepOf(w, "TRANSFORM")', StepOf(w, "VERIFIER")')
    BY <1>1, <1>2, <1>5, <1>7 DEF StepsAt, StepKind
  <2> QED
    BY <1>1, <1>6, <1>7, <2>1 DEF Proceeds, Phases
<1>8. CASE phase[w] = "transformed" /\ kind = "VERIFIER" /\ phase' = [phase EXCEPT ![w] = "verifying"]
  <2>1. StepsAt(phase'[w], StepOf(w, "TRANSFORM")', StepOf(w, "VERIFIER")')
    BY <1>1, <1>2, <1>5, <1>8 DEF StepsAt, StepKind
  <2> QED
    BY <1>1, <1>6, <1>8, <2>1 DEF Proceeds, Phases
<1> QED
  BY <1>7, <1>8 DEF BeginStep, Goto

LEMMA FinishTransformEffect ==
    ASSUME ExecInv, NEW w \in Workers, NEW now, FinishTransform(w, now)
    PROVE  Proceeds(w)
<1>1. /\ Holder(w, now) /\ claims[w] # NoClaim /\ Current(w) /\ phase \in [Workers -> Phases]
      /\ jobs' = jobs /\ claims' = claims /\ threads' = threads /\ deliveries' = deliveries
  BY HolderFacts, Typed DEF FinishTransform, ExecInv, Holder, schedVars
<1>2. StepsAt(phase[w], StepOf(w, "TRANSFORM"), StepOf(w, "VERIFIER"))
  BY <1>1 DEF ExecInv, StepsAsLeft
<1>3. /\ phase[w] = "transforming" /\ phase' = [phase EXCEPT ![w] = "transformed"]
      /\ StepOf(w, "TRANSFORM") = "RUNNING"
      /\ steps' = [steps EXCEPT ![RunOf(w)][AttemptOf(w)]["TRANSFORM"] = "SUCCEEDED"]
  BY DEF FinishTransform, StepBecomes, Goto
<1>4. \A j \in StepKind : StepOf(w, j)' = IF j = "TRANSFORM" THEN "SUCCEEDED" ELSE StepOf(w, j)
  BY <1>1, <1>3, WrittenSteps DEF StepKind
<1>5. WritesStep(w)
  BY <1>1, <1>3 DEF WritesStep, StepState, StepKind
<1>6. StepsAt(phase'[w], StepOf(w, "TRANSFORM")', StepOf(w, "VERIFIER")')
  BY <1>1, <1>2, <1>3, <1>4 DEF StepsAt, StepKind
<1> QED
  BY <1>1, <1>3, <1>5, <1>6 DEF Proceeds, Phases

LEMMA FinishVerifierEffect ==
    ASSUME ExecInv, NEW w \in Workers, NEW passed \in BOOLEAN, NEW now,
           FinishVerifier(w, passed, now)
    PROVE  Proceeds(w)
<1> DEFINE verdict == IF passed THEN "SUCCEEDED" ELSE "FAILED"
           next == IF passed THEN "verified" ELSE "permanent"
<1>1. /\ Holder(w, now) /\ claims[w] # NoClaim /\ Current(w) /\ phase \in [Workers -> Phases]
      /\ jobs' = jobs /\ claims' = claims /\ threads' = threads /\ deliveries' = deliveries
  BY HolderFacts, Typed DEF FinishVerifier, ExecInv, Holder, schedVars
<1>2. StepsAt(phase[w], StepOf(w, "TRANSFORM"), StepOf(w, "VERIFIER"))
  BY <1>1 DEF ExecInv, StepsAsLeft
<1>3. /\ phase[w] = "verifying" /\ phase' = [phase EXCEPT ![w] = next]
      /\ StepOf(w, "VERIFIER") = "RUNNING"
      /\ steps' = [steps EXCEPT ![RunOf(w)][AttemptOf(w)]["VERIFIER"] = verdict]
  BY DEF FinishVerifier, StepBecomes, Goto
<1>4. \A j \in StepKind : StepOf(w, j)' = IF j = "VERIFIER" THEN verdict ELSE StepOf(w, j)
  BY <1>1, <1>3, WrittenSteps DEF StepKind
<1>5. WritesStep(w)
  BY <1>1, <1>3 DEF WritesStep, StepState, StepKind
<1>6. StepsAt(phase'[w], StepOf(w, "TRANSFORM")', StepOf(w, "VERIFIER")')
  BY <1>1, <1>2, <1>3, <1>4 DEF StepsAt, StepKind
<1>7. next \in Phases \ {"idle", "claimed"}
  BY DEF Phases
<1> QED
  BY <1>1, <1>3, <1>5, <1>6, <1>7 DEF Proceeds

LEMMA RaiseEffect ==
    ASSUME ExecInv, NEW w \in Workers, NEW outcome \in {"retryable", "permanent"},
           Raise(w, outcome)
    PROVE  Proceeds(w)
<1>1. /\ phase \in [Workers -> Phases] /\ phase[w] \in {"started", "transformed"}
      /\ phase' = [phase EXCEPT ![w] = outcome] /\ steps' = steps
      /\ jobs' = jobs /\ claims' = claims /\ threads' = threads /\ deliveries' = deliveries
  BY Typed DEF Raise, ExecInv, Goto, schedVars
<1>2. claims[w] # NoClaim
  BY <1>1 DEF ExecInv, ExecTypeOK
<1>3. StepsAt(phase'[w], StepOf(w, "TRANSFORM")', StepOf(w, "VERIFIER")')
  BY <1>1 DEF StepsAt
<1> QED
  BY <1>1, <1>2, <1>3 DEF Proceeds, Phases

LEMMA FailStepEffect ==
    ASSUME ExecInv, NEW w \in Workers, NEW outcome \in {"retryable", "permanent"}, NEW now,
           FailStep(w, outcome, now)
    PROVE  Proceeds(w)
<1> DEFINE kind == IF phase[w] = "transforming" THEN "TRANSFORM" ELSE "VERIFIER"
<1>1. /\ phase \in [Workers -> Phases] /\ phase[w] \in {"transforming", "verifying"}
      /\ phase' = [phase EXCEPT ![w] = outcome]
      /\ jobs' = jobs /\ claims' = claims /\ threads' = threads /\ deliveries' = deliveries
  BY Typed DEF FailStep, ExecInv, Goto, schedVars
<1>2. claims[w] # NoClaim
  BY <1>1 DEF ExecInv, ExecTypeOK
<1>3. steps' = steps \/ WritesStep(w)
  <2>1. CASE Holder(w, now) /\ StepOf(w, kind) = "RUNNING"
    <3>1. steps' = [steps EXCEPT ![RunOf(w)][AttemptOf(w)][kind] = "FAILED"]
      BY <2>1 DEF FailStep, StepBecomes
    <3>2. kind \in StepKind /\ Current(w)
      BY <2>1, HolderFacts DEF StepKind, ExecInv
    <3> HIDE DEF kind
    <3> QED
      BY <2>1, <3>1, <3>2 DEF WritesStep, StepState
  <2>2. CASE ~(Holder(w, now) /\ StepOf(w, kind) = "RUNNING")
    BY <2>2 DEF FailStep
  <2> QED
    BY <2>1, <2>2
<1>4. StepsAt(phase'[w], StepOf(w, "TRANSFORM")', StepOf(w, "VERIFIER")')
  BY <1>1 DEF StepsAt
<1> QED
  BY <1>1, <1>2, <1>3, <1>4 DEF Proceeds, Phases
\* A step of a worker that holds a claim.
LEMMA WorkerCases ==
    ASSUME ExecInv, NEW w \in Workers, claims[w] # NoClaim,
           NEW now \in HolderReadings(w), WorkerStep(w, now)
    PROVE  \/ \E t \in Threads : Retouches(t)
           \/ Starts(w) \/ Proceeds(w) \/ SettlesSomehow(w) \/ Drops(w) \/ Waits
<1>0. ExecTypeOK /\ now \in Readings
  BY DEF ExecInv, HolderReadings
<1>1. ASSUME StartClaimedRun(w, now) PROVE Starts(w)
  <2>1. /\ phase[w] = "claimed" /\ phase' = [phase EXCEPT ![w] = "started"]
        /\ jobs' = jobs /\ claims' = claims /\ steps' = steps /\ deliveries' = deliveries
    BY <1>1 DEF StartClaimedRun, Goto, schedVars
  <2> QED
    BY <1>0, <1>1, <2>1, StartEffect DEF Starts
<1>2. ASSUME Heartbeat(w, now) PROVE Waits
  BY <1>0, <1>2, HeartbeatEffect DEF Waits
<1>3. ASSUME SaveCheckpoint(w, now) PROVE \E t \in Threads : Retouches(t)
  <2> DEFINE r == RunOf(w)
             t == ThreadOf[r]
  <2>1. /\ r \in Runs /\ t \in Threads
        /\ threads' = [threads EXCEPT ![t] = threads'[t]]
        /\ Retouched(t, threads'[t])
        /\ threads[t].runs[r].state = "RUNNING"
        /\ \A o \in Runs \ {r} : threads'[t].runs[o] = threads[t].runs[o]
    BY <1>0, <1>3, CheckpointStep DEF ThreadFor
  <2>2. jobs' = jobs /\ SameWork /\ deliveries' = deliveries
    BY <1>3 DEF SaveCheckpoint, SameWork, schedVars
  <2>3. \A o \in Runs : threads[t].runs[o].state \in TerminalRunState
            => threads'[t].runs[o] = threads[t].runs[o]
    BY <2>1 DEF TerminalRunState
  <2> HIDE DEF r, t
  <2> QED
    BY <2>1, <2>2, <2>3 DEF Retouches
<1>4. ASSUME \/ \E kind \in StepKind : BeginStep(w, kind, now)
             \/ FinishTransform(w, now)
             \/ \E passed \in BOOLEAN : FinishVerifier(w, passed, now)
             \/ \E o \in {"retryable", "permanent"} : Raise(w, o) \/ FailStep(w, o, now)
      PROVE  Proceeds(w)
  BY <1>4, BeginEffect, FinishTransformEffect, FinishVerifierEffect, RaiseEffect, FailStepEffect
<1>5. ASSUME NEW delay \in Delays,
             \/ SettleFailure(w, delay, now)
             \/ FinishExecution(w, delay, now)
             \/ FinalizeDelivery(w, delay, now)
      PROVE  SettlesSomehow(w)
  BY <1>0, <1>5, SettleFailureEffect, FinishExecutionEffect, FinalizeEffect
     DEF SettlesSomehow, Delivers
<1>6. ASSUME GiveUp(w, now) PROVE Drops(w)
  BY <1>6 DEF GiveUp, LoseLease, Drops, Goto
<1> QED
  BY <1>1, <1>2, <1>3, <1>4, <1>5, <1>6 DEF WorkerStep

LEMMA UserCases ==
    ASSUME ExecInv, NEW t \in Threads, UserStep(t)
    PROVE  \/ \E r \in Runs, b \in Branches : Queues(t, r, b)
           \/ Cancels(t)
           \/ Retouches(t)
           \/ \E i : Presents(t, i)
<1>0. ExecTypeOK /\ TypeOK
  BY Typed DEF ExecInv
<1>1. ASSUME NEW r \in Runs, NEW bound, NEW p \in Priorities,
             NEW now \in Readings, SubmitTask(t, r, bound, p, now)
      PROVE  Queues(t, r, MainBranch)
  <2>1. /\ ThreadOf[r] = t /\ jobs[r].state = "ABSENT"
        /\ threads' = [threads EXCEPT ![t] = threads'[t]]
        /\ threads[t] = Invalid
        /\ QueuedOn(t, threads'[t], r, MainBranch, {})
        /\ jobs'[r].state = "QUEUED" /\ jobs'[r].token = 0 /\ jobs'[r].attempts = 0
        /\ \A o \in Runs \ {r} : jobs'[o] = jobs[o]
    <3>1. Submitted(t, r)
      BY <1>0, <1>1, SubmitEffect
    <3> QED
      BY <3>1 DEF Submitted
  <2>2. OpenRuns(t) = {}
    BY <2>1, SupersededFacts
  <2>3. RowsEnd({}, r)
    BY <2>1 DEF RowsEnd
  <2>4. SameWork /\ deliveries' = deliveries
    BY <1>1 DEF SubmitTask, EnqueueRun, SameWork
  <2> QED
    BY <2>1, <2>2, <2>3, <2>4 DEF Queues
<1>2. ASSUME NEW r \in Runs, NEW b \in Branches, NEW p \in Priorities,
             NEW sent \in SendTimes, ReviseThread(t, r, b, p, sent)
      PROVE  Queues(t, r, b)
  <2>1. /\ ThreadOf[r] = t /\ jobs[r].state = "ABSENT"
        /\ threads' = [threads EXCEPT ![t] = threads'[t]]
        /\ QueuedOn(t, threads'[t], r, b, Superseded(t))
        /\ jobs'[r].state = "QUEUED" /\ jobs'[r].token = 0 /\ jobs'[r].attempts = 0
        /\ \A o \in Runs \ {r} : jobs'[o] = CancelJobs(jobs, Superseded(t))[o]
    BY <1>0, <1>2, ReviseEffect
  <2>2. Superseded(t) = OpenRuns(t)
    BY SupersededFacts
  <2>3. RowsEnd(OpenRuns(t), r)
    BY <1>0, <2>1, <2>2, CancelRows
  <2>4. SameWork /\ deliveries' = deliveries
    BY <1>2 DEF ReviseThread, SupersedeRuns, SameWork
  <2> QED
    BY <2>1, <2>2, <2>3, <2>4 DEF Queues
<1>3. ASSUME CancelThread(t) PROVE Cancels(t)
  <2>1. RowsEnd(OpenRuns(t), NoRun)
    BY <1>0, <1>3, CancelEffect, CancelRows
  <2>2. SameWork /\ deliveries' = deliveries
    BY <1>3 DEF CancelThread, CancelRuns, SameWork
  <2> QED
    BY <1>0, <1>3, <2>1, <2>2, CancelEffect DEF Cancels
<1>4. ASSUME NEW s \in {"RUN", "PAUSE"}, SetDesiredState(t, s) PROVE Retouches(t)
  <2>1. jobs' = jobs /\ SameWork /\ deliveries' = deliveries
    BY <1>4 DEF SetDesiredState, SameWork, schedVars
  <2> QED
    BY <1>0, <1>4, <2>1, DesireEffect DEF Retouches
<1>5. ASSUME NEW i \in DOMAIN deliveries[t], PresentDelivery(t, i) PROVE Presents(t, i)
  BY <1>5 DEF PresentDelivery, Presents, SameWork, schedVars
<1> QED
  BY <1>1, <1>2, <1>3, <1>4, <1>5 DEF UserStep

LEMMA ExecCases ==
    ASSUME ExecInv, [ExecNext]_execVars
    PROVE  \/ \E t \in Threads, r \in Runs, b \in Branches : Queues(t, r, b)
           \/ \E t \in Threads : Cancels(t)
           \/ \E t \in Threads : Retouches(t)
           \/ \E t \in Threads : \E i : Presents(t, i)
           \/ \E w \in Workers : Polls(w)
           \/ \E w \in Workers : Starts(w)
           \/ \E w \in Workers : Proceeds(w)
           \/ \E w \in Workers : SettlesSomehow(w)
           \/ \E w \in Workers : Drops(w)
           \/ Waits
<1>1. ASSUME NEW w \in Workers, Poll(w) PROVE Polls(w)
  BY <1>1, PollEffect DEF Polls, ExecInv
<1>2. ASSUME NEW w \in Workers, Crash(w) PROVE Drops(w)
  BY <1>2 DEF Crash, CrashWorker, Drops, Goto
<1>3. ASSUME Tick /\ UNCHANGED runtime PROVE Waits
  BY <1>3 DEF Tick, Waits, RowsKeep, ClaimsKeep, RunOf, AttemptOf
<1>4. ASSUME UNCHANGED execVars PROVE Waits
  BY <1>4 DEF execVars, runtime, Waits, RowsKeep, ClaimsKeep, RunOf, AttemptOf
<1> QED
  BY <1>1, <1>2, <1>3, <1>4, UserCases, WorkerCases DEF ExecNext
-----------------------------------------------------------------------------
(* A Thread, its Runs and their rows.                                       *)

Agree(job, run) ==
    /\ job = "ABSENT" <=> run = "ABSENT"
    /\ job = "QUEUED" => run = "QUEUED"
    /\ job = "CLAIMED" => run \in {"QUEUED", "RUNNING"}
    /\ job = "COMPLETED" <=> run = "COMPLETED"
    /\ job = "CANCELLED" => run = "CANCELLED"
    /\ run = "FAILED" => job = "FAILED"

RunningRuns(t) == {r \in Runs : threads[t].runs[r].state = "RUNNING"}

\* The four invariants that relate a Thread to its Runs and their rows, at t.
ThreadOK(t) ==
    /\ \A r \in Runs : HasRun(threads[t], r) => ThreadOf[r] = t
    /\ \A r, o \in Runs : OpenRun(threads[t], r) /\ OpenRun(threads[t], o) =>
            r = o /\ threads[t].runs[r].branch = threads[t].branch
    /\ threads[t] # Invalid =>
            RunningRuns(t) = IF threads[t].actual = "RUNNING" THEN {threads[t].active} ELSE {}
    /\ \A r \in Runs : ThreadOf[r] = t => Agree(jobs[r].state, RunStateOf(r))

LEMMA ThreadsOK == ExecInv => \A t \in Threads : ThreadOK(t)
  BY DEF ExecInv, RunsAtHome, OneOpenRun, RunningIsActive, JobAndRunAgree, ThreadOK,
         RunningRuns, Agree

LEMMA ThreadsOKNext ==
    ASSUME \A t \in Threads : ThreadOK(t)'
    PROVE  RunsAtHome' /\ OneOpenRun' /\ RunningIsActive' /\ JobAndRunAgree'
<1>1. RunsAtHome' /\ OneOpenRun' /\ RunningIsActive'
  BY DEF RunsAtHome, OneOpenRun, RunningIsActive, ThreadOK, RunningRuns
<1>2. JobAndRunAgree'
  <2>1. \A r \in Runs : Agree(jobs'[r].state, RunStateOf(r)')
    BY DEF ThreadOK
  <2> QED
    BY <2>1 DEF Agree, JobAndRunAgree
<1> QED
  BY <1>1, <1>2

\* A row that stays, is swept or is claimed.
RowStays(r) ==
    \/ jobs'[r].state = jobs[r].state
    \/ jobs[r].state = "CLAIMED" /\ jobs'[r].state = "FAILED"
    \/ jobs[r].state \in {"QUEUED", "CLAIMED"} /\ jobs'[r].state = "CLAIMED"

LEMMA ThreadStays ==
    ASSUME NEW t \in Threads, ThreadOK(t),
           threads'[t] = threads[t] \/ Retouched(t, threads'[t]),
           \A r \in Runs : ThreadOf[r] = t => RowStays(r)
    PROVE  ThreadOK(t)'
<1>1. CASE threads'[t] = threads[t]
  <2>1. /\ \A r \in Runs : HasRun(threads'[t], r) => ThreadOf[r] = t
        /\ \A r, o \in Runs : OpenRun(threads'[t], r) /\ OpenRun(threads'[t], o) =>
                r = o /\ threads'[t].runs[r].branch = threads'[t].branch
        /\ threads'[t] # Invalid =>
            RunningRuns(t)' = IF threads'[t].actual = "RUNNING" THEN {threads'[t].active} ELSE {}
    BY <1>1 DEF ThreadOK, RunningRuns
  <2>2. \A r \in Runs : ThreadOf[r] = t => Agree(jobs'[r].state, RunStateOf(r)')
    BY <1>1 DEF ThreadOK, RowStays, Agree, RunStateOf
  <2> QED
    BY <2>1, <2>2 DEF ThreadOK
<1>2. CASE Retouched(t, threads'[t])
  <2>1. threads[t] # Invalid /\ threads'[t] # Invalid
    BY <1>2, ProjectionFields DEF Retouched
  <2>2. \A r \in Runs : /\ HasRun(threads'[t], r) <=> HasRun(threads[t], r)
                        /\ OpenRun(threads'[t], r) <=> OpenRun(threads[t], r)
                        /\ threads'[t].runs[r].branch = threads[t].runs[r].branch
    BY <1>2, <2>1 DEF Retouched, HasRun, OpenRun
  <2>3. \A r \in Runs : ThreadOf[r] = t => Agree(jobs'[r].state, RunStateOf(r)')
    BY <1>2, <2>1 DEF ThreadOK, RowStays, Agree, RunStateOf, Retouched
  <2>4. RunningRuns(t)' = RunningRuns(t)
    BY <1>2 DEF RunningRuns, Retouched
  <2> QED
    BY <1>2, <2>1, <2>2, <2>3, <2>4 DEF ThreadOK, Retouched
<1> QED
  BY <1>1, <1>2

\* The other Threads of a step that changes one.
LEMMA OtherThreads ==
    ASSUME ExecInv, NEW t \in Threads,
           threads' = [threads EXCEPT ![t] = threads'[t]],
           \A r \in Runs : ThreadOf[r] # t => RowStays(r),
           ThreadOK(t)'
    PROVE  \A u \in Threads : ThreadOK(u)'
<1> SUFFICES ASSUME NEW u \in Threads \ {t} PROVE ThreadOK(u)'
  OBVIOUS
<1>1. threads \in [Threads -> Projections] /\ ThreadOK(u)
  BY Typed, ThreadsOK DEF ExecInv
<1>2. threads'[u] = threads[u]
  BY <1>1
<1> QED
  BY <1>1, <1>2, ThreadStays
LEMMA JobStates ==
    ASSUME TypeOK
    PROVE  \A r \in Runs : jobs[r].state \in JobState \cup {"ABSENT"}
  BY DEF TypeOK, Job

\* Ending an open Run and its row keeps them in agreement.
LEMMA EndAgrees ==
    ASSUME TypeOK, NEW S, NEW r, RowsEnd(S, r), NEW o \in Runs \ {r}, NEW run,
           Agree(jobs[o].state, run), run # "ABSENT", run \notin TerminalRunState
    PROVE  o \in S => Agree(jobs'[o].state, "CANCELLED")
  BY JobStates DEF RowsEnd, Agree, JobState, TerminalRunState

LEMMA QueuesThread ==
    ASSUME ExecInv, NEW t \in Threads, NEW r \in Runs, NEW b \in Branches, Queues(t, r, b)
    PROVE  \A u \in Threads : ThreadOK(u)'
<1> DEFINE p == threads[t]
           q == threads'[t]
           S == OpenRuns(t)
<1>1. /\ TypeOK /\ ThreadOK(t) /\ ThreadOf[r] = t
      /\ threads' = [threads EXCEPT ![t] = threads'[t]]
      /\ QueuedOn(t, q, r, b, S)
      /\ jobs'[r].state = "QUEUED" /\ RowsEnd(S, r)
  BY Typed, ThreadsOK DEF Queues, ExecInv
<1>2. /\ S = {o \in Runs : OpenRun(p, o)}
      /\ p = Invalid => S = {}
      /\ \A o \in S : ThreadOf[o] = t
  BY SupersededFacts DEF OpenRuns, RunsOf
<1>3. q # Invalid
  BY <1>1, ProjectionFields DEF QueuedOn
<1> HIDE DEF S
<1>4. \A o \in Runs \ {r} : /\ HasRun(q, o) <=> HasRun(p, o)
                            /\ ~OpenRun(q, o)
                            /\ q.runs[o].state # "RUNNING"
  <2> SUFFICES ASSUME NEW o \in Runs \ {r}
               PROVE  /\ HasRun(q, o) <=> HasRun(p, o)
                      /\ ~OpenRun(q, o)
                      /\ q.runs[o].state # "RUNNING"
    OBVIOUS
  <2>1. CASE p = Invalid
    BY <1>1, <1>3, <2>1 DEF QueuedOn, HasRun, OpenRun, AbsentRun
  <2>2. CASE p # Invalid /\ o \in S
    BY <1>1, <1>2, <1>3, <2>2 DEF QueuedOn, HasRun, OpenRun, TerminalRunState
  <2>3. CASE p # Invalid /\ o \notin S
    <3>1. q.runs[o] = p.runs[o] /\ ~OpenRun(p, o)
      BY <1>1, <1>2, <2>3 DEF QueuedOn
    <3> QED
      BY <1>3, <2>3, <3>1 DEF HasRun, OpenRun, TerminalRunState
  <2> QED
    BY <2>1, <2>2, <2>3
<1>5. \A o \in Runs : ThreadOf[o] # t => RowStays(o)
  BY <1>1, <1>2 DEF RowsEnd, RowStays
<1>6. \A o \in Runs : ThreadOf[o] = t => Agree(jobs'[o].state, RunStateOf(o)')
  <2> SUFFICES ASSUME NEW o \in Runs, ThreadOf[o] = t
               PROVE  Agree(jobs'[o].state, q.runs[o].state)
    BY <1>3 DEF RunStateOf
  <2>1. CASE o = r
    BY <1>1, <2>1 DEF QueuedOn, Agree
  <2>2. Agree(jobs[o].state, RunStateOf(o))
    BY <1>1 DEF ThreadOK
  <2>3. CASE o # r /\ o \in S
    <3>1. /\ p # Invalid /\ RunStateOf(o) = p.runs[o].state
          /\ p.runs[o].state # "ABSENT" /\ p.runs[o].state \notin TerminalRunState
      BY <1>2, <2>3 DEF RunStateOf, OpenRun, HasRun
    <3>2. Agree(jobs'[o].state, "CANCELLED")
      BY <1>1, <2>2, <2>3, <3>1, EndAgrees
    <3> QED
      BY <1>1, <2>3, <3>1, <3>2 DEF QueuedOn
  <2>4. CASE o # r /\ o \notin S
    <3>1. jobs'[o] = jobs[o] /\ q.runs[o].state = RunStateOf(o)
      BY <1>1, <2>4 DEF RowsEnd, QueuedOn, RunStateOf, AbsentRun
    <3> QED
      BY <2>2, <3>1
  <2> QED
    BY <2>1, <2>3, <2>4
<1>7. RunningRuns(t)' = {}
  BY <1>1, <1>4 DEF RunningRuns, QueuedOn
<1>8. ThreadOK(t)'
  <2>1. \A o \in Runs : HasRun(q, o) => ThreadOf[o] = t
    BY <1>1, <1>4 DEF ThreadOK
  <2>2. \A o, v \in Runs : OpenRun(q, o) /\ OpenRun(q, v) =>
            o = v /\ q.runs[o].branch = q.branch
    BY <1>1, <1>4 DEF QueuedOn
  <2> QED
    BY <1>1, <1>6, <1>7, <2>1, <2>2 DEF ThreadOK, QueuedOn
<1> QED
  BY <1>1, <1>5, <1>8, OtherThreads

LEMMA CancelsThread ==
    ASSUME ExecInv, NEW t \in Threads, Cancels(t)
    PROVE  \A u \in Threads : ThreadOK(u)'
<1> DEFINE p == threads[t]
           q == threads'[t]
           S == OpenRuns(t)
<1>1. /\ TypeOK /\ ThreadOK(t) /\ p # Invalid
      /\ threads' = [threads EXCEPT ![t] = threads'[t]]
      /\ q \in ThreadProjection /\ q.actual = "CANCELLED" /\ q.branch = p.branch
      /\ RunsEnd(p, q, S) /\ RowsEnd(S, NoRun)
  BY Typed, ThreadsOK DEF Cancels, ExecInv
<1>2. /\ S = {o \in Runs : OpenRun(p, o)}
      /\ \A o \in S : ThreadOf[o] = t
  BY SupersededFacts DEF OpenRuns, RunsOf
<1>3. q # Invalid
  BY <1>1, ProjectionFields
<1> HIDE DEF S
<1>4. \A o \in Runs : /\ HasRun(q, o) <=> HasRun(p, o)
                      /\ ~OpenRun(q, o)
                      /\ q.runs[o].state # "RUNNING"
  <2> SUFFICES ASSUME NEW o \in Runs
               PROVE  /\ HasRun(q, o) <=> HasRun(p, o)
                      /\ ~OpenRun(q, o)
                      /\ q.runs[o].state # "RUNNING"
    OBVIOUS
  <2>1. CASE OpenRun(p, o)
    BY <1>1, <1>2, <1>3, <2>1 DEF RunsEnd, HasRun, OpenRun, TerminalRunState
  <2>2. CASE ~OpenRun(p, o)
    BY <1>1, <1>2, <1>3, <2>2 DEF RunsEnd, HasRun, OpenRun, TerminalRunState
  <2> QED
    BY <2>1, <2>2
<1>5. \A o \in Runs : ThreadOf[o] # t => RowStays(o)
  BY <1>1, <1>2 DEF RowsEnd, RowStays
<1>6. \A o \in Runs : ThreadOf[o] = t => Agree(jobs'[o].state, RunStateOf(o)')
  <2> SUFFICES ASSUME NEW o \in Runs, ThreadOf[o] = t
               PROVE  Agree(jobs'[o].state, q.runs[o].state)
    BY <1>3 DEF RunStateOf
  <2>2. Agree(jobs[o].state, p.runs[o].state)
    BY <1>1 DEF ThreadOK, RunStateOf
  <2>3. CASE o \in S
    <3>1. p.runs[o].state # "ABSENT" /\ p.runs[o].state \notin TerminalRunState
      BY <1>2, <2>3 DEF OpenRun, HasRun
    <3>2. Agree(jobs'[o].state, "CANCELLED")
      BY <1>1, <2>2, <2>3, <3>1, EndAgrees
    <3> QED
      BY <1>1, <1>2, <2>3, <3>2 DEF RunsEnd
  <2>4. CASE o \notin S
    <3>1. jobs'[o] = jobs[o] /\ q.runs[o] = p.runs[o]
      BY <1>1, <1>2, <2>4 DEF RowsEnd, RunsEnd
    <3> QED
      BY <2>2, <3>1
  <2> QED
    BY <2>3, <2>4
<1>7. RunningRuns(t)' = {}
  BY <1>4 DEF RunningRuns
<1>8. ThreadOK(t)'
  BY <1>1, <1>4, <1>6, <1>7 DEF ThreadOK
<1> QED
  BY <1>1, <1>5, <1>8, OtherThreads
\* A current claim's Run is open, and active when it is RUNNING.
LEMMA CurrentRun ==
    ASSUME ExecInv, NEW w \in Workers, Current(w)
    PROVE  LET r == RunOf(w)
               p == threads[ThreadOf[r]]
           IN  /\ r \in Runs /\ ThreadOf[r] \in Threads
               /\ OpenRun(p, r)
               /\ RunStateOf(r) = p.runs[r].state
               /\ p.runs[r].state \in {"QUEUED", "RUNNING"}
               /\ p.runs[r].state = "RUNNING" => p.actual = "RUNNING" /\ p.active = r
<1>1. RunOf(w) \in Runs /\ ThreadOf[RunOf(w)] \in Threads /\ jobs[RunOf(w)].state = "CLAIMED"
  BY Typed DEF Current, ExecInv
<1>2. RunStateOf(RunOf(w)) \in {"QUEUED", "RUNNING"}
  BY <1>1 DEF ExecInv, JobAndRunAgree
<1>3. threads[ThreadOf[RunOf(w)]] # Invalid
  BY <1>2 DEF RunStateOf
<1> QED
  BY <1>1, <1>2, <1>3 DEF RunStateOf, OpenRun, HasRun, TerminalRunState, ExecInv, RunningIsActive

LEMMA StartsThread ==
    ASSUME ExecInv, NEW w \in Workers, Starts(w)
    PROVE  \A u \in Threads : ThreadOK(u)'
<1>a. PICK r \in Runs : r = RunOf(w)
  BY DEF Starts
<1>b. PICK t \in Threads : t = ThreadOf[r]
  BY <1>a
<1> DEFINE p == threads[t]
           q == threads'[t]
<1>1. /\ Current(w) /\ r \in Runs /\ t \in Threads
      /\ threads' = [threads EXCEPT ![t] = q]
      /\ p # Invalid /\ q \in ThreadProjection
      /\ q.actual = "RUNNING" /\ q.branch = p.branch
      /\ RunBecomes(p, q, r, "RUNNING")
      /\ IF p.runs[r].state = "RUNNING" THEN q.active = p.active
         ELSE p.active \in {NoRun, r} /\ q.active = r
      /\ jobs' = jobs
  BY <1>a, <1>b DEF Starts
<1>2. /\ ThreadOK(t) /\ OpenRun(p, r)
      /\ p.runs[r].state = "RUNNING" => p.active = r
      /\ RunStateOf(r) = p.runs[r].state /\ q # Invalid
      /\ jobs[r].state = "CLAIMED"
  BY <1>a, <1>b, <1>1, CurrentRun, ThreadsOK, ProjectionFields DEF Current
<1>3. \A o \in Runs : RowStays(o)
  BY <1>1 DEF RowStays
<1>4. \A o \in Runs : /\ HasRun(q, o) <=> HasRun(p, o)
                      /\ OpenRun(q, o) <=> OpenRun(p, o)
                      /\ OpenRun(p, o) => o = r
  BY <1>1, <1>2 DEF RunBecomes, HasRun, OpenRun, ThreadOK, TerminalRunState
<1>5. \A o \in Runs : ThreadOf[o] = t => Agree(jobs'[o].state, RunStateOf(o)')
  <2> SUFFICES ASSUME NEW o \in Runs, ThreadOf[o] = t
               PROVE  Agree(jobs[o].state, q.runs[o].state)
    BY <1>1, <1>2 DEF RunStateOf
  <2>1. Agree(jobs[o].state, p.runs[o].state)
    BY <1>1, <1>2 DEF ThreadOK, RunStateOf
  <2>2. CASE o = r
    BY <1>1, <1>2, <2>2 DEF RunBecomes, Agree
  <2>3. CASE o # r
    BY <1>1, <2>1, <2>3 DEF RunBecomes
  <2> QED
    BY <2>2, <2>3
<1>6. RunningRuns(t)' = {r}
  <2>1. \A o \in Runs : q.runs[o].state = "RUNNING" => OpenRun(q, o)
    BY <1>2 DEF OpenRun, HasRun, TerminalRunState
  <2>2. \A o \in Runs : q.runs[o].state = "RUNNING" <=> o = r
    BY <1>1, <1>4, <2>1 DEF RunBecomes
  <2> QED
    BY <1>1, <2>2 DEF RunningRuns
<1>7. q.active = r
  BY <1>1, <1>2
<1>8. ThreadOK(t)'
  <2>1. \A o \in Runs : HasRun(q, o) => ThreadOf[o] = t
    BY <1>2, <1>4 DEF ThreadOK
  <2>2. \A o, v \in Runs : OpenRun(q, o) /\ OpenRun(q, v) =>
            o = v /\ q.runs[o].branch = q.branch
    BY <1>1, <1>2, <1>4 DEF RunBecomes, ThreadOK
  <2> QED
    BY <1>1, <1>5, <1>6, <1>7, <2>1, <2>2 DEF ThreadOK
<1> QED
  BY <1>1, <1>3, <1>8, OtherThreads

LEMMA SettlesThread ==
    ASSUME ExecInv, NEW w \in Workers, NEW s \in {"QUEUED", "FAILED", "COMPLETED"},
           Settles(w, s)
    PROVE  \A u \in Threads : ThreadOK(u)'
<1>a. PICK r \in Runs : r = RunOf(w)
  BY DEF Settles
<1>b. PICK t \in Threads : t = ThreadOf[r]
  BY <1>a
<1> DEFINE p == threads[t]
           q == threads'[t]
<1>1. /\ r \in Runs /\ t \in Threads /\ Current(w)
      /\ threads' = [threads EXCEPT ![t] = q]
      /\ p # Invalid /\ q \in ThreadProjection
      /\ q.actual # "RUNNING" /\ q.branch = p.branch
      /\ RunBecomes(p, q, r, s)
      /\ jobs'[r].state = s
      /\ \A o \in Runs \ {r} : jobs'[o] = jobs[o]
  BY <1>a, <1>b DEF Settles
<1>2. ThreadOK(t) /\ OpenRun(p, r) /\ q # Invalid
  BY <1>a, <1>b, <1>1, CurrentRun, ThreadsOK, ProjectionFields
<1>3. \A o \in Runs : ThreadOf[o] # t => RowStays(o)
  BY <1>a, <1>b, <1>1 DEF RowStays
<1>4. \A o \in Runs : /\ HasRun(q, o) <=> HasRun(p, o)
                      /\ OpenRun(q, o) => OpenRun(p, o)
                      /\ OpenRun(p, o) => o = r
  BY <1>1, <1>2 DEF RunBecomes, HasRun, OpenRun, ThreadOK
<1>5. \A o \in Runs : ThreadOf[o] = t => Agree(jobs'[o].state, RunStateOf(o)')
  <2> SUFFICES ASSUME NEW o \in Runs, ThreadOf[o] = t
               PROVE  Agree(jobs'[o].state, q.runs[o].state)
    BY <1>1, <1>2 DEF RunStateOf
  <2>1. Agree(jobs[o].state, p.runs[o].state)
    BY <1>1, <1>2 DEF ThreadOK, RunStateOf
  <2>2. CASE o = r
    BY <1>1, <2>2 DEF RunBecomes, Agree
  <2>3. CASE o # r
    BY <1>1, <2>1, <2>3 DEF RunBecomes
  <2> QED
    BY <2>2, <2>3
<1>6. RunningRuns(t)' = {}
  <2>1. \A o \in Runs : q.runs[o].state = "RUNNING" => OpenRun(q, o)
    BY <1>2 DEF OpenRun, HasRun, TerminalRunState
  <2>2. \A o \in Runs : q.runs[o].state # "RUNNING"
    BY <1>1, <1>4, <2>1 DEF RunBecomes
  <2> QED
    BY <2>2 DEF RunningRuns
<1>8. ThreadOK(t)'
  <2>1. \A o \in Runs : HasRun(q, o) => ThreadOf[o] = t
    BY <1>2, <1>4 DEF ThreadOK
  <2>2. \A o, v \in Runs : OpenRun(q, o) /\ OpenRun(q, v) =>
            o = v /\ q.runs[o].branch = q.branch
    BY <1>1, <1>2, <1>4 DEF RunBecomes, ThreadOK
  <2> QED
    BY <1>1, <1>5, <1>6, <2>1, <2>2 DEF ThreadOK
<1> QED
  BY <1>1, <1>3, <1>8, OtherThreads

LEMMA ThreadStep ==
    ASSUME ExecInv, [ExecNext]_execVars
    PROVE  \A u \in Threads : ThreadOK(u)'
<1>0. \A u \in Threads : ThreadOK(u)
  BY ThreadsOK
<1>1. ASSUME NEW t \in Threads, Retouches(t) PROVE \A u \in Threads : ThreadOK(u)'
  <2>1. \A r \in Runs : RowStays(r)
    BY <1>1 DEF Retouches, RowStays
  <2>2. ThreadOK(t)'
    BY <1>0, <1>1, <2>1, ThreadStays DEF Retouches
  <2> QED
    BY <1>1, <2>1, <2>2, OtherThreads DEF Retouches
<1>2. ASSUME threads' = threads, \A r \in Runs : RowStays(r)
      PROVE  \A u \in Threads : ThreadOK(u)'
  BY <1>0, <1>2, ThreadStays
<1>3. ASSUME NEW w \in Workers, Polls(w) PROVE \A u \in Threads : ThreadOK(u)'
  <2>1. ASSUME NEW o, Swept(o) PROVE RowStays(o)
    BY <2>1 DEF Swept, RowStays
  <2>2. ASSUME NEW r \in Runs, Claims(w, r) PROVE \A o \in Runs : RowStays(o)
    <3>1. RowStays(r)
      BY <2>2 DEF Claims, RowStays
    <3> QED
      BY <2>1, <2>2, <3>1 DEF Claims
  <2> QED
    BY <1>2, <1>3, <2>1, <2>2 DEF Polls
<1>4. ASSUME threads' = threads, \A r \in Runs : jobs'[r].state = jobs[r].state
      PROVE  \A u \in Threads : ThreadOK(u)'
  BY <1>2, <1>4 DEF RowStays
<1>5. ASSUME NEW w \in Workers, SettlesSomehow(w) PROVE \A u \in Threads : ThreadOK(u)'
  BY <1>5, SettlesThread DEF SettlesSomehow
<1>6. ASSUME Waits PROVE \A u \in Threads : ThreadOK(u)'
  BY <1>4, <1>6 DEF Waits, RowsKeep, runtime
<1>7. ASSUME NEW w \in Workers, Proceeds(w) \/ Drops(w)
      PROVE  \A u \in Threads : ThreadOK(u)'
  BY <1>4, <1>7 DEF Proceeds, Drops
<1>8. ASSUME NEW t \in Threads, NEW i, Presents(t, i)
      PROVE  \A u \in Threads : ThreadOK(u)'
  BY <1>4, <1>8 DEF Presents
<1> QED
  BY <1>1, <1>3, <1>5, <1>6, <1>7, <1>8, QueuesThread, CancelsThread, StartsThread, ExecCases
-----------------------------------------------------------------------------
(* Types and tokens.                                                        *)

LEMMA PresentedList ==
    ASSUME NEW s \in Seq(Delivery), NEW i \in DOMAIN s,
           NEW q, q = [s EXCEPT ![i].state = "PRESENTED"]
    PROVE  /\ q \in Seq(Delivery) /\ DOMAIN q = DOMAIN s
           /\ \A j \in DOMAIN s : q[j].run = s[j].run /\ q[j].attempt = s[j].attempt
<1> DEFINE d == [s[i] EXCEPT !.state = "PRESENTED"]
<1>1. i \in 1..Len(s) /\ DOMAIN s = 1..Len(s) /\ s[i] \in Delivery
  BY LenProperties, ElementOfSeq
<1>2. d \in Delivery /\ d.run = s[i].run /\ d.attempt = s[i].attempt
  BY <1>1 DEF Delivery
<1>3. q = [s EXCEPT ![i] = d]
  OBVIOUS
<1> HIDE DEF d
<1>4. /\ q \in Seq(Delivery) /\ Len(q) = Len(s)
      /\ \A j \in 1..Len(s) : q[j] = IF j = i THEN d ELSE s[j]
  BY <1>1, <1>2, <1>3, ExceptSeq
<1>5. DOMAIN q = 1..Len(q)
  BY <1>4, LenProperties
<1> QED
  BY <1>1, <1>2, <1>4, <1>5

LEMMA AppendedList ==
    ASSUME NEW s \in Seq(Delivery), NEW d \in Delivery
    PROVE  /\ Append(s, d) \in Seq(Delivery)
           /\ DOMAIN s = 1..Len(s) /\ Len(s) \in Nat
           /\ DOMAIN Append(s, d) = 1..(Len(s) + 1)
           /\ \A i \in DOMAIN s : Append(s, d)[i] = s[i]
           /\ Append(s, d)[Len(s) + 1] = d
<1>1. /\ Append(s, d) \in Seq(Delivery) /\ Len(Append(s, d)) = Len(s) + 1
      /\ \A i \in 1..Len(s) : Append(s, d)[i] = s[i]
      /\ Append(s, d)[Len(s) + 1] = d
  BY AppendProperties
<1>2. /\ DOMAIN s = 1..Len(s) /\ Len(s) \in Nat
      /\ DOMAIN Append(s, d) = 1..Len(Append(s, d))
  BY <1>1, LenProperties
<1> QED
  BY <1>1, <1>2

\* What a Delivery appends.
LEMMA DeliversEffect ==
    ASSUME ExecInv, NEW w \in Workers, claims[w] # NoClaim, Delivers(w)
    PROVE  LET t == ThreadOf[RunOf(w)]
               d == [run |-> RunOf(w), attempt |-> AttemptOf(w), state |-> "PREPARED"]
           IN  /\ d \in Delivery /\ t \in Threads
               /\ deliveries' = [deliveries EXCEPT ![t] = Append(deliveries[t], d)]
<1>1. RunOf(w) \in Runs /\ AttemptOf(w) \in 1..MaxAttempts
  BY AttemptFacts
<1> QED
  BY <1>1 DEF Delivers, Delivery

LEMMA SettleClaim ==
    ASSUME NEW w \in Workers, SettlesSomehow(w)
    PROVE  \E s \in {"QUEUED", "FAILED", "COMPLETED"} : Settles(w, s)
  BY DEF SettlesSomehow

LEMMA ThreadsTyped ==
    ASSUME ExecInv, NEW t \in Threads, threads' = [threads EXCEPT ![t] = threads'[t]],
           threads'[t] \in ThreadProjection
    PROVE  threads' \in [Threads -> ThreadProjection \cup {Invalid}]
  BY DEF ExecInv, ExecTypeOK

LEMMA DeliveriesTyped ==
    ASSUME ExecInv, [ExecNext]_execVars
    PROVE  deliveries' \in [Threads -> Seq(Delivery)]
<1>0. deliveries \in [Threads -> Seq(Delivery)]
  BY DEF ExecInv, ExecTypeOK
<1>1. ASSUME NEW t \in Threads, NEW i, Presents(t, i)
      PROVE  deliveries' \in [Threads -> Seq(Delivery)]
  <2> DEFINE q == [deliveries[t] EXCEPT ![i].state = "PRESENTED"]
  <2>1. i \in DOMAIN deliveries[t] /\ deliveries' = [deliveries EXCEPT ![t] = q]
    BY <1>1 DEF Presents
  <2>2. q \in Seq(Delivery)
    BY <1>0, <2>1, PresentedList
  <2> HIDE DEF q
  <2> QED
    BY <1>0, <2>1, <2>2
<1>2. ASSUME NEW w \in Workers, SettlesSomehow(w)
      PROVE  deliveries' \in [Threads -> Seq(Delivery)]
  <2>1. CASE deliveries' = deliveries
    BY <1>0, <2>1
  <2>2. CASE Delivers(w)
    <3>1. claims[w] # NoClaim
      BY <1>2, SettleClaim DEF Settles, Current
    <3>2. PICK t \in Threads, d \in Delivery :
                deliveries' = [deliveries EXCEPT ![t] = Append(deliveries[t], d)]
      BY <2>2, <3>1, DeliversEffect
    <3> QED
      BY <1>0, <3>2, AppendedList
  <2> QED
    BY <1>2, <2>1, <2>2 DEF SettlesSomehow
<1> QED
  BY <1>0, <1>1, <1>2, ExecCases
     DEF Queues, Cancels, Retouches, Polls, Starts, Proceeds, Drops, Waits, runtime

LEMMA StepsTyped ==
    ASSUME ExecInv, [ExecNext]_execVars
    PROVE  steps' \in [Runs -> [1..MaxAttempts -> [StepKind -> StepState]]]
<1>0. steps \in [Runs -> [1..MaxAttempts -> [StepKind -> StepState]]]
  BY DEF ExecInv, ExecTypeOK
<1>1. ASSUME NEW w \in Workers, WritesStep(w)
      PROVE  steps' \in [Runs -> [1..MaxAttempts -> [StepKind -> StepState]]]
  <2>1. RunOf(w) \in Runs /\ AttemptOf(w) \in 1..MaxAttempts
    BY <1>1, AttemptFacts DEF WritesStep, Current
  <2> QED
    BY <1>0, <1>1, <2>1 DEF WritesStep
<1> QED
  BY <1>0, <1>1, ExecCases, SettleClaim
     DEF Queues, Cancels, Retouches, Presents, SameWork, Polls, Starts, Proceeds, Settles,
         Drops, Waits, runtime

LEMMA PlacesTyped ==
    ASSUME ExecInv, [ExecNext]_execVars
    PROVE  /\ phase' \in [Workers -> Phases]
           /\ \A w \in Workers : phase'[w] = "idle" <=> claims'[w] = NoClaim
<1>0. /\ phase \in [Workers -> Phases] /\ claims \in [Workers -> WorkerClaim \cup {NoClaim}]
      /\ \A w \in Workers : phase[w] = "idle" <=> claims[w] = NoClaim
  BY Typed DEF ExecInv, ExecTypeOK, TypeOK
<1>1. ASSUME phase' = phase, claims' = claims \/ ClaimsKeep
      PROVE  /\ phase' \in [Workers -> Phases]
             /\ \A w \in Workers : phase'[w] = "idle" <=> claims'[w] = NoClaim
  BY <1>0, <1>1 DEF ClaimsKeep
<1>2. ASSUME NEW w \in Workers, Polls(w)
      PROVE  /\ phase' \in [Workers -> Phases]
             /\ \A v \in Workers : phase'[v] = "idle" <=> claims'[v] = NoClaim
  <2>1. CASE claims' = claims /\ phase' = phase
    BY <1>1, <2>1
  <2>2. ASSUME NEW r \in Runs, Claims(w, r)
        PROVE  /\ phase' \in [Workers -> Phases]
               /\ \A v \in Workers : phase'[v] = "idle" <=> claims'[v] = NoClaim
    BY <1>0, <2>2 DEF Claims, Phases
  <2> QED
    BY <1>2, <2>1, <2>2 DEF Polls
<1>3. ASSUME NEW w \in Workers, Drops(w) \/ SettlesSomehow(w)
      PROVE  /\ phase' \in [Workers -> Phases]
             /\ \A v \in Workers : phase'[v] = "idle" <=> claims'[v] = NoClaim
  <2>1. /\ claims' = [claims EXCEPT ![w] = NoClaim]
        /\ phase' = [phase EXCEPT ![w] = "idle"]
    BY <1>3, SettleClaim DEF Drops, Settles
  <2> QED
    BY <1>0, <2>1 DEF Phases
<1>4. ASSUME NEW w \in Workers, Starts(w) \/ Proceeds(w)
      PROVE  /\ phase' \in [Workers -> Phases]
             /\ \A v \in Workers : phase'[v] = "idle" <=> claims'[v] = NoClaim
  <2>1. /\ claims' = claims /\ claims[w] # NoClaim
        /\ \E p \in Phases \ {"idle"} : phase' = [phase EXCEPT ![w] = p]
    BY <1>4 DEF Starts, Current, Proceeds, Phases
  <2> QED
    BY <1>0, <2>1
<1> QED
  BY <1>1, <1>2, <1>3, <1>4, ExecCases
     DEF Queues, Cancels, Retouches, Presents, SameWork, Waits, runtime

LEMMA ThreadTypeStep ==
    ASSUME ExecInv, [ExecNext]_execVars
    PROVE  threads' \in [Threads -> ThreadProjection \cup {Invalid}]
<1>0. threads \in [Threads -> ThreadProjection \cup {Invalid}]
  BY DEF ExecInv, ExecTypeOK
<1>1. ASSUME NEW t \in Threads,
             \/ \E r \in Runs, b \in Branches : Queues(t, r, b)
             \/ Cancels(t) \/ Retouches(t)
      PROVE  threads' \in [Threads -> ThreadProjection \cup {Invalid}]
  BY <1>1, ThreadsTyped DEF Queues, QueuedOn, Cancels, Retouches, Retouched
<1>2. ASSUME NEW w \in Workers, Starts(w) \/ SettlesSomehow(w)
      PROVE  threads' \in [Threads -> ThreadProjection \cup {Invalid}]
  BY <1>2, SettleClaim, ThreadsTyped DEF Starts, Settles
<1> QED
  BY <1>0, <1>1, <1>2, ExecCases DEF Presents, Polls, Proceeds, Drops, Waits, runtime

LEMMA ExecTypeStep ==
    ASSUME ExecInv, [ExecNext]_execVars
    PROVE  ExecTypeOK' /\ FencingInv'
<1>1. [Next]_schedVars
  BY QueueStep DEF execVars, schedVars
<1>2. TypeOK' /\ FencingInv'
  BY <1>1, FencingStep DEF ExecInv, FencingInv
<1> QED
  BY <1>2, ThreadTypeStep, PlacesTyped, StepsTyped, DeliveriesTyped DEF ExecTypeOK
LEMMA TokenStep ==
    ASSUME ExecInv, [ExecNext]_execVars
    PROVE  /\ TokensAreAttempts'
           /\ \A r \in Runs : jobs'[r].token >= jobs[r].token
<1>0. /\ \A r \in Runs : jobs[r].token = jobs[r].attempts
      /\ \A r \in Runs : jobs[r].token \in Nat
      /\ \A r \in Runs : jobs[r].state = "ABSENT" => jobs[r].token = 0
  BY Typed DEF ExecInv, FencingInv, TokensAreAttempts, TypeOK, Job
<1>1. ASSUME \A r \in Runs : jobs'[r].token = jobs[r].token /\ jobs'[r].attempts = jobs[r].attempts
      PROVE  TokensAreAttempts' /\ \A r \in Runs : jobs'[r].token >= jobs[r].token
  BY <1>0, <1>1 DEF TokensAreAttempts
<1>2. ASSUME NEW S, NEW r, RowsEnd(S, r)
      PROVE  \A o \in Runs \ {r} : jobs'[o].token = jobs[o].token /\ jobs'[o].attempts = jobs[o].attempts
  BY <1>2 DEF RowsEnd
<1>3. ASSUME NEW t, NEW r \in Runs, NEW b, Queues(t, r, b)
      PROVE  TokensAreAttempts' /\ \A o \in Runs : jobs'[o].token >= jobs[o].token
  BY <1>0, <1>2, <1>3 DEF Queues, TokensAreAttempts
<1>4. ASSUME NEW t, Cancels(t)
      PROVE  \A o \in Runs : jobs'[o].token = jobs[o].token /\ jobs'[o].attempts = jobs[o].attempts
  BY <1>2, <1>4 DEF Cancels
<1>5. ASSUME NEW w \in Workers, Polls(w)
      PROVE  TokensAreAttempts' /\ \A o \in Runs : jobs'[o].token >= jobs[o].token
  <2>1. CASE \A o \in Runs : Swept(o)
    BY <1>1, <2>1 DEF Swept
  <2>2. ASSUME NEW r \in Runs, Claims(w, r)
        PROVE  TokensAreAttempts' /\ \A o \in Runs : jobs'[o].token >= jobs[o].token
    BY <1>0, <2>2 DEF Claims, Swept, TokensAreAttempts
  <2> QED
    BY <1>5, <2>1, <2>2 DEF Polls
<1>6. ASSUME NEW w \in Workers, SettlesSomehow(w)
      PROVE  \A o \in Runs : jobs'[o].token = jobs[o].token /\ jobs'[o].attempts = jobs[o].attempts
  BY <1>6, SettleClaim DEF Settles
<1>7. ASSUME Waits
      PROVE  \A o \in Runs : jobs'[o].token = jobs[o].token /\ jobs'[o].attempts = jobs[o].attempts
  BY <1>7 DEF Waits, RowsKeep
<1> QED
  BY <1>1, <1>3, <1>4, <1>5, <1>6, <1>7, ExecCases DEF Retouches, Presents, Starts, Proceeds, Drops

-----------------------------------------------------------------------------
(* The Worker that holds the current claim.                                 *)

LEMMA HolderRunsStep ==
    ASSUME ExecInv, [ExecNext]_execVars
    PROVE  HolderRuns'
<1>0. /\ HolderRuns /\ TypeOK
      /\ \A v \in Workers : claims[v] # NoClaim => RunOf(v) \in Runs /\ ThreadOf[RunOf(v)] \in Threads
      /\ threads \in [Threads -> Projections] /\ phase \in [Workers -> Phases]
      /\ claims \in [Workers -> WorkerClaim \cup {NoClaim}]
  BY Typed DEF ExecInv, TypeOK
<1>1. ASSUME NEW v \in Workers, Current(v)', phase'[v] \notin {"idle", "claimed"},
             Current(v), phase[v] \notin {"idle", "claimed"}, RunOf(v)' = RunOf(v),
             RunStateOf(RunOf(v)) = "RUNNING" => RunStateOf(RunOf(v))' = "RUNNING"
      PROVE  RunStateOf(RunOf(v))' = "RUNNING"
  BY <1>0, <1>1 DEF HolderRuns
<1>2. ASSUME claims' = claims, phase' = phase, NEW r, NEW S, NEW t \in Threads, S = OpenRuns(t),
             RowsEnd(S, r),
             threads' = [threads EXCEPT ![t] = threads'[t]], threads'[t] # Invalid,
             r \in Runs => jobs'[r].state = "QUEUED",
             \A o \in Runs \ ({r} \cup S) : threads[t] # Invalid =>
                    threads'[t].runs[o] = threads[t].runs[o]
      PROVE  HolderRuns'
  <2> SUFFICES ASSUME NEW v \in Workers, Current(v)', phase'[v] \notin {"idle", "claimed"}
               PROVE  RunStateOf(RunOf(v))' = "RUNNING"
    BY DEF HolderRuns
  <2>1. PICK o \in Runs : o = RunOf(v) /\ RunOf(v)' = o /\ claims[v] # NoClaim
    BY <1>0, <1>2 DEF Current, RunOf
  <2>2. jobs'[o].state = "CLAIMED"
    BY <2>1 DEF Current
  <2>3. o # r /\ o \notin S /\ jobs'[o] = jobs[o]
    <3>1. o # r
      BY <1>2, <2>2
    <3>2. CASE o \in S
      BY <1>2, <2>2, <3>1, <3>2 DEF RowsEnd
    <3>3. CASE o \notin S
      BY <1>2, <3>1, <3>3 DEF RowsEnd
    <3> QED
      BY <3>1, <3>2, <3>3
  <2>4. Current(v)
    BY <1>2, <2>1, <2>2, <2>3 DEF Current, AttemptOf
  <2>5. RunStateOf(o) = "RUNNING"
    BY <1>0, <1>2, <2>1, <2>4 DEF HolderRuns
  <2>6. RunStateOf(o)' = "RUNNING"
    BY <1>0, <1>2, <2>3, <2>5 DEF RunStateOf
  <2> QED
    BY <2>1, <2>6
<1>3. ASSUME NEW t \in Threads, NEW r \in Runs, NEW b \in Branches, Queues(t, r, b)
      PROVE  HolderRuns'
  <2>1. /\ threads'[t] # Invalid
        /\ \A o \in Runs \ ({r} \cup OpenRuns(t)) : threads[t] # Invalid =>
                    threads'[t].runs[o] = threads[t].runs[o]
    BY <1>3, ProjectionFields DEF Queues, QueuedOn
  <2> QED
    BY <1>2, <1>3, <2>1 DEF Queues, SameWork
<1>4. ASSUME NEW t \in Threads, Cancels(t)
      PROVE  HolderRuns'
  <2>1. /\ threads'[t] # Invalid
        /\ \A o \in Runs \ ({NoRun} \cup OpenRuns(t)) : threads'[t].runs[o] = threads[t].runs[o]
    BY <1>4, ProjectionFields DEF Cancels, RunsEnd
  <2> QED
    BY <1>2, <1>4, <2>1 DEF Cancels, SameWork
<1>5. ASSUME claims' = claims \/ ClaimsKeep, jobs' = jobs \/ RowsKeep,
             \A v \in Workers : phase'[v] \notin {"idle", "claimed"} =>
                    phase[v] \notin {"idle", "claimed"},
             \A r \in Runs : RunStateOf(r) = "RUNNING" => RunStateOf(r)' = "RUNNING"
      PROVE  HolderRuns'
  <2> SUFFICES ASSUME NEW v \in Workers, Current(v)', phase'[v] \notin {"idle", "claimed"}
               PROVE  RunStateOf(RunOf(v))' = "RUNNING"
    BY DEF HolderRuns
  <2>1. claims[v] # NoClaim /\ RunOf(v)' = RunOf(v) /\ AttemptOf(v)' = AttemptOf(v)
    BY <1>5 DEF Current, ClaimsKeep, RunOf, AttemptOf
  <2>2. PICK o \in Runs : o = RunOf(v)
    BY <1>0, <2>1
  <2>3. Current(v)
    BY <1>5, <2>1, <2>2 DEF Current, RowsKeep
  <2> QED
    BY <1>0, <1>5, <2>1, <2>2, <2>3 DEF HolderRuns
<1>6. ASSUME NEW t \in Threads, Retouches(t) PROVE HolderRuns'
  <2>1. threads'[t] # Invalid /\ threads[t] # Invalid
    BY <1>6, ProjectionFields DEF Retouches, Retouched
  <2>2. \A r \in Runs : RunStateOf(r)' = RunStateOf(r)
    BY <1>0, <1>6, <2>1 DEF Retouches, Retouched, RunStateOf
  <2> QED
    BY <1>5, <1>6, <2>2 DEF Retouches, SameWork
<1>7. ASSUME threads' = threads PROVE \A r \in Runs : RunStateOf(r)' = RunStateOf(r)
  BY <1>7 DEF RunStateOf
<1>8. ASSUME NEW w \in Workers, Proceeds(w) PROVE HolderRuns'
  <2>1. \A v \in Workers : phase'[v] \notin {"idle", "claimed"} =>
                    phase[v] \notin {"idle", "claimed"}
    BY <1>0, <1>8 DEF Proceeds
  <2> QED
    BY <1>5, <1>7, <1>8, <2>1 DEF Proceeds
<1>9. ASSUME NEW w \in Workers, Drops(w) PROVE HolderRuns'
  <2> SUFFICES ASSUME NEW v \in Workers, Current(v)', phase'[v] \notin {"idle", "claimed"}
               PROVE  RunStateOf(RunOf(v))' = "RUNNING"
    BY DEF HolderRuns
  <2>1. claims'[v] = claims[v] /\ phase'[v] = phase[v] /\ jobs' = jobs /\ claims[v] # NoClaim
    BY <1>0, <1>9 DEF Drops, Current
  <2>2. Current(v) /\ RunOf(v)' = RunOf(v) /\ RunOf(v) \in Runs
    BY <1>0, <2>1 DEF Current, RunOf, AttemptOf
  <2>3. RunStateOf(RunOf(v))' = RunStateOf(RunOf(v))
    BY <1>7, <1>9, <2>2 DEF Drops, RunStateOf
  <2> QED
    BY <1>0, <2>1, <2>2, <2>3 DEF HolderRuns
<1>10. ASSUME NEW w \in Workers, Starts(w) PROVE HolderRuns'
  <2> SUFFICES ASSUME NEW v \in Workers, Current(v)', phase'[v] \notin {"idle", "claimed"}
               PROVE  RunStateOf(RunOf(v))' = "RUNNING"
    BY DEF HolderRuns
  <2>1. PICK r \in Runs, t \in Threads : r = RunOf(w) /\ t = ThreadOf[r]
    BY <1>10 DEF Starts
  <2>2. PICK o \in Runs : o = RunOf(v) /\ RunOf(v)' = o /\ Current(v)
    BY <1>0, <1>10 DEF Starts, Current, RunOf, AttemptOf
  <2>3. /\ threads' = [threads EXCEPT ![t] = threads'[t]]
        /\ threads[t] # Invalid /\ threads'[t] # Invalid
        /\ RunBecomes(threads[t], threads'[t], r, "RUNNING")
    BY <1>10, <2>1, ProjectionFields DEF Starts
  <2>4. CASE o = r
    BY <2>1, <2>2, <2>3, <2>4 DEF RunStateOf, RunBecomes
  <2>5. CASE o # r
    <3>1. v # w
      BY <2>1, <2>2, <2>5
    <3>2. phase[v] = phase'[v]
      BY <1>0, <1>10, <3>1 DEF Starts
    <3>3. RunStateOf(o) = "RUNNING"
      BY <1>0, <2>2, <3>2 DEF HolderRuns
    <3>4. RunStateOf(o)' = "RUNNING"
      BY <1>0, <2>1, <2>3, <2>5, <3>3 DEF RunStateOf, RunBecomes
    <3> QED
      BY <2>2, <3>4
  <2> QED
    BY <2>4, <2>5
<1>11. ASSUME NEW w \in Workers, NEW s \in {"QUEUED", "FAILED", "COMPLETED"}, Settles(w, s)
       PROVE HolderRuns'
  <2> SUFFICES ASSUME NEW v \in Workers, Current(v)', phase'[v] \notin {"idle", "claimed"}
               PROVE  RunStateOf(RunOf(v))' = "RUNNING"
    BY DEF HolderRuns
  <2>1. PICK r \in Runs, t \in Threads : r = RunOf(w) /\ t = ThreadOf[r]
    BY <1>11 DEF Settles
  <2>2. claims'[v] = claims[v] /\ phase'[v] = phase[v] /\ claims[v] # NoClaim
    BY <1>0, <1>11 DEF Settles, Current
  <2>3. PICK o \in Runs : o = RunOf(v) /\ RunOf(v)' = o /\ AttemptOf(v)' = AttemptOf(v)
    BY <1>0, <2>2 DEF RunOf, AttemptOf
  <2>4. /\ threads' = [threads EXCEPT ![t] = threads'[t]]
        /\ threads[t] # Invalid /\ threads'[t] # Invalid
        /\ RunBecomes(threads[t], threads'[t], r, s)
        /\ jobs'[r].state = s /\ \A u \in Runs \ {r} : jobs'[u] = jobs[u]
    BY <1>11, <2>1, ProjectionFields DEF Settles
  <2>5. o # r
    BY <2>3, <2>4 DEF Current
  <2>6. Current(v)
    BY <2>2, <2>3, <2>4, <2>5 DEF Current
  <2>7. RunStateOf(o) = "RUNNING"
    BY <1>0, <2>2, <2>3, <2>6 DEF HolderRuns
  <2>8. RunStateOf(o)' = "RUNNING"
    BY <1>0, <2>1, <2>4, <2>5, <2>7 DEF RunStateOf, RunBecomes
  <2> QED
    BY <2>3, <2>8
<1>12. ASSUME NEW w \in Workers, Polls(w) PROVE HolderRuns'
  <2> SUFFICES ASSUME NEW v \in Workers, Current(v)', phase'[v] \notin {"idle", "claimed"}
               PROVE  RunStateOf(RunOf(v))' = "RUNNING"
    BY DEF HolderRuns
  <2>1. CASE (\A o \in Runs : Swept(o)) /\ claims' = claims /\ phase' = phase
    <3>1. PICK o \in Runs : o = RunOf(v) /\ RunOf(v)' = o
      BY <1>0, <2>1 DEF Current, RunOf
    <3>2. Current(v)
      BY <2>1, <3>1 DEF Current, Swept, RunOf, AttemptOf
    <3> QED
      BY <1>0, <1>7, <1>12, <2>1, <3>1, <3>2 DEF HolderRuns, Polls
  <2>2. ASSUME NEW r \in Runs, Claims(w, r)
        PROVE  RunStateOf(RunOf(v))' = "RUNNING"
    <3>1. v # w
      BY <1>0, <2>2 DEF Claims
    <3>2. claims'[v] = claims[v] /\ phase'[v] = phase[v] /\ claims[v] # NoClaim
      BY <1>0, <2>2, <3>1 DEF Claims, Current
    <3>3. PICK o \in Runs : o = RunOf(v) /\ RunOf(v)' = o /\ AttemptOf(v)' = AttemptOf(v)
      BY <1>0, <3>2 DEF RunOf, AttemptOf
    <3>4. o # r
      <4>1. AttemptOf(v) <= jobs[o].token /\ jobs[o].token \in Nat
        BY <1>0, <3>2, <3>3, AttemptFacts DEF TypeOK, Job
      <4>2. jobs'[o].token = AttemptOf(v)
        BY <3>3 DEF Current
      <4> QED
        BY <2>2, <4>1, <4>2, AttemptFacts, <3>2 DEF Claims
    <3>5. Swept(o)
      BY <2>2, <3>4 DEF Claims
    <3>6. Current(v)
      BY <3>2, <3>3, <3>5 DEF Current, Swept
    <3> QED
      BY <1>0, <1>7, <1>12, <3>2, <3>3, <3>6 DEF HolderRuns, Polls
  <2> QED
    BY <1>12, <2>1, <2>2 DEF Polls
<1>13. ASSUME Waits PROVE HolderRuns'
  BY <1>5, <1>7, <1>13 DEF Waits, runtime
<1>14. ASSUME NEW t \in Threads, NEW i, Presents(t, i) PROVE HolderRuns'
  BY <1>5, <1>7, <1>14 DEF Presents, SameWork
<1>15. ASSUME NEW w \in Workers, SettlesSomehow(w) PROVE HolderRuns'
  BY <1>11, <1>15, SettleClaim
<1> QED
  BY <1>3, <1>4, <1>6, <1>8, <1>9, <1>10, <1>12, <1>13, <1>14, <1>15, ExecCases
-----------------------------------------------------------------------------
(* The Steps.                                                               *)

\* A step changes at most one Step, of the attempt of a current claim.
LEMMA StepsChange ==
    ASSUME ExecInv, [ExecNext]_execVars
    PROVE  \/ steps' = steps
           \/ \E w \in Workers : Proceeds(w) /\ WritesStep(w)
<1>1. ASSUME NEW w \in Workers, SettlesSomehow(w) PROVE steps' = steps
  BY <1>1, SettleClaim DEF Settles
<1> QED
  BY <1>1, ExecCases DEF Queues, Cancels, Retouches, Presents, SameWork, Polls, Starts,
                         Proceeds, Drops, Waits, runtime

\* Where a written Step is, and what the others are.
LEMMA WriteEffect ==
    ASSUME ExecInv, NEW w \in Workers, WritesStep(w)
    PROVE  \E r \in Runs, a \in 1..MaxAttempts, k \in StepKind, s \in StepState \ {"ABSENT"} :
                /\ r = RunOf(w) /\ a = AttemptOf(w) /\ a = jobs[r].token
                /\ jobs[r].state = "CLAIMED"
                /\ steps[r][a][k] \in {"ABSENT", "RUNNING"}
                /\ steps'[r][a][k] = s
                /\ \A q \in Runs, b \in 1..MaxAttempts, j \in StepKind :
                        q # r \/ b # a \/ j # k => steps'[q][b][j] = steps[q][b][j]
                /\ \A q \in Runs, b \in 1..MaxAttempts :
                        q # r \/ b # a => steps'[q][b] = steps[q][b]
                /\ \A q \in Runs : q # r => steps'[q] = steps[q]
<1>1. PICK k \in StepKind, s \in StepState \ {"ABSENT"} :
            /\ Current(w) /\ StepOf(w, k) \in {"ABSENT", "RUNNING"}
            /\ steps' = [steps EXCEPT ![RunOf(w)][AttemptOf(w)][k] = s]
  BY DEF WritesStep
<1>2. PICK r \in Runs, a \in 1..MaxAttempts : r = RunOf(w) /\ a = AttemptOf(w)
  BY <1>1, AttemptFacts DEF Current
<1>3. /\ steps \in [Runs -> [1..MaxAttempts -> [StepKind -> StepState]]]
      /\ steps' = [steps EXCEPT ![r][a][k] = s]
      /\ steps[r][a][k] \in {"ABSENT", "RUNNING"}
      /\ a = jobs[r].token /\ jobs[r].state = "CLAIMED"
  BY <1>1, <1>2 DEF ExecInv, ExecTypeOK, StepOf, Current
<1>4. /\ steps'[r][a][k] = s
      /\ \A q \in Runs, b \in 1..MaxAttempts, j \in StepKind :
            q # r \/ b # a \/ j # k => steps'[q][b][j] = steps[q][b][j]
      /\ \A q \in Runs, b \in 1..MaxAttempts : q # r \/ b # a => steps'[q][b] = steps[q][b]
      /\ \A q \in Runs : q # r => steps'[q] = steps[q]
  BY <1>3
<1> WITNESS r \in Runs, a \in 1..MaxAttempts, k \in StepKind, s \in StepState \ {"ABSENT"}
<1> QED
  BY <1>2, <1>3, <1>4

LEMMA FutureStepsStep ==
    ASSUME ExecInv, [ExecNext]_execVars
    PROVE  FutureStepsAbsent'
<1>0. FutureStepsAbsent /\ \A r \in Runs : jobs[r].token \in Nat /\ jobs'[r].token \in Nat
  BY Typed, ExecTypeStep DEF ExecInv, FencingInv, TypeOK, Job
<1>1. CASE steps' = steps
  BY <1>0, <1>1, TokenStep DEF FutureStepsAbsent
<1>2. ASSUME NEW w \in Workers, Proceeds(w), WritesStep(w) PROVE FutureStepsAbsent'
  <2>1. jobs' = jobs
    BY <1>2 DEF Proceeds
  <2> QED
    BY <1>0, <1>2, <2>1, WriteEffect DEF FutureStepsAbsent
<1> QED
  BY <1>1, <1>2, StepsChange

\* The claims and places a step leaves as they are.
LEMMA StepsLeftAlone ==
    ASSUME ExecInv, NEW v \in Workers, claims'[v] # NoClaim, steps' = steps,
           claims[v] # NoClaim, RunOf(v)' = RunOf(v), AttemptOf(v)' = AttemptOf(v),
           phase'[v] = phase[v]
    PROVE  StepsAt(phase'[v], StepOf(v, "TRANSFORM")', StepOf(v, "VERIFIER")')
<1>1. StepOf(v, "TRANSFORM")' = StepOf(v, "TRANSFORM") /\ StepOf(v, "VERIFIER")' = StepOf(v, "VERIFIER")
  BY DEF StepOf
<1> QED
  BY <1>1 DEF ExecInv, StepsAsLeft

LEMMA StepsAsLeftStep ==
    ASSUME ExecInv, [ExecNext]_execVars
    PROVE  StepsAsLeft'
<1> SUFFICES ASSUME NEW v \in Workers, claims'[v] # NoClaim
             PROVE  StepsAt(phase'[v], StepOf(v, "TRANSFORM")', StepOf(v, "VERIFIER")')
  BY DEF StepsAsLeft
<1> DEFINE Left == StepsAt(phase'[v], StepOf(v, "TRANSFORM")', StepOf(v, "VERIFIER")')
<1>0. /\ TypeOK /\ phase \in [Workers -> Phases]
      /\ claims \in [Workers -> WorkerClaim \cup {NoClaim}]
  BY Typed DEF ExecInv, TypeOK
<1>1. ASSUME claims' = claims, phase' = phase, steps' = steps PROVE Left
  BY <1>1, StepsLeftAlone DEF RunOf, AttemptOf
<1>2. ASSUME NEW w \in Workers, Drops(w) \/ SettlesSomehow(w) PROVE Left
  <2>1. /\ claims' = [claims EXCEPT ![w] = NoClaim]
        /\ phase' = [phase EXCEPT ![w] = "idle"] /\ steps' = steps
    BY <1>2, SettleClaim DEF Drops, Settles
  <2>2. claims'[v] = claims[v] /\ phase'[v] = phase[v]
    BY <1>0, <2>1
  <2> QED
    BY <2>1, <2>2, StepsLeftAlone DEF RunOf, AttemptOf
<1>3. ASSUME Waits PROVE Left
  BY <1>3, StepsLeftAlone DEF Waits, ClaimsKeep, runtime
<1>4. ASSUME NEW w \in Workers, Polls(w) PROVE Left
  <2>1. CASE claims' = claims /\ phase' = phase
    BY <1>1, <1>4, <2>1 DEF Polls
  <2>2. ASSUME NEW r \in Runs, Claims(w, r), v # w PROVE Left
    <3>1. claims'[v] = claims[v] /\ phase'[v] = phase[v]
      BY <1>0, <2>2 DEF Claims
    <3> QED
      BY <1>4, <3>1, StepsLeftAlone DEF Polls, RunOf, AttemptOf
  <2>3. ASSUME NEW r \in Runs, Claims(w, r), v = w PROVE Left
    <3>1. /\ phase'[v] = "claimed" /\ RunOf(v)' = r /\ AttemptOf(v)' = jobs[r].token + 1
          /\ jobs[r].attempts < MaxAttempts /\ jobs[r].token = jobs[r].attempts
          /\ jobs[r].token \in Nat
      BY <1>0, <2>3 DEF Claims, RunOf, AttemptOf, ExecInv, TokensAreAttempts, TypeOK, Job
    <3>2. jobs[r].token + 1 \in 1..MaxAttempts
      BY <3>1
    <3>3. \A k \in StepKind : steps[r][jobs[r].token + 1][k] = "ABSENT"
      BY <3>1, <3>2 DEF ExecInv, FutureStepsAbsent
    <3>4. StepOf(v, "TRANSFORM")' = "ABSENT" /\ StepOf(v, "VERIFIER")' = "ABSENT"
      BY <1>4, <3>1, <3>3 DEF StepOf, Polls, StepKind
    <3> QED
      BY <3>1, <3>4 DEF StepsAt
  <2> QED
    BY <1>4, <2>1, <2>2, <2>3 DEF Polls
<1>5. ASSUME NEW w \in Workers, Starts(w) PROVE Left
  <2>1. CASE v # w
    <3>1. claims'[v] = claims[v] /\ phase'[v] = phase[v] /\ steps' = steps
      BY <1>0, <1>5, <2>1 DEF Starts
    <3> QED
      BY <3>1, StepsLeftAlone DEF RunOf, AttemptOf
  <2>2. CASE v = w
    <3>1. /\ claims' = claims /\ steps' = steps /\ phase[v] = "claimed" /\ phase'[v] = "started"
          /\ claims[v] # NoClaim
      BY <1>0, <1>5, <2>2 DEF Starts, Current
    <3>2. StepsAt(phase[v], StepOf(v, "TRANSFORM"), StepOf(v, "VERIFIER"))
      BY <3>1 DEF ExecInv, StepsAsLeft
    <3>3. \A j \in StepKind : StepOf(v, j)' = StepOf(v, j)
      BY <3>1, StepsUnwritten
    <3> QED
      BY <3>1, <3>2, <3>3 DEF StepsAt, StepKind
  <2> QED
    BY <2>1, <2>2
<1>6. ASSUME NEW w \in Workers, Proceeds(w) PROVE Left
  <2>1. CASE v = w
    BY <1>6, <2>1 DEF Proceeds
  <2>2. CASE v # w
    <3>1. claims' = claims /\ phase'[v] = phase[v] /\ claims[v] # NoClaim /\ claims[w] # NoClaim
      BY <1>0, <1>6, <2>2 DEF Proceeds
    <3>2. CASE steps' = steps
      BY <3>1, <3>2, StepsLeftAlone DEF RunOf, AttemptOf
    <3>3. CASE WritesStep(w)
      <4>1. PICK q \in Runs, b \in 1..MaxAttempts : q = RunOf(v) /\ b = AttemptOf(v)
        BY <3>1, AttemptFacts
      <4>2. steps'[q][b] = steps[q][b]
        <5>1. ~(RunOf(v) = RunOf(w) /\ AttemptOf(v) = AttemptOf(w))
          BY <2>2, <3>1, AttemptFacts
        <5> QED
          BY <3>3, <4>1, <5>1, WriteEffect
      <4>3. RunOf(v)' = q /\ AttemptOf(v)' = b
        BY <3>1, <4>1 DEF RunOf, AttemptOf
      <4>4. StepOf(v, "TRANSFORM")' = StepOf(v, "TRANSFORM") /\ StepOf(v, "VERIFIER")' = StepOf(v, "VERIFIER")
        BY <4>1, <4>2, <4>3 DEF StepOf
      <4> QED
        BY <3>1, <4>4 DEF ExecInv, StepsAsLeft
    <3> QED
      BY <1>6, <3>2, <3>3 DEF Proceeds
  <2> QED
    BY <2>1, <2>2
<1> QED
  BY <1>1, <1>2, <1>3, <1>4, <1>5, <1>6, ExecCases
     DEF Queues, Cancels, Retouches, Presents, SameWork
-----------------------------------------------------------------------------
(* Ended Runs and Deliveries.                                               *)

\* An ended Run keeps its record, and one ends as COMPLETED only when the
\* holder of its current claim settles it so.
Fate(o) ==
    /\ RunStateOf(o) \in TerminalRunState =>
        /\ threads'[ThreadOf[o]].runs[o] = threads[ThreadOf[o]].runs[o]
        /\ RunStateOf(o)' = RunStateOf(o)
    /\ RunStateOf(o)' = "COMPLETED" /\ RunStateOf(o) # "COMPLETED" =>
        \E w \in Workers : Current(w) /\ RunOf(w) = o /\ Settles(w, "COMPLETED")

\* A Run whose Thread and record a step leaves.
LEMMA FateKept ==
    ASSUME NEW o \in Runs,
           \/ threads'[ThreadOf[o]] = threads[ThreadOf[o]]
           \/ /\ threads[ThreadOf[o]] # Invalid /\ threads'[ThreadOf[o]] # Invalid
              /\ threads'[ThreadOf[o]].runs[o] = threads[ThreadOf[o]].runs[o]
    PROVE  Fate(o)
  BY DEF Fate, RunStateOf

\* A Run that had not ended and does not complete.
LEMMA FateOpen ==
    ASSUME NEW o \in Runs, RunStateOf(o) \notin TerminalRunState, RunStateOf(o)' # "COMPLETED"
    PROVE  Fate(o)
  BY DEF Fate

LEMMA FateStep ==
    ASSUME ExecInv, [ExecNext]_execVars
    PROVE  \A o \in Runs : Fate(o)
<1> SUFFICES ASSUME NEW o \in Runs PROVE Fate(o)
  OBVIOUS
<1>0. /\ threads \in [Threads -> Projections] /\ ThreadOf[o] \in Threads
  BY Typed DEF ExecInv
<1>1. ASSUME NEW t \in Threads, threads' = [threads EXCEPT ![t] = threads'[t]], t # ThreadOf[o]
      PROVE  Fate(o)
  BY <1>0, <1>1, FateKept
<1>2. ASSUME threads' = threads PROVE Fate(o)
  BY <1>2, FateKept
<1>3. ASSUME NEW t \in Threads, NEW r \in Runs, NEW b \in Branches, Queues(t, r, b),
             t = ThreadOf[o]
      PROVE  Fate(o)
  <2>1. QueuedOn(t, threads'[t], r, b, OpenRuns(t)) /\ threads'[t] # Invalid
    BY <1>3, ProjectionFields DEF Queues, QueuedOn
  <2>2. OpenRuns(t) = {q \in Runs : OpenRun(threads[t], q)}
    BY SupersededFacts
  <2>3. CASE o = r
    <3>1. RunStateOf(o) = "ABSENT" /\ RunStateOf(o)' = "QUEUED"
      BY <1>3, <2>1, <2>3 DEF QueuedOn, RunStateOf, HasRun
    <3> QED
      BY <3>1, FateOpen DEF TerminalRunState
  <2>4. CASE o # r /\ threads[t] = Invalid
    <3>1. RunStateOf(o) = "ABSENT" /\ RunStateOf(o)' = "ABSENT"
      BY <1>3, <2>1, <2>4 DEF QueuedOn, RunStateOf, AbsentRun
    <3> QED
      BY <3>1, FateOpen DEF TerminalRunState
  <2>5. CASE o # r /\ threads[t] # Invalid /\ o \in OpenRuns(t)
    <3>1. RunStateOf(o) \notin TerminalRunState /\ RunStateOf(o)' = "CANCELLED"
      BY <1>3, <2>1, <2>2, <2>5 DEF QueuedOn, RunStateOf, OpenRun
    <3> QED
      BY <3>1, FateOpen
  <2>6. CASE o # r /\ threads[t] # Invalid /\ o \notin OpenRuns(t)
    <3>1. threads'[t].runs[o] = threads[t].runs[o]
      BY <2>1, <2>6 DEF QueuedOn
    <3> QED
      BY <1>3, <2>1, <2>6, <3>1, FateKept
  <2> QED
    BY <2>3, <2>4, <2>5, <2>6
<1>4. ASSUME NEW t \in Threads, Cancels(t), t = ThreadOf[o] PROVE Fate(o)
  <2>1. /\ RunsEnd(threads[t], threads'[t], OpenRuns(t)) /\ threads[t] # Invalid
        /\ threads'[t] # Invalid
    BY <1>4, ProjectionFields DEF Cancels
  <2>2. CASE OpenRun(threads[t], o)
    <3>1. RunStateOf(o) \notin TerminalRunState /\ RunStateOf(o)' = "CANCELLED"
      BY <1>4, <2>1, <2>2, SupersededFacts DEF RunsEnd, RunStateOf, OpenRun
    <3> QED
      BY <3>1, FateOpen
  <2>3. CASE ~OpenRun(threads[t], o)
    BY <1>4, <2>1, <2>3, FateKept DEF RunsEnd
  <2> QED
    BY <2>2, <2>3
<1>5. ASSUME NEW t \in Threads, Retouches(t), t = ThreadOf[o] PROVE Fate(o)
  <2>1. /\ threads[t] # Invalid /\ threads'[t] # Invalid
        /\ RunStateOf(o)' = RunStateOf(o)
    BY <1>5, ProjectionFields DEF Retouches, Retouched, RunStateOf
  <2> QED
    BY <1>5, <2>1 DEF Fate, Retouches, RunStateOf
<1>6. ASSUME NEW w \in Workers, Starts(w) PROVE Fate(o)
  <2>1. PICK r \in Runs, t \in Threads : r = RunOf(w) /\ t = ThreadOf[r]
    BY <1>6 DEF Starts
  <2>2. /\ threads' = [threads EXCEPT ![t] = threads'[t]]
        /\ threads[t] # Invalid /\ threads'[t] # Invalid
        /\ RunBecomes(threads[t], threads'[t], r, "RUNNING")
        /\ RunStateOf(r) \in {"QUEUED", "RUNNING"}
    BY <1>6, <2>1, ProjectionFields, CurrentRun DEF Starts
  <2>3. CASE o = r
    <3>1. RunStateOf(o)' = "RUNNING"
      BY <2>1, <2>2, <2>3 DEF RunStateOf, RunBecomes
    <3> QED
      BY <2>2, <2>3, <3>1, FateOpen DEF TerminalRunState
  <2>4. CASE o # r /\ t = ThreadOf[o]
    BY <2>2, <2>4, FateKept DEF RunBecomes
  <2> QED
    BY <1>1, <2>2, <2>3, <2>4
<1>7. ASSUME NEW w \in Workers, NEW s \in {"QUEUED", "FAILED", "COMPLETED"}, Settles(w, s)
      PROVE  Fate(o)
  <2>1. PICK r \in Runs, t \in Threads : r = RunOf(w) /\ t = ThreadOf[r]
    BY <1>7 DEF Settles
  <2>2. /\ threads' = [threads EXCEPT ![t] = threads'[t]]
        /\ threads[t] # Invalid /\ threads'[t] # Invalid
        /\ RunBecomes(threads[t], threads'[t], r, s)
        /\ RunStateOf(r) \in {"QUEUED", "RUNNING"}
        /\ Current(w)
    BY <1>7, <2>1, ProjectionFields, CurrentRun DEF Settles
  <2>3. CASE o = r
    <3>1. RunStateOf(o)' = s
      BY <2>1, <2>2, <2>3 DEF RunStateOf, RunBecomes
    <3> QED
      BY <1>7, <2>1, <2>2, <2>3, <3>1 DEF Fate, TerminalRunState
  <2>4. CASE o # r /\ t = ThreadOf[o]
    BY <2>2, <2>4, FateKept DEF RunBecomes
  <2> QED
    BY <1>1, <2>2, <2>3, <2>4
<1>8. ASSUME NEW w \in Workers, SettlesSomehow(w) PROVE Fate(o)
  BY <1>7, <1>8, SettleClaim
<1>9. ASSUME NEW t \in Threads,
             \/ \E r \in Runs, b \in Branches : Queues(t, r, b)
             \/ Cancels(t) \/ Retouches(t)
      PROVE  Fate(o)
  <2>1. threads' = [threads EXCEPT ![t] = threads'[t]]
    BY <1>9 DEF Queues, Cancels, Retouches
  <2> QED
    BY <1>1, <1>3, <1>4, <1>5, <1>9, <2>1
<1> QED
  BY <1>2, <1>6, <1>8, <1>9, ExecCases
     DEF Presents, Polls, Proceeds, Drops, Waits, runtime
\* A Step that succeeded stays so.
LEMMA SucceededStay ==
    ASSUME ExecInv, [ExecNext]_execVars
    PROVE  \A r \in Runs, a \in 1..MaxAttempts, k \in StepKind :
                steps[r][a][k] = "SUCCEEDED" => steps'[r][a][k] = "SUCCEEDED"
<1>1. ASSUME NEW w \in Workers, WritesStep(w),
             NEW r \in Runs, NEW a \in 1..MaxAttempts, NEW k \in StepKind,
             steps[r][a][k] = "SUCCEEDED"
      PROVE  steps'[r][a][k] = "SUCCEEDED"
  <2>1. PICK q \in Runs, b \in 1..MaxAttempts, j \in StepKind :
            /\ steps[q][b][j] \in {"ABSENT", "RUNNING"}
            /\ \A o \in Runs, c \in 1..MaxAttempts, i \in StepKind :
                    o # q \/ c # b \/ i # j => steps'[o][c][i] = steps[o][c][i]
    BY <1>1, WriteEffect
  <2> QED
    BY <1>1, <2>1
<1> QED
  BY <1>1, StepsChange

\* The Deliveries of Run r among those of its Thread.
Made(ds, r) == {i \in DOMAIN ds : ds[i].run = r}

AllSucceeded(d, book) == \A k \in StepKind : book[d.run][d.attempt][k] = "SUCCEEDED"

\* DeliveriesAreVerified of one Thread.
VerifiedOn(t) ==
    /\ \A i \in DOMAIN deliveries[t] : AllSucceeded(deliveries[t][i], steps)
    /\ \A r \in Runs : ThreadOf[r] = t /\ ExecutorOf[r] \in Verified =>
            Cardinality(Made(deliveries[t], r)) = IF RunStateOf(r) = "COMPLETED" THEN 1 ELSE 0

LEMMA VerifiedByThread == DeliveriesAreVerified <=> \A t \in Threads : VerifiedOn(t)
  BY DEF DeliveriesAreVerified, VerifiedOn, AllSucceeded, Made

\* Appending a Delivery of r gives it one more and the other Runs none.
LEMMA MadeOneMore ==
    ASSUME NEW s \in Seq(Delivery), NEW d \in Delivery
    PROVE  /\ \A o \in Runs \ {d.run} : Made(Append(s, d), o) = Made(s, o)
           /\ Cardinality(Made(s, d.run)) = 0 => Cardinality(Made(Append(s, d), d.run)) = 1
<1> DEFINE n == Len(s)
           q == Append(s, d)
<1>1. /\ n \in Nat /\ DOMAIN s = 1..n /\ DOMAIN q = 1..(n + 1)
      /\ \A i \in 1..n : q[i] = s[i]
      /\ q[n + 1] = d
  BY AppendedList
<1> HIDE DEF n, q
<1>2. \A o \in Runs \ {d.run} : Made(q, o) = Made(s, o)
  BY <1>1 DEF Made
<1>3. Made(q, d.run) = Made(s, d.run) \cup {n + 1} /\ n + 1 \notin Made(s, d.run)
  BY <1>1 DEF Made
<1>4. IsFiniteSet(Made(s, d.run))
  <2>1. Made(s, d.run) \subseteq 1..n /\ IsFiniteSet(1..n)
    BY <1>1, FS_Interval DEF Made
  <2> QED
    BY <2>1, FS_Subset
<1>5. Cardinality(Made(s, d.run)) = 0 => Cardinality(Made(q, d.run)) = 1
  <2>1. Cardinality(Made(q, d.run)) = Cardinality(Made(s, d.run)) + 1
    BY <1>3, <1>4, FS_AddElement, Zenon
  <2> QED
    BY <2>1
<1> QED
  BY <1>2, <1>5 DEF q
\* The Deliveries of a Thread after a step, unless one is appended.
LEMMA VerifiedKept ==
    ASSUME ExecInv, [ExecNext]_execVars, NEW t \in Threads,
           DOMAIN deliveries'[t] = DOMAIN deliveries[t],
           \A i \in DOMAIN deliveries[t] :
                /\ deliveries'[t][i].run = deliveries[t][i].run
                /\ deliveries'[t][i].attempt = deliveries[t][i].attempt,
           \A r \in Runs : ThreadOf[r] = t /\ ExecutorOf[r] \in Verified =>
                (RunStateOf(r)' = "COMPLETED" <=> RunStateOf(r) = "COMPLETED")
    PROVE  VerifiedOn(t)'
<1>0. VerifiedOn(t) /\ deliveries[t] \in Seq(Delivery)
  BY VerifiedByThread DEF ExecInv, ExecTypeOK
<1>1. \A i \in DOMAIN deliveries[t] : deliveries[t][i] \in Delivery
  BY <1>0, LenProperties, ElementOfSeq
<1>2. \A i \in DOMAIN deliveries'[t] : AllSucceeded(deliveries'[t][i], steps')
  <2> SUFFICES ASSUME NEW i \in DOMAIN deliveries[t], NEW k \in StepKind
               PROVE  steps'[deliveries'[t][i].run][deliveries'[t][i].attempt][k] = "SUCCEEDED"
    BY DEF AllSucceeded
  <2>1. PICK r \in Runs, a \in 1..MaxAttempts :
            r = deliveries[t][i].run /\ a = deliveries[t][i].attempt
    BY <1>1 DEF Delivery
  <2>2. steps[r][a][k] = "SUCCEEDED"
    BY <1>0, <2>1 DEF VerifiedOn, AllSucceeded
  <2> QED
    BY <2>1, <2>2, SucceededStay
<1>3. \A r \in Runs : Made(deliveries'[t], r) = Made(deliveries[t], r)
  BY DEF Made
<1>4. \A r \in Runs : ThreadOf[r] = t /\ ExecutorOf[r] \in Verified =>
        Cardinality(Made(deliveries'[t], r)) = IF RunStateOf(r)' = "COMPLETED" THEN 1 ELSE 0
  BY <1>0, <1>3 DEF VerifiedOn
<1> QED
  BY <1>2, <1>4 DEF VerifiedOn

LEMMA VerifiedStep ==
    ASSUME ExecInv, [ExecNext]_execVars
    PROVE  \A t \in Threads : VerifiedOn(t)'
<1>0. /\ deliveries \in [Threads -> Seq(Delivery)]
      /\ \A r \in Runs : ThreadOf[r] \in Threads
      /\ \A t \in Threads : VerifiedOn(t)
  BY VerifiedByThread DEF ExecInv, ExecTypeOK
<1>1. ASSUME deliveries' = deliveries,
             \A r \in Runs : ExecutorOf[r] \in Verified =>
                (RunStateOf(r)' = "COMPLETED" <=> RunStateOf(r) = "COMPLETED")
      PROVE  \A t \in Threads : VerifiedOn(t)'
  BY <1>1, VerifiedKept
<1>2. ASSUME \A w \in Workers : ~Settles(w, "COMPLETED")
      PROVE  \A r \in Runs : RunStateOf(r)' = "COMPLETED" <=> RunStateOf(r) = "COMPLETED"
  BY <1>2, FateStep DEF Fate, TerminalRunState
<1>3. ASSUME NEW t \in Threads, NEW i, Presents(t, i)
      PROVE  \A u \in Threads : VerifiedOn(u)'
  <2>1. /\ i \in DOMAIN deliveries[t]
        /\ deliveries' = [deliveries EXCEPT ![t] = [deliveries[t] EXCEPT ![i].state = "PRESENTED"]]
        /\ threads' = threads
    BY <1>3 DEF Presents
  <2>2. /\ DOMAIN deliveries'[t] = DOMAIN deliveries[t]
        /\ \A j \in DOMAIN deliveries[t] :
                /\ deliveries'[t][j].run = deliveries[t][j].run
                /\ deliveries'[t][j].attempt = deliveries[t][j].attempt
    <3>1. deliveries'[t] = [deliveries[t] EXCEPT ![i].state = "PRESENTED"]
      BY <1>0, <2>1
    <3> QED
      BY <1>0, <2>1, <3>1, PresentedList
  <2>3. \A u \in Threads \ {t} : deliveries'[u] = deliveries[u]
    BY <1>0, <2>1
  <2>4. \A r \in Runs : RunStateOf(r)' = RunStateOf(r)
    BY <2>1 DEF RunStateOf
  <2> SUFFICES ASSUME NEW u \in Threads PROVE VerifiedOn(u)'
    OBVIOUS
  <2>5. /\ DOMAIN deliveries'[u] = DOMAIN deliveries[u]
        /\ \A j \in DOMAIN deliveries[u] :
                /\ deliveries'[u][j].run = deliveries[u][j].run
                /\ deliveries'[u][j].attempt = deliveries[u][j].attempt
    BY <2>2, <2>3
  <2> QED
    BY <2>4, <2>5, VerifiedKept
<1>4. ASSUME NEW w \in Workers, Settles(w, "COMPLETED"), phase[w] = "verified", Delivers(w)
      PROVE  \A u \in Threads : VerifiedOn(u)'
  <2> DEFINE d == [run |-> RunOf(w), attempt |-> AttemptOf(w), state |-> "PREPARED"]
  <2>1. PICK r \in Runs, t \in Threads, a \in 1..MaxAttempts :
            r = RunOf(w) /\ t = ThreadOf[r] /\ a = AttemptOf(w)
    BY <1>4, AttemptFacts DEF Settles, Current
  <2>2. /\ claims[w] # NoClaim /\ Current(w) /\ steps' = steps
        /\ d \in Delivery /\ d.run = r /\ d.attempt = a
        /\ deliveries' = [deliveries EXCEPT ![t] = Append(deliveries[t], d)]
    BY <1>4, <2>1, DeliversEffect DEF Settles, Current
  <2>3. \A k \in StepKind : steps[r][a][k] = "SUCCEEDED"
    <3>1. StepsAt(phase[w], StepOf(w, "TRANSFORM"), StepOf(w, "VERIFIER"))
      BY <2>2 DEF ExecInv, StepsAsLeft
    <3> QED
      BY <1>4, <2>1, <3>1 DEF StepsAt, StepOf, StepKind
  <2> HIDE DEF d
  <2>4. /\ RunStateOf(r) # "COMPLETED" /\ RunStateOf(r)' = "COMPLETED"
        /\ \A o \in Runs \ {r} : RunStateOf(o)' = "COMPLETED" <=> RunStateOf(o) = "COMPLETED"
    <3>1. RunStateOf(r) # "COMPLETED"
      BY <2>1, <2>2, CurrentRun
    <3>2. RunStateOf(r)' = "COMPLETED"
      BY <1>4, <2>1, ProjectionFields DEF Settles, RunBecomes, RunStateOf
    <3>3. ASSUME NEW v \in Workers, Settles(v, "COMPLETED") PROVE v = w
      BY <3>3, <1>0, <1>4, Typed DEF Settles, ExecInv, TypeOK, Current
    <3>4. \A o \in Runs \ {r} : RunStateOf(o)' = "COMPLETED" <=> RunStateOf(o) = "COMPLETED"
      BY <2>1, <3>3, FateStep DEF Fate, TerminalRunState
    <3> QED
      BY <3>1, <3>2, <3>4
  <2>5. \A u \in Threads \ {t} : VerifiedOn(u)'
    <3> SUFFICES ASSUME NEW u \in Threads \ {t} PROVE VerifiedOn(u)'
      OBVIOUS
    <3>1. deliveries'[u] = deliveries[u]
      BY <1>0, <2>2
    <3> QED
      BY <2>1, <2>4, <3>1, VerifiedKept
  <2>6. VerifiedOn(t)'
    <3> DEFINE s == deliveries[t]
    <3>1. s \in Seq(Delivery) /\ deliveries'[t] = Append(s, d) /\ VerifiedOn(t)
      BY <1>0, <2>2
    <3>2. \A i \in DOMAIN deliveries'[t] : AllSucceeded(deliveries'[t][i], steps')
      <4>1. \A i \in DOMAIN s : AllSucceeded(s[i], steps)
        BY <3>1 DEF VerifiedOn
      <4>2. AllSucceeded(d, steps)
        BY <2>2, <2>3 DEF AllSucceeded
      <4>3. /\ DOMAIN s = 1..Len(s) /\ Len(s) \in Nat
            /\ DOMAIN Append(s, d) = 1..(Len(s) + 1)
            /\ \A i \in DOMAIN s : Append(s, d)[i] = s[i]
            /\ Append(s, d)[Len(s) + 1] = d
        BY <2>2, <3>1, AppendedList
      <4> HIDE DEF s
      <4>4. \A i \in 1..(Len(s) + 1) : i \in DOMAIN s \/ i = Len(s) + 1
        BY <4>3
      <4> QED
        BY <2>2, <3>1, <4>1, <4>2, <4>3, <4>4
    <3>3. \A o \in Runs : ThreadOf[o] = t /\ ExecutorOf[o] \in Verified =>
            Cardinality(Made(deliveries'[t], o)) = IF RunStateOf(o)' = "COMPLETED" THEN 1 ELSE 0
      <4> SUFFICES ASSUME NEW o \in Runs, ThreadOf[o] = t, ExecutorOf[o] \in Verified
                   PROVE  Cardinality(Made(Append(s, d), o))
                                = IF RunStateOf(o)' = "COMPLETED" THEN 1 ELSE 0
        BY <3>1
      <4>1. Cardinality(Made(s, o)) = IF RunStateOf(o) = "COMPLETED" THEN 1 ELSE 0
        BY <3>1 DEF VerifiedOn
      <4>2. CASE o = r
        <5>1. Cardinality(Made(s, d.run)) = 0
          BY <2>2, <2>4, <4>1, <4>2
        <5>2. Cardinality(Made(Append(s, d), d.run)) = 1
          BY <2>2, <3>1, <5>1, MadeOneMore
        <5> QED
          BY <2>2, <2>4, <4>2, <5>2
      <4>3. CASE o # r
        <5>1. Made(Append(s, d), o) = Made(s, o)
          BY <2>2, <3>1, <4>3, MadeOneMore
        <5> QED
          BY <2>4, <4>1, <4>3, <5>1
      <4> QED
        BY <4>2, <4>3
    <3> QED
      BY <3>2, <3>3 DEF VerifiedOn
  <2> QED
    BY <2>5, <2>6
<1>5. ASSUME NEW w \in Workers, NEW s \in {"QUEUED", "FAILED"}, Settles(w, s), deliveries' = deliveries
      PROVE  \A u \in Threads : VerifiedOn(u)'
  <2>1. ASSUME NEW v \in Workers, Settles(v, "COMPLETED") PROVE FALSE
    BY <2>1, <1>5, Typed DEF Settles, ExecInv, TypeOK, Current
  <2> QED
    BY <1>1, <1>2, <1>5, <2>1
<1>6. ASSUME NEW w \in Workers, Settles(w, "COMPLETED"), ~HasVerifier(w), deliveries' = deliveries
      PROVE  \A u \in Threads : VerifiedOn(u)'
  <2>1. ASSUME NEW v \in Workers, Settles(v, "COMPLETED") PROVE v = w
    BY <2>1, <1>6, Typed DEF Settles, ExecInv, TypeOK, Current
  <2>2. \A r \in Runs : ExecutorOf[r] \in Verified =>
                (RunStateOf(r)' = "COMPLETED" <=> RunStateOf(r) = "COMPLETED")
    BY <1>6, <2>1, FateStep DEF Fate, TerminalRunState, HasVerifier
  <2> QED
    BY <1>1, <1>6, <2>2
<1>7. ASSUME NEW w \in Workers, SettlesSomehow(w) PROVE \A u \in Threads : VerifiedOn(u)'
  BY <1>4, <1>5, <1>6, <1>7 DEF SettlesSomehow
<1>8. ASSUME deliveries' = deliveries, \A w \in Workers : ~Settles(w, "COMPLETED")
      PROVE  \A u \in Threads : VerifiedOn(u)'
  BY <1>1, <1>2, <1>8
<1>9. ASSUME NEW v \in Workers, Settles(v, "COMPLETED")
      PROVE  /\ claims[v] # NoClaim /\ claims'[v] = NoClaim
             /\ \E r \in Runs : jobs[r].state = "CLAIMED" /\ jobs'[r].state = "COMPLETED"
  BY <1>9, Typed DEF Settles, Current, ExecInv, TypeOK
<1>10. ASSUME NEW w \in Workers, Polls(w)
       PROVE  \A u \in Threads : VerifiedOn(u)'
  <2>1. \A v \in Workers : claims[v] # NoClaim => claims'[v] # NoClaim
    BY <1>10, Typed DEF Polls, Claims, ExecInv, ExecTypeOK
  <2> QED
    BY <1>8, <1>9, <1>10, <2>1 DEF Polls
<1>11. ASSUME deliveries' = deliveries, claims' = claims \/ jobs' = jobs \/ RowsKeep
       PROVE  \A u \in Threads : VerifiedOn(u)'
  BY <1>8, <1>9, <1>11 DEF RowsKeep
<1> QED
  BY <1>3, <1>7, <1>10, <1>11, ExecCases
     DEF Queues, Cancels, SameWork, Retouches, Starts, Proceeds, Drops, Waits, runtime

-----------------------------------------------------------------------------
(* The invariant.                                                           *)

LEMMA ExecInvInit == ExecInit => ExecInv
<1> SUFFICES ASSUME ExecInit PROVE ExecInv
  OBVIOUS
<1>1. TypeOK /\ FencingInv
  BY TypeInit, FencingInit DEF ExecInit
<1>2. /\ \A r \in Runs : jobs[r].state = "ABSENT" /\ jobs[r].token = 0 /\ jobs[r].attempts = 0
      /\ \A w \in Workers : claims[w] = NoClaim
      /\ \A t \in Threads : threads[t] = Invalid /\ deliveries[t] = <<>>
      /\ \A r \in Runs : RunStateOf(r) = "ABSENT"
  BY DEF ExecInit, Init, EmptyJob, RunStateOf
<1>3. ExecTypeOK
  <2>1. deliveries \in [Threads -> Seq(Delivery)]
    BY EmptySeq DEF ExecInit
  <2>2. steps \in [Runs -> [1..MaxAttempts -> [StepKind -> StepState]]]
    BY DEF ExecInit, StepState
  <2>3. threads \in [Threads -> ThreadProjection \cup {Invalid}] /\ phase \in [Workers -> Phases]
    BY DEF ExecInit, Phases
  <2>4. \A w \in Workers : phase[w] = "idle" <=> claims[w] = NoClaim
    BY <1>2 DEF ExecInit
  <2> QED
    BY <1>1, <2>1, <2>2, <2>3, <2>4 DEF ExecTypeOK
<1>4. TokensAreAttempts /\ JobAndRunAgree
  BY <1>2 DEF TokensAreAttempts, JobAndRunAgree
<1>5. RunsAtHome /\ OneOpenRun /\ RunningIsActive
  BY <1>2 DEF RunsAtHome, OneOpenRun, RunningIsActive, OpenRun, HasRun
<1>6. HolderRuns /\ StepsAsLeft
  BY <1>2 DEF HolderRuns, StepsAsLeft, Current
<1>7. FutureStepsAbsent
  BY DEF ExecInit, FutureStepsAbsent
<1>8. DeliveriesAreVerified
  <2>1. DOMAIN <<>> = {}
    OBVIOUS
  <2>2. \A t \in Threads, r \in Runs : Made(deliveries[t], r) = {} /\ DOMAIN deliveries[t] = {}
    BY <1>2, <2>1 DEF Made
  <2>3. Cardinality({}) = 0
    BY FS_EmptySet
  <2>4. \A t \in Threads, r \in Runs : Cardinality(Made(deliveries[t], r)) = 0
    BY <2>2, <2>3
  <2>5. \A t \in Threads : VerifiedOn(t)
    BY <1>2, <2>2, <2>4 DEF VerifiedOn
  <2> QED
    BY <2>5, VerifiedByThread
<1> QED
  BY <1>1, <1>3, <1>4, <1>5, <1>6, <1>7, <1>8 DEF ExecInv

LEMMA ExecInvStep == ExecInv /\ [ExecNext]_execVars => ExecInv'
<1> SUFFICES ASSUME ExecInv, [ExecNext]_execVars PROVE ExecInv'
  OBVIOUS
<1>1. RunsAtHome' /\ OneOpenRun' /\ RunningIsActive' /\ JobAndRunAgree'
  BY ThreadStep, ThreadsOKNext
<1>2. DeliveriesAreVerified'
  <2>1. (\A t \in Threads : VerifiedOn(t))' <=> DeliveriesAreVerified'
    BY VerifiedByThread, PTL
  <2> QED
    BY <2>1, VerifiedStep
<1> QED
  BY <1>1, <1>2, ExecTypeStep, TokenStep, HolderRunsStep, FutureStepsStep, StepsAsLeftStep
     DEF ExecInv

LEMMA ExecInvariant == ExecSpec => []ExecInv
  BY ExecInvInit, ExecInvStep, PTL DEF ExecSpec
-----------------------------------------------------------------------------
(* The theorems.                                                            *)

\* However Runs, updates, crashes and retries interleave, every projection,
\* Step and Delivery is well formed, a slot is idle exactly while it holds no
\* claim, and a Delivery names an attempt that max_attempts allows.
THEOREM ExecTypeCorrect == ExecSpec => []ExecTypeOK
<1>1. ExecInv => ExecTypeOK
  BY DEF ExecInv
<1> QED
  BY <1>1, ExecInvariant, PTL

\* A Thread never has two Runs that have not ended, and the one it has is on
\* the current branch: every update supersedes whatever was running.
THEOREM OneOpenRunPerThread == ExecSpec => []OneOpenRun
<1>1. ExecInv => OneOpenRun
  BY DEF ExecInv
<1> QED
  BY <1>1, ExecInvariant, PTL

\* The Thread is RUNNING exactly while one of its Runs is, which is the active
\* one.
THEOREM RunningRunIsActive == ExecSpec => []RunningIsActive
<1>1. ExecInv => RunningIsActive
  BY DEF ExecInv
<1> QED
  BY <1>1, ExecInvariant, PTL

\* The row of the queue and the Run of the Thread, written by different calls
\* of different processes, agree in every state.
THEOREM QueueAndThreadAgree == ExecSpec => []JobAndRunAgree
<1>1. ExecInv => JobAndRunAgree
  BY DEF ExecInv
<1> QED
  BY <1>1, ExecInvariant, PTL

\* Where the invariant leaves the holder of a claim: its Run is active and
\* RUNNING and its Steps are as its phase says.
LEMMA HolderCan == ExecInv => HolderCanSettle
<1> SUFFICES ASSUME ExecInv, NEW w \in Workers, Current(w), phase[w] \notin {"idle", "claimed"}
             PROVE  /\ ActiveRun(w)
                    /\ ThreadFor(w).actual = "RUNNING"
                    /\ phase[w] = "started" => StepOf(w, "TRANSFORM") = "ABSENT"
                    /\ phase[w] = "transforming" => StepOf(w, "TRANSFORM") = "RUNNING"
                    /\ phase[w] = "transformed" => StepOf(w, "VERIFIER") = "ABSENT"
                    /\ phase[w] = "verifying" => StepOf(w, "VERIFIER") = "RUNNING"
  BY DEF HolderCanSettle
<1>1. RunStateOf(RunOf(w)) = "RUNNING"
  BY DEF ExecInv, HolderRuns
<1>2. ActiveRun(w) /\ ThreadFor(w).actual = "RUNNING"
  BY <1>1, CurrentRun DEF ActiveRun, ThreadFor, OpenRun
<1>3. StepsAt(phase[w], StepOf(w, "TRANSFORM"), StepOf(w, "VERIFIER"))
  BY DEF ExecInv, StepsAsLeft, Current
<1> QED
  BY <1>2, <1>3 DEF StepsAt

\* A worker past the start whose claim is the current one can always settle:
\* its Run is active and RUNNING and its Steps are where it left them.
THEOREM HolderCanAlwaysSettle == ExecSpec => []HolderCanSettle
<1>1. ExecInv => HolderCanSettle
  BY HolderCan
<1> QED
  BY <1>1, ExecInvariant, PTL

\* A Delivery comes only from an attempt whose transform and verifier both
\* succeeded, and a completed Run with a Verifier has exactly one.
THEOREM VerifiedDeliveries == ExecSpec => []DeliveriesAreVerified
<1>1. ExecInv => DeliveriesAreVerified
  BY DEF ExecInv
<1> QED
  BY <1>1, ExecInvariant, PTL

\* Whatever its Worker still does, the record of a Run that has ended stays as
\* it was.
THEOREM EndedRunStays == ExecSpec => EndedRunIsFrozen
<1>1. ASSUME ExecInv, [ExecNext]_execVars, NEW r \in Runs,
             RunStateOf(r) \in TerminalRunState
      PROVE  /\ threads'[ThreadOf[r]].runs[r] = threads[ThreadOf[r]].runs[r]
             /\ steps'[r] = steps[r]
  <2>1. threads'[ThreadOf[r]].runs[r] = threads[ThreadOf[r]].runs[r]
    BY <1>1, FateStep DEF Fate
  <2>2. ASSUME NEW w \in Workers, WritesStep(w) PROVE steps'[r] = steps[r]
    <3>1. RunOf(w) # r
      BY <1>1, <2>2, CurrentRun DEF WritesStep, TerminalRunState
    <3> QED
      BY <1>1, <2>2, <3>1, WriteEffect
  <2>3. steps'[r] = steps[r]
    BY <1>1, <2>2, StepsChange
  <2> QED
    BY <2>1, <2>3
<1>2. ExecInv /\ [ExecNext]_execVars =>
        [\A r \in Runs : RunStateOf(r) \in TerminalRunState =>
            /\ threads'[ThreadOf[r]].runs[r] = threads[ThreadOf[r]].runs[r]
            /\ steps'[r] = steps[r]]_execVars
  BY <1>1
<1> QED
  BY <1>2, ExecInvariant, PTL DEF ExecSpec, EndedRunIsFrozen

\* A worker that lost its claim to a later attempt cannot touch the Steps of
\* its own: they are frozen from the moment the later claim commits.
THEOREM StaleAttemptsStay == ExecSpec => StaleAttemptsAreFrozen
<1>1. ASSUME ExecInv, [ExecNext]_execVars, NEW r \in Runs, NEW a \in 1..MaxAttempts,
             a < jobs[r].token
      PROVE  steps'[r][a] = steps[r][a]
  <2>1. ASSUME NEW w \in Workers, WritesStep(w) PROVE steps'[r][a] = steps[r][a]
    <3>1. PICK q \in Runs, b \in 1..MaxAttempts :
            /\ b = jobs[q].token
            /\ \A o \in Runs, c \in 1..MaxAttempts :
                    o # q \/ c # b => steps'[o][c] = steps[o][c]
      BY <1>1, <2>1, WriteEffect
    <3>2. r # q \/ a # b
      BY <1>1, <3>1
    <3> QED
      BY <3>1, <3>2
  <2> QED
    BY <1>1, <2>1, StepsChange
<1>2. ExecInv /\ [ExecNext]_execVars =>
        [\A r \in Runs : \A a \in 1..MaxAttempts :
            a < jobs[r].token => steps'[r][a] = steps[r][a]]_execVars
  BY <1>1
<1> QED
  BY <1>2, ExecInvariant, PTL DEF ExecSpec, StaleAttemptsAreFrozen
=============================================================================
