-------------------------- MODULE ExecutionProofs --------------------------
(* Theorems about the execution of Runs, for every number of Threads, Runs  *)
(* and workers.                                                             *)
EXTENDS Execution, SchedulerProofs, SequenceTheorems, FiniteSetTheorems

USE SchedulerAssumption, ExecutionAssumption

-----------------------------------------------------------------------------
(* The Run queue inside the execution is the Scheduler's.                   *)

\* Every step of the execution is a step of the Run queue or leaves it alone.
LEMMA QueueStep == ExecNext => [Next]_schedVars
<1> SUFFICES ASSUME ExecNext
             PROVE  Next \/ UNCHANGED schedVars
  OBVIOUS
<1>1. ASSUME NEW t \in Threads, UserStep(t)
      PROVE  Next \/ UNCHANGED schedVars
  <2>1. ASSUME NEW r \in Runs, NEW bound \in BOOLEAN, NEW p \in Priorities,
               NEW now \in Readings, SubmitTask(t, r, bound, p, now)
        PROVE  Next
    <3>1. EnqueueRun(r, p, 0, now) /\ 0 \in Delays \cup {0}
      BY <2>1 DEF SubmitTask
    <3> QED
      BY <3>1 DEF Next
  <2>2. ASSUME NEW r \in Runs, NEW b \in Branches, NEW p \in Priorities,
               NEW sent \in SendTimes, ReviseThread(t, r, b, p, sent)
        PROVE  Next
    <3>1. /\ Superseded(t) \in SUBSET {o \in Runs : ThreadOf[o] = t}
          /\ ThreadOf[r] = t /\ SupersedeRuns(Superseded(t), r, p, sent)
      BY <2>2 DEF ReviseThread, Superseded, OpenRuns, RunsOf
    <3> QED
      BY <3>1 DEF Next
  <2>3. ASSUME CancelThread(t)
        PROVE  Next
    <3>1. /\ OpenRuns(t) \in SUBSET {o \in Runs : ThreadOf[o] = t}
          /\ CancelRuns(OpenRuns(t))
      BY <2>3 DEF CancelThread, OpenRuns, RunsOf
    <3> QED
      BY <3>1 DEF Next
  <2>4. ASSUME NEW s, SetDesiredState(t, s)
        PROVE  UNCHANGED schedVars
    BY <2>4 DEF SetDesiredState
  <2>5. ASSUME NEW i, PresentDelivery(t, i)
        PROVE  UNCHANGED schedVars
    BY <2>5 DEF PresentDelivery
  <2> QED
    BY <1>1, <2>1, <2>2, <2>3, <2>4, <2>5 DEF UserStep
<1>2. ASSUME NEW w \in Workers, Poll(w)
      PROVE  Next
  BY <1>2 DEF Poll, Next
<1>3. ASSUME NEW w \in Workers, Crash(w)
      PROVE  Next
  BY <1>3 DEF Crash, Next
<1>4. ASSUME NEW w \in Workers, claims[w] # NoClaim, NEW now \in HolderReadings(w),
             WorkerStep(w, now)
      PROVE  Next \/ UNCHANGED schedVars
  <2>1. ASSUME \/ StartClaimedRun(w, now)
               \/ \E kind \in StepKind : BeginStep(w, kind, now)
               \/ SaveCheckpoint(w, now)
               \/ FinishTransform(w, now)
               \/ \E passed \in BOOLEAN : FinishVerifier(w, passed, now)
               \/ \E o \in {"retryable", "permanent"} : Raise(w, o) \/ FailStep(w, o, now)
        PROVE  UNCHANGED schedVars
    BY <2>1 DEF StartClaimedRun, BeginStep, SaveCheckpoint, FinishTransform,
                FinishVerifier, Raise, FailStep
  <2>2. ASSUME Heartbeat(w, now)
        PROVE  Next
    BY <1>4, <2>2 DEF Heartbeat, Next
  <2>3. ASSUME NEW delay \in Delays,
               \/ SettleFailure(w, delay, now)
               \/ FinishExecution(w, delay, now)
               \/ FinalizeDelivery(w, delay, now)
        PROVE  Next
    <3>1. \E o \in Outcomes : FinishRunClaim(w, o, delay, now)
      BY <2>3 DEF SettleFailure, FinishExecution, FinalizeDelivery, Outcomes
    <3> QED
      BY <1>4, <3>1 DEF Next
  <2>4. ASSUME GiveUp(w, now)
        PROVE  Next
    BY <1>4, <2>4 DEF GiveUp, Next
  <2> QED
    BY <1>4, <2>1, <2>2, <2>3, <2>4 DEF WorkerStep
<1>5. ASSUME Tick
      PROVE  Next
  BY <1>5 DEF Next
<1> QED
  BY <1>1, <1>2, <1>3, <1>4, <1>5 DEF ExecNext

\* The execution implements the Run queue, so whatever is proved of the queue
\* holds while hosts execute Runs and users change Threads.
THEOREM ImplementsScheduler == ExecSpec => QueueSpec
<1>1. ExecInit => Init
  BY DEF ExecInit
<1>2. [ExecNext]_execVars => [Next]_schedVars
  BY QueueStep DEF execVars, schedVars
<1> QED
  BY <1>1, <1>2, PTL DEF ExecSpec, QueueSpec, Spec

-----------------------------------------------------------------------------
(* The events: what each makes of a projection when the reducer takes it.   *)

Projections == ThreadProjection \cup {Invalid}

\* A Run the reducer binds snapshots to, and one it moves to state s.
Unbound(p, r) == /\ HasRun(p, r) /\ p.runs[r].state \in {"CREATED", "QUEUED"}
                 /\ ~p.runs[r].bound
MayMove(p, r, s) == /\ HasRun(p, r)
                    /\ s \in RunTransitions[p.runs[r].state]
                    /\ s = "RUNNING" => p.active \in {NoRun, r}

LEMMA ProjectionFields ==
    ASSUME NEW p \in ThreadProjection
    PROVE  /\ p # Invalid
           /\ p.actual \in ThreadState /\ p.desired \in DesiredState
           /\ p.attention \in AttentionState /\ p.active \in Runs \cup {NoRun}
           /\ p.branch \in Branches
           /\ p.branches \in [Branches -> BranchStatus \cup {"ABSENT"}]
           /\ p.runs \in [Runs -> RunProjection]
  BY DEF ThreadProjection

LEMMA NewThreadEffect ==
    /\ NewThread \in ThreadProjection
    /\ NewThread.runs = [r \in Runs |-> AbsentRun]
    /\ NewThread.active = NoRun /\ NewThread.actual = "CREATED"
<1>1. AbsentRun \in RunProjection
  BY DEF AbsentRun, RunProjection
<1> QED
  BY <1>1 DEF NewThread, ThreadProjection, ThreadState, DesiredState, AttentionState,
              BranchStatus

\* What holds of an event the reducer takes.
LEMMA Taken ==
    ASSUME NEW p \in Projections
    PROVE  /\ \A s : ThreadTo(p, s) # Invalid =>
                p \in ThreadProjection /\ s \in ThreadTransitions[p.actual]
           /\ \A s : AttentionTo(p, s) # Invalid => p \in ThreadProjection
           /\ \A b, c : ForkBranch(p, b, c) # Invalid => p \in ThreadProjection
           /\ \A b : SelectBranch(p, b) # Invalid => p \in ThreadProjection
           /\ \A r, b : CreateRun(p, r, b) # Invalid => p \in ThreadProjection /\ ~HasRun(p, r)
           /\ \A r : BindSnapshots(p, r) # Invalid => p \in ThreadProjection /\ Unbound(p, r)
           /\ \A r, n : Checkpoint(p, r, n) # Invalid =>
                p \in ThreadProjection /\ OpenRun(p, r) /\ n = p.runs[r].checkpoint + 1
           /\ \A r, s : RunTo(p, r, s) # Invalid => p \in ThreadProjection /\ MayMove(p, r, s)
  BY DEF Projections, ThreadTo, AttentionTo, ForkBranch, SelectBranch, HasBranch, CreateRun,
         BindSnapshots, Unbound, Checkpoint, OpenRun, HasRun, RunTo, MayMove

\* An event refused stays refused.
LEMMA Strict ==
    /\ \A s : ThreadTo(Invalid, s) = Invalid
    /\ \A b, c : ForkBranch(Invalid, b, c) = Invalid
    /\ \A b : SelectBranch(Invalid, b) = Invalid
    /\ \A r, b : CreateRun(Invalid, r, b) = Invalid
    /\ \A r : BindSnapshots(Invalid, r) = Invalid
    /\ \A r, s : RunTo(Invalid, r, s) = Invalid
  BY DEF ThreadTo, ForkBranch, SelectBranch, HasBranch, CreateRun, BindSnapshots, HasRun, RunTo

LEMMA ThreadToEffect ==
    ASSUME NEW p \in ThreadProjection, NEW s \in ThreadState, s \in ThreadTransitions[p.actual]
    PROVE  LET q == ThreadTo(p, s)
           IN  /\ q \in ThreadProjection
               /\ q.actual = s /\ q.active = p.active /\ q.branch = p.branch
               /\ q.runs = p.runs
<1>1. ThreadTo(p, s) = [p EXCEPT !.actual = s]
  BY ProjectionFields DEF ThreadTo
<1> QED
  BY <1>1 DEF ThreadProjection

LEMMA DesiredToEffect ==
    ASSUME NEW p \in ThreadProjection, NEW s \in DesiredState
    PROVE  LET q == DesiredTo(p, s)
           IN  /\ q \in ThreadProjection
               /\ q.actual = p.actual /\ q.active = p.active /\ q.branch = p.branch
               /\ q.runs = p.runs
<1>1. DesiredTo(p, s) = [p EXCEPT !.desired = s]
  BY ProjectionFields DEF DesiredTo
<1> QED
  BY <1>1 DEF ThreadProjection

LEMMA AttentionToEffect ==
    ASSUME NEW p \in ThreadProjection, NEW s \in AttentionState
    PROVE  LET q == AttentionTo(p, s)
           IN  /\ q \in ThreadProjection
               /\ q.actual = p.actual /\ q.active = p.active /\ q.branch = p.branch
               /\ q.runs = p.runs
<1>1. AttentionTo(p, s) = [p EXCEPT !.attention = s]
  BY ProjectionFields DEF AttentionTo
<1> QED
  BY <1>1 DEF ThreadProjection

LEMMA ForkEffect ==
    ASSUME NEW p \in ThreadProjection, NEW b \in Branches, NEW from \in Branches,
           ForkBranch(p, b, from) # Invalid
    PROVE  LET q == ForkBranch(p, b, from)
           IN  /\ q \in ThreadProjection
               /\ q.actual = p.actual /\ q.active = p.active /\ q.runs = p.runs
<1> DEFINE forked == [c \in Branches |->
                IF c = b THEN "ACTIVE"
                ELSE IF c = from /\ p.branches[c] = "ABSENT" THEN "SELECTED"
                ELSE p.branches[c]]
<1>2. forked \in [Branches -> BranchStatus \cup {"ABSENT"}]
  BY ProjectionFields DEF BranchStatus
<1>3. ForkBranch(p, b, from) = [p EXCEPT !.branches = forked]
  BY DEF ForkBranch
<1> HIDE DEF forked
<1> QED
  BY <1>2, <1>3 DEF ThreadProjection

LEMMA SelectEffect ==
    ASSUME NEW p \in ThreadProjection, NEW b \in Branches, SelectBranch(p, b) # Invalid
    PROVE  LET q == SelectBranch(p, b)
           IN  /\ q \in ThreadProjection
               /\ q.actual = p.actual /\ q.active = p.active /\ q.runs = p.runs
<1> DEFINE selected == [c \in Branches |->
                IF c = b THEN "SELECTED"
                ELSE IF p.branches[c] = "SELECTED" THEN "ACTIVE"
                ELSE p.branches[c]]
<1>2. selected \in [Branches -> BranchStatus \cup {"ABSENT"}]
  BY ProjectionFields DEF BranchStatus
<1>3. SelectBranch(p, b) = [p EXCEPT !.branch = b, !.branches = selected]
  BY DEF SelectBranch
<1> HIDE DEF selected
<1> QED
  BY <1>2, <1>3 DEF ThreadProjection

LEMMA CreateRunEffect ==
    ASSUME NEW p \in ThreadProjection, NEW r \in Runs, NEW b \in Branches, ~HasRun(p, r)
    PROVE  LET q == CreateRun(p, r, b)
           IN  /\ q \in ThreadProjection
               /\ q.actual = p.actual /\ q.active = p.active /\ q.branch = b
               /\ q.runs[r].state = "CREATED" /\ q.runs[r].branch = b
               /\ \A o \in Runs \ {r} : q.runs[o] = p.runs[o]
<1> DEFINE created == [AbsentRun EXCEPT !.state = "CREATED", !.branch = b]
<1>1. CreateRun(p, r, b) = [p EXCEPT !.branch = b, !.runs[r] = created]
  BY ProjectionFields DEF CreateRun
<1>2. created \in RunProjection /\ created.state = "CREATED" /\ created.branch = b
  BY DEF AbsentRun, RunProjection, RunState
<1> HIDE DEF created
<1>3. p.runs \in [Runs -> RunProjection]
  BY ProjectionFields
<1> DEFINE runs == [p.runs EXCEPT ![r] = created]
<1>4. /\ runs \in [Runs -> RunProjection] /\ runs[r] = created
      /\ \A o \in Runs \ {r} : runs[o] = p.runs[o]
  BY <1>2, <1>3
<1>5. CreateRun(p, r, b) = [p EXCEPT !.branch = b, !.runs = runs]
  BY <1>1 DEF ThreadProjection
<1> HIDE DEF runs
<1> QED
  BY <1>2, <1>4, <1>5 DEF ThreadProjection

\* A Run's state changes and nothing else of the Runs does.
RunBecomes(p, q, r, s) ==
    /\ q.runs[r].state = s /\ q.runs[r].branch = p.runs[r].branch
    /\ \A o \in Runs \ {r} : q.runs[o] = p.runs[o]

LEMMA RunToEffect ==
    ASSUME NEW p \in ThreadProjection, NEW r \in Runs, NEW s \in RunState, MayMove(p, r, s)
    PROVE  LET q == RunTo(p, r, s)
           IN  /\ q \in ThreadProjection
               /\ q.actual = p.actual /\ q.branch = p.branch
               /\ q.active = IF s = "RUNNING" THEN r
                             ELSE IF s \in TerminalRunState /\ p.active = r
                             THEN NoRun ELSE p.active
               /\ RunBecomes(p, q, r, s)
<1> DEFINE active == IF s = "RUNNING" THEN r
                     ELSE IF s \in TerminalRunState /\ p.active = r
                     THEN NoRun ELSE p.active
<1>1. RunTo(p, r, s) = [p EXCEPT !.runs[r].state = s, !.active = active]
  BY DEF RunTo, MayMove
<1>2. p.runs \in [Runs -> RunProjection] /\ active \in Runs \cup {NoRun}
  BY ProjectionFields
<1> DEFINE runs == [p.runs EXCEPT ![r] = [p.runs[r] EXCEPT !.state = s]]
<1>3. /\ [p.runs[r] EXCEPT !.state = s] \in RunProjection
      /\ [p.runs[r] EXCEPT !.state = s].state = s
      /\ [p.runs[r] EXCEPT !.state = s].branch = p.runs[r].branch
  BY <1>2 DEF RunProjection
<1>4. /\ runs \in [Runs -> RunProjection]
      /\ runs[r].state = s /\ runs[r].branch = p.runs[r].branch
      /\ \A o \in Runs \ {r} : runs[o] = p.runs[o]
  BY <1>2, <1>3
<1>5. RunTo(p, r, s) = [p EXCEPT !.runs = runs, !.active = active]
  BY <1>1, <1>2 DEF ThreadProjection, RunProjection
<1> HIDE DEF runs, active
<1>6. LET q == RunTo(p, r, s)
      IN  /\ q \in ThreadProjection /\ q.actual = p.actual /\ q.branch = p.branch
          /\ q.active = active /\ q.runs = runs
  BY <1>2, <1>4, <1>5 DEF ThreadProjection
<1> QED
  BY <1>4, <1>6 DEF active, RunBecomes

LEMMA BindEffect ==
    ASSUME NEW p \in ThreadProjection, NEW r \in Runs, Unbound(p, r)
    PROVE  LET q == BindSnapshots(p, r)
           IN  /\ q \in ThreadProjection
               /\ q.actual = p.actual /\ q.active = p.active /\ q.branch = p.branch
               /\ q.runs[r].state = p.runs[r].state /\ q.runs[r].branch = p.runs[r].branch
               /\ \A o \in Runs \ {r} : q.runs[o] = p.runs[o]
<1>1. BindSnapshots(p, r) = [p EXCEPT !.runs[r].bound = TRUE]
  BY DEF BindSnapshots, Unbound
<1>2. p.runs \in [Runs -> RunProjection] /\ p.runs[r] \in RunProjection
  BY ProjectionFields
<1> DEFINE runs == [p.runs EXCEPT ![r] = [p.runs[r] EXCEPT !.bound = TRUE]]
<1>3. /\ [p.runs[r] EXCEPT !.bound = TRUE] \in RunProjection
      /\ [p.runs[r] EXCEPT !.bound = TRUE].state = p.runs[r].state
      /\ [p.runs[r] EXCEPT !.bound = TRUE].branch = p.runs[r].branch
  BY <1>2 DEF RunProjection
<1>4. /\ runs \in [Runs -> RunProjection]
      /\ runs[r].state = p.runs[r].state /\ runs[r].branch = p.runs[r].branch
      /\ \A o \in Runs \ {r} : runs[o] = p.runs[o]
  BY <1>2, <1>3
<1>5. BindSnapshots(p, r) = [p EXCEPT !.runs = runs]
  BY <1>1, <1>2 DEF ThreadProjection, RunProjection
<1> HIDE DEF runs
<1> QED
  BY <1>4, <1>5 DEF ThreadProjection

LEMMA CheckpointEffect ==
    ASSUME NEW p \in ThreadProjection, NEW r \in Runs, NEW n \in Nat,
           Checkpoint(p, r, n) # Invalid
    PROVE  LET q == Checkpoint(p, r, n)
           IN  /\ q \in ThreadProjection
               /\ q.actual = p.actual /\ q.active = p.active /\ q.branch = p.branch
               /\ q.runs[r].state = p.runs[r].state /\ q.runs[r].branch = p.runs[r].branch
               /\ \A o \in Runs \ {r} : q.runs[o] = p.runs[o]
<1>1. Checkpoint(p, r, n) = [p EXCEPT !.runs[r].checkpoint = n]
  BY DEF Checkpoint
<1>2. p.runs \in [Runs -> RunProjection] /\ p.runs[r] \in RunProjection
  BY ProjectionFields
<1> DEFINE runs == [p.runs EXCEPT ![r] = [p.runs[r] EXCEPT !.checkpoint = n]]
<1>3. /\ [p.runs[r] EXCEPT !.checkpoint = n] \in RunProjection
      /\ [p.runs[r] EXCEPT !.checkpoint = n].state = p.runs[r].state
      /\ [p.runs[r] EXCEPT !.checkpoint = n].branch = p.runs[r].branch
  BY <1>2 DEF RunProjection
<1>4. /\ runs \in [Runs -> RunProjection]
      /\ runs[r].state = p.runs[r].state /\ runs[r].branch = p.runs[r].branch
      /\ \A o \in Runs \ {r} : runs[o] = p.runs[o]
  BY <1>2, <1>3
<1>5. Checkpoint(p, r, n) = [p EXCEPT !.runs = runs]
  BY <1>1, <1>2 DEF ThreadProjection, RunProjection
<1> HIDE DEF runs
<1> QED
  BY <1>4, <1>5 DEF ThreadProjection

\* The open Runs of S end and nothing else of the Runs changes.
RunsEnd(p, q, S) == \A o \in Runs :
    IF o \in S /\ OpenRun(p, o)
    THEN q.runs[o].state = "CANCELLED" /\ q.runs[o].branch = p.runs[o].branch
    ELSE q.runs[o] = p.runs[o]

LEMMA CancelOpenEffect ==
    ASSUME NEW p \in ThreadProjection, NEW S \in SUBSET Runs
    PROVE  LET q == CancelOpenRuns(p, S)
           IN  /\ q \in ThreadProjection
               /\ q.actual = p.actual /\ q.branch = p.branch
               /\ RunsEnd(p, q, S)
<1> DEFINE open == {r \in S : OpenRun(p, r)}
           runs == [r \in Runs |-> IF r \in open THEN [p.runs[r] EXCEPT !.state = "CANCELLED"]
                                   ELSE p.runs[r]]
           active == IF p.active \in open THEN NoRun ELSE p.active
<1>1. p.runs \in [Runs -> RunProjection] /\ active \in Runs \cup {NoRun}
  BY ProjectionFields
<1>2. \A r \in Runs :
        /\ [p.runs[r] EXCEPT !.state = "CANCELLED"] \in RunProjection
        /\ [p.runs[r] EXCEPT !.state = "CANCELLED"].state = "CANCELLED"
        /\ [p.runs[r] EXCEPT !.state = "CANCELLED"].branch = p.runs[r].branch
  BY <1>1 DEF RunProjection, RunState
<1>3. runs \in [Runs -> RunProjection]
  BY <1>1, <1>2
<1>4. CancelOpenRuns(p, S) = [p EXCEPT !.runs = runs, !.active = active]
  BY DEF CancelOpenRuns
<1>5. \A o \in Runs :
        IF o \in S /\ OpenRun(p, o)
        THEN runs[o].state = "CANCELLED" /\ runs[o].branch = p.runs[o].branch
        ELSE runs[o] = p.runs[o]
  BY <1>2
<1> HIDE DEF runs, active
<1> QED
  BY <1>1, <1>3, <1>4, <1>5 DEF ThreadProjection, RunsEnd

-----------------------------------------------------------------------------
(* The actions: what each makes of a Thread and of the rows of its Runs.    *)

LEMMA Typed ==
    ASSUME ExecTypeOK
    PROVE  /\ TypeOK
           /\ threads \in [Threads -> Projections]
           /\ \A t \in Threads : threads[t] # Invalid => threads[t] \in ThreadProjection
           /\ phase \in [Workers -> Phases]
           /\ \A w \in Workers : claims[w] # NoClaim =>
                /\ RunOf(w) \in Runs /\ AttemptOf(w) \in Nat \ {0}
                /\ ThreadOf[RunOf(w)] \in Threads
<1>1. TypeOK /\ threads \in [Threads -> Projections] /\ phase \in [Workers -> Phases]
  BY DEF ExecTypeOK, Projections
<1>2. \A w \in Workers : claims[w] # NoClaim =>
            claims[w].run \in Runs /\ claims[w].token \in Nat \ {0}
  BY <1>1 DEF TypeOK, WorkerClaim
<1>3. \A t \in Threads : threads[t] # Invalid => threads[t] \in ThreadProjection
  BY <1>1 DEF Projections
<1>4. \A w \in Workers : claims[w] # NoClaim => ThreadOf[claims[w].run] \in Threads
  BY <1>2
<1> QED
  BY <1>1, <1>2, <1>3, <1>4 DEF RunOf, AttemptOf

\* Run r is queued on Thread t, whose projection becomes q, on branch b, and
\* the Runs S make room for it.
QueuedOn(t, q, r, b, S) ==
    /\ q \in ThreadProjection /\ q.actual = "QUEUED" /\ q.branch = b
    /\ ~HasRun(threads[t], r)
    /\ q.runs[r].state = "QUEUED" /\ q.runs[r].branch = b
    /\ \A o \in Runs \ {r} :
            IF threads[t] = Invalid THEN q.runs[o] = AbsentRun
            ELSE IF o \in S THEN q.runs[o].state = "CANCELLED"
            ELSE q.runs[o] = threads[t].runs[o]

\* A Task's Thread, Run and job.
Submitted(t, r) ==
    /\ ThreadOf[r] = t /\ jobs[r].state = "ABSENT"
    /\ threads' = [threads EXCEPT ![t] = threads'[t]]
    /\ threads[t] = Invalid
    /\ QueuedOn(t, threads'[t], r, MainBranch, {})
    /\ jobs'[r].state = "QUEUED" /\ jobs'[r].token = 0 /\ jobs'[r].attempts = 0
    /\ \A o \in Runs \ {r} : jobs'[o] = jobs[o]

LEMMA SubmitEffect ==
    ASSUME ExecTypeOK, NEW t \in Threads, NEW r \in Runs, NEW bound,
           NEW p \in Priorities, NEW now \in Readings, SubmitTask(t, r, bound, p, now)
    PROVE  Submitted(t, r)
<1> DEFINE created == CreateRun(NewThread, r, MainBranch)
           frozen  == IF bound THEN BindSnapshots(created, r) ELSE created
           queued  == Queued(frozen, r)
           final   == ThreadTo(queued, "QUEUED")
<1>1. /\ threads[t] = Invalid /\ ThreadOf[r] = t
      /\ EnqueueRun(r, p, 0, now)
      /\ threads' = [threads EXCEPT ![t] = final]
  BY DEF SubmitTask
<1>2. threads \in [Threads -> Projections] /\ jobs \in [Runs -> Job] /\ now \in Nat
  BY Typed, ReadingsFacts DEF TypeOK
<1>3. /\ jobs[r].state = "ABSENT"
      /\ jobs'[r] = QueuedJob(p, now + 0, now)
      /\ \A o \in Runs \ {r} : jobs'[o] = jobs[o]
  BY <1>1, <1>2 DEF EnqueueRun
<1>4. /\ QueuedJob(p, now + 0, now).state = "QUEUED"
      /\ QueuedJob(p, now + 0, now).token = 0
      /\ QueuedJob(p, now + 0, now).attempts = 0
  BY <1>2, QueuedFacts
<1>5. /\ created \in ThreadProjection
      /\ created.actual = "CREATED" /\ created.active = NoRun /\ created.branch = MainBranch
      /\ created.runs[r].state = "CREATED" /\ created.runs[r].branch = MainBranch
      /\ \A o \in Runs \ {r} : created.runs[o] = AbsentRun
  <2>1. ~HasRun(NewThread, r)
    BY NewThreadEffect DEF HasRun, AbsentRun
  <2> QED
    BY <2>1, NewThreadEffect, CreateRunEffect
<1>6. /\ frozen \in ThreadProjection
      /\ frozen.actual = "CREATED" /\ frozen.active = NoRun /\ frozen.branch = MainBranch
      /\ frozen.runs[r].state = "CREATED" /\ frozen.runs[r].branch = MainBranch
      /\ \A o \in Runs \ {r} : frozen.runs[o] = AbsentRun
  <2>1. CASE bound
    <3>1. ~created.runs[r].bound
      BY NewThreadEffect DEF CreateRun, AbsentRun, NewThread, HasRun
    <3>2. Unbound(created, r)
      BY <1>5, <3>1, ProjectionFields DEF Unbound, HasRun
    <3> HIDE DEF created
    <3> QED
      BY <1>5, <2>1, <3>2, BindEffect
  <2> QED
    BY <1>5, <2>1
<1> HIDE DEF created, frozen
<1>7. /\ queued \in ThreadProjection
      /\ queued.actual = "CREATED" /\ queued.branch = MainBranch
      /\ queued.runs[r].state = "QUEUED" /\ queued.runs[r].branch = MainBranch
      /\ \A o \in Runs \ {r} : queued.runs[o] = AbsentRun
  <2>1. "QUEUED" \in RunState /\ "QUEUED" \in RunTransitions["CREATED"]
    <3>1. "QUEUED" \in RunState /\ "CREATED" \in RunState
      BY DEF RunState
    <3>2. RunTransitions["CREATED"] = {"QUEUED", "RUNNING", "CANCELLED"}
      BY <3>1, SMT DEF RunTransitions, TerminalRunState, Waiting
    <3> QED
      BY <3>1, <3>2
  <2>2. MayMove(frozen, r, "QUEUED")
    BY <1>6, <2>1, ProjectionFields DEF MayMove, HasRun
  <2> QED
    BY <1>6, <2>1, <2>2, RunToEffect DEF Queued, RunBecomes
<1> HIDE DEF queued
<1>8. /\ final \in ThreadProjection /\ final.actual = "QUEUED" /\ final.branch = MainBranch
      /\ final.runs = queued.runs
  <2>1. "QUEUED" \in ThreadState /\ "QUEUED" \in ThreadTransitions["CREATED"]
    BY DEF ThreadState, ThreadTransitions
  <2> QED
    BY <1>7, <2>1, ThreadToEffect
<1> HIDE DEF final
<1>9. threads'[t] = final
  BY <1>1, <1>2
<1> QED
  BY <1>1, <1>3, <1>4, <1>7, <1>8, <1>9 DEF Submitted, QueuedOn, HasRun

LEMMA ReviseEffect ==
    ASSUME ExecTypeOK, NEW t \in Threads, NEW r \in Runs, NEW b \in Branches,
           NEW p \in Priorities, NEW sent \in SendTimes, ReviseThread(t, r, b, p, sent)
    PROVE  /\ ThreadOf[r] = t /\ jobs[r].state = "ABSENT"
           /\ threads' = [threads EXCEPT ![t] = threads'[t]]
           /\ threads[t] # Invalid
           /\ QueuedOn(t, threads'[t], r, b, Superseded(t))
           /\ jobs'[r].state = "QUEUED" /\ jobs'[r].token = 0 /\ jobs'[r].attempts = 0
           /\ \A o \in Runs \ {r} : jobs'[o] = CancelJobs(jobs, Superseded(t))[o]
<1> DEFINE S     == Superseded(t)
           p0    == threads[t]
           ended == CancelOpenRuns(p0, S)
           fork  == ForkBranch(ended, b, p0.branch)
           moved == IF b = p0.branch THEN ended ELSE SelectBranch(fork, b)
           new   == CreateRun(moved, r, b)
           bound == BindSnapshots(new, r)
           next  == Queued(bound, r)
           final == IF next = Invalid \/ p0.actual = "QUEUED" THEN next
                    ELSE ThreadTo(next, "QUEUED")
<1>1. /\ p0 # Invalid /\ ThreadOf[r] = t
      /\ final # Invalid
      /\ threads' = [threads EXCEPT ![t] = final]
      /\ SupersedeRuns(S, r, p, sent)
  BY DEF ReviseThread, Revised
<1>2. threads \in [Threads -> Projections] /\ p0 \in ThreadProjection /\ TypeOK
      /\ jobs \in [Runs -> Job]
  BY <1>1, Typed DEF TypeOK
<1>3. S \in SUBSET Runs /\ \A o \in S : OpenRun(p0, o)
  BY DEF Superseded, OpenRuns, RunsOf
<1>4. /\ jobs[r].state = "ABSENT"
      /\ jobs'[r].state = "QUEUED" /\ jobs'[r].token = 0 /\ jobs'[r].attempts = 0
  BY <1>1, <1>2, <1>3, SupersedeFacts
<1>5. \A o \in Runs \ {r} : jobs'[o] = CancelJobs(jobs, S)[o]
  <2>1. CancelJobs(jobs, S) \in [Runs -> Job]
    BY <1>2, CancelFacts
  <2> QED
    BY <1>1, <2>1 DEF SupersedeRuns
<1> HIDE DEF S
<1>6. /\ ended \in ThreadProjection /\ ended.actual = p0.actual /\ ended.branch = p0.branch
      /\ RunsEnd(p0, ended, S)
  BY <1>2, <1>3, CancelOpenEffect
<1>7. /\ next # Invalid /\ bound # Invalid /\ new # Invalid /\ moved # Invalid
      /\ b # p0.branch => fork # Invalid
      /\ p0.actual # "QUEUED" => ThreadTo(next, "QUEUED") # Invalid
  <2>1. next # Invalid /\ (p0.actual # "QUEUED" => ThreadTo(next, "QUEUED") # Invalid)
    <3> HIDE DEF next
    <3> QED
      BY <1>1, Strict
  <2>2. bound # Invalid
    <3> HIDE DEF bound
    <3> QED
      BY <2>1, Strict DEF Queued
  <2>3. new # Invalid
    <3> HIDE DEF new
    <3> QED
      BY <2>2, Strict
  <2>4. moved # Invalid
    <3> HIDE DEF moved
    <3> QED
      BY <2>3, Strict
  <2>5. b # p0.branch => fork # Invalid
    <3> HIDE DEF fork
    <3> QED
      BY <2>4, Strict
  <2> QED
    BY <2>1, <2>2, <2>3, <2>4, <2>5
<1>8. /\ moved \in ThreadProjection /\ moved.actual = p0.actual /\ moved.branch = b
      /\ RunsEnd(p0, moved, S)
  <2>1. CASE b = p0.branch
    BY <1>6, <2>1
  <2>2. CASE b # p0.branch
    <3> HIDE DEF ended
    <3>1. /\ fork \in ThreadProjection /\ fork.actual = p0.actual
          /\ fork.runs = ended.runs
      BY <1>2, <1>6, <1>7, <2>2, ForkEffect, ProjectionFields
    <3> HIDE DEF fork
    <3>2. moved = SelectBranch(fork, b)
      BY <2>2
    <3>3. /\ moved \in ThreadProjection /\ moved.actual = p0.actual
          /\ moved.runs = ended.runs /\ moved.branch = b
      <4>1. SelectBranch(fork, b).branch = b
        BY <1>7, <3>1, <3>2 DEF SelectBranch, ThreadProjection
      <4> QED
        BY <1>7, <3>1, <3>2, <4>1, SelectEffect
    <3> QED
      BY <1>6, <3>3 DEF RunsEnd
  <2> QED
    BY <2>1, <2>2
<1> HIDE DEF moved
<1>9. /\ new \in ThreadProjection /\ new.actual = p0.actual /\ new.branch = b
      /\ ~HasRun(moved, r)
      /\ new.runs[r].state = "CREATED" /\ new.runs[r].branch = b
      /\ \A o \in Runs \ {r} : new.runs[o] = moved.runs[o]
  <2>1. moved \in Projections /\ ~HasRun(moved, r)
    BY <1>7, <1>8, Taken DEF Projections
  <2> QED
    BY <1>8, <2>1, CreateRunEffect
<1> HIDE DEF new
<1>10. /\ bound \in ThreadProjection /\ bound.actual = p0.actual /\ bound.branch = b
       /\ bound.runs[r].state = "CREATED" /\ bound.runs[r].branch = b
       /\ \A o \in Runs \ {r} : bound.runs[o] = moved.runs[o]
  <2>1. new \in Projections /\ Unbound(new, r)
    BY <1>7, <1>9, Taken DEF Projections
  <2> QED
    BY <1>9, <2>1, BindEffect
<1> HIDE DEF bound
<1>11. /\ next \in ThreadProjection /\ next.actual = p0.actual /\ next.branch = b
       /\ next.runs[r].state = "QUEUED" /\ next.runs[r].branch = b
       /\ \A o \in Runs \ {r} : next.runs[o] = moved.runs[o]
  <2>1. bound \in Projections /\ MayMove(bound, r, "QUEUED") /\ "QUEUED" \in RunState
    BY <1>7, <1>10, Taken DEF Projections, Queued, RunState
  <2> QED
    BY <1>10, <2>1, RunToEffect DEF Queued, RunBecomes
<1> HIDE DEF next
<1>12. /\ final \in ThreadProjection /\ final.actual = "QUEUED" /\ final.branch = b
       /\ final.runs = next.runs
  <2>1. CASE p0.actual = "QUEUED"
    BY <1>11, <2>1
  <2>2. CASE p0.actual # "QUEUED"
    <3>1. next \in Projections /\ "QUEUED" \in ThreadState
      BY <1>11 DEF Projections, ThreadState
    <3>2. "QUEUED" \in ThreadTransitions[next.actual]
      BY <1>7, <2>2, <3>1, Taken
    <3>3. final = ThreadTo(next, "QUEUED")
      BY <1>7, <2>2
    <3> HIDE DEF final
    <3> QED
      BY <1>11, <3>1, <3>2, <3>3, ThreadToEffect
  <2> QED
    BY <2>1, <2>2
<1> HIDE DEF final
<1>13. /\ ~HasRun(p0, r)
       /\ \A o \in Runs \ {r} :
            IF o \in S THEN final.runs[o].state = "CANCELLED"
            ELSE final.runs[o] = p0.runs[o]
  <2>1. \A o \in Runs :
            IF o \in S THEN moved.runs[o].state = "CANCELLED"
            ELSE moved.runs[o] = p0.runs[o]
    BY <1>3, <1>8 DEF RunsEnd
  <2>2. ~HasRun(p0, r)
    <3>1. moved.runs[r].state = "ABSENT"
      BY <1>8, <1>9, ProjectionFields DEF HasRun
    <3>2. p0.runs[r].state = "ABSENT"
      BY <2>1, <3>1
    <3> QED
      BY <3>2 DEF HasRun
  <2> QED
    BY <1>11, <1>12, <2>1, <2>2
<1>14. threads'[t] = final
  BY <1>1, <1>2
<1>15. QueuedOn(t, final, r, b, S)
  BY <1>1, <1>11, <1>12, <1>13 DEF QueuedOn
<1> QED
  BY <1>1, <1>4, <1>5, <1>14, <1>15 DEF S

\* The Runs of S on Thread t are cancelled, and so are their rows.
LEMMA CancelEffect ==
    ASSUME ExecTypeOK, NEW t \in Threads, CancelThread(t)
    PROVE  /\ threads[t] # Invalid
           /\ threads' = [threads EXCEPT ![t] = threads'[t]]
           /\ threads'[t] \in ThreadProjection /\ threads'[t].actual = "CANCELLED"
           /\ threads'[t].branch = threads[t].branch
           /\ RunsEnd(threads[t], threads'[t], OpenRuns(t))
           /\ jobs' = CancelJobs(jobs, OpenRuns(t))
<1> DEFINE p0     == threads[t]
           wanted == DesiredTo(p0, "CANCEL")
           ended  == CancelOpenRuns(wanted, OpenRuns(t))
           final  == ThreadTo(ended, "CANCELLED")
<1>1. /\ p0 # Invalid /\ final # Invalid
      /\ threads' = [threads EXCEPT ![t] = final]
      /\ jobs' = CancelJobs(jobs, OpenRuns(t))
  BY DEF CancelThread, Cancelled, CancelRuns
<1>2. threads \in [Threads -> Projections] /\ p0 \in ThreadProjection
      /\ OpenRuns(t) \in SUBSET Runs
  BY <1>1, Typed DEF OpenRuns, RunsOf
<1>3. /\ wanted \in ThreadProjection /\ wanted.branch = p0.branch /\ wanted.runs = p0.runs
  BY <1>2, DesiredToEffect DEF DesiredState
<1>4. \A o \in Runs : OpenRun(wanted, o) <=> OpenRun(p0, o)
  BY <1>1, <1>3, ProjectionFields DEF OpenRun, HasRun
<1> HIDE DEF wanted
<1>5. /\ ended \in ThreadProjection /\ ended.branch = p0.branch
      /\ RunsEnd(wanted, ended, OpenRuns(t))
  BY <1>2, <1>3, CancelOpenEffect
<1> HIDE DEF ended
<1>6. RunsEnd(p0, ended, OpenRuns(t))
  BY <1>3, <1>4, <1>5 DEF RunsEnd
<1>7. "CANCELLED" \in ThreadState /\ "CANCELLED" \in ThreadTransitions[ended.actual]
  BY <1>1, <1>5, Taken DEF Projections, ThreadState
<1>8. /\ final \in ThreadProjection /\ final.actual = "CANCELLED"
      /\ final.branch = ended.branch /\ final.runs = ended.runs
  BY <1>5, <1>7, ThreadToEffect
<1> HIDE DEF final
<1>9. threads'[t] = final
  BY <1>1, <1>2
<1> QED
  BY <1>1, <1>5, <1>6, <1>8, <1>9 DEF RunsEnd

\* A change of what the user wants or of a checkpoint, to the Runs' states none.
Retouched(t, q) ==
    /\ threads[t] # Invalid /\ q \in ThreadProjection
    /\ q.actual = threads[t].actual /\ q.active = threads[t].active
    /\ q.branch = threads[t].branch
    /\ \A o \in Runs : /\ q.runs[o].state = threads[t].runs[o].state
                       /\ q.runs[o].branch = threads[t].runs[o].branch

LEMMA DesireEffect ==
    ASSUME ExecTypeOK, NEW t \in Threads, NEW s \in {"RUN", "PAUSE"}, SetDesiredState(t, s)
    PROVE  /\ threads' = [threads EXCEPT ![t] = threads'[t]]
           /\ Retouched(t, threads'[t])
           /\ threads'[t].runs = threads[t].runs
<1>1. threads[t] \in ThreadProjection /\ threads \in [Threads -> Projections]
      /\ threads' = [threads EXCEPT ![t] = DesiredTo(threads[t], s)]
  BY Typed DEF SetDesiredState
<1>2. threads'[t] = DesiredTo(threads[t], s) /\ s \in DesiredState
  BY <1>1 DEF DesiredState
<1> QED
  BY <1>1, <1>2, DesiredToEffect, ProjectionFields DEF Retouched

\* The holder of a live claim: its row and its Thread.
LEMMA HolderFacts ==
    ASSUME ExecTypeOK, NEW w \in Workers, NEW now, Holder(w, now)
    PROVE  /\ RunOf(w) \in Runs /\ ThreadOf[RunOf(w)] \in Threads
           /\ AttemptOf(w) \in Nat \ {0}
           /\ Current(w)
           /\ jobs[RunOf(w)].owner = w
  BY Typed, LiveClaimFacts DEF Holder, Current, RunOf, AttemptOf, Unexpired, LiveClaim

LEMMA CheckpointStep ==
    ASSUME ExecTypeOK, NEW w \in Workers, NEW now, SaveCheckpoint(w, now)
    PROVE  LET t == ThreadOf[RunOf(w)]
           IN  /\ Current(w) /\ RunOf(w) \in Runs /\ t \in Threads
               /\ threads' = [threads EXCEPT ![t] = threads'[t]]
               /\ Retouched(t, threads'[t])
               /\ ThreadFor(w).runs[RunOf(w)].state = "RUNNING"
               /\ \A o \in Runs \ {RunOf(w)} : threads'[t].runs[o] = threads[t].runs[o]
<1> DEFINE r == RunOf(w)
           t == ThreadOf[r]
           n == threads[t].runs[r].checkpoint + 1
<1>1. /\ Holder(w, now) /\ ActiveRun(w)
      /\ Checkpoint(threads[t], r, n) # Invalid
      /\ threads' = [threads EXCEPT ![t] = Checkpoint(threads[t], r, n)]
  BY DEF SaveCheckpoint, ThreadBecomes, ThreadFor
<1>2. /\ r \in Runs /\ t \in Threads /\ Current(w)
      /\ threads \in [Threads -> Projections]
  BY <1>1, HolderFacts, Typed
<1>3. threads[t] \in ThreadProjection /\ threads[t].runs[r].state = "RUNNING"
  BY <1>1, <1>2, Typed DEF ActiveRun, HasRun, ThreadFor
<1>4. n \in Nat
  BY <1>2, <1>3, ProjectionFields DEF RunProjection
<1> HIDE DEF n, t, r
<1>5. threads'[t] = Checkpoint(threads[t], r, n)
  BY <1>1, <1>2
<1>6. LET q == threads'[t]
      IN  /\ q \in ThreadProjection
          /\ q.actual = threads[t].actual /\ q.active = threads[t].active
          /\ q.branch = threads[t].branch
          /\ q.runs[r].state = threads[t].runs[r].state
          /\ q.runs[r].branch = threads[t].runs[r].branch
          /\ \A o \in Runs \ {r} : q.runs[o] = threads[t].runs[o]
  BY <1>1, <1>2, <1>3, <1>4, <1>5, CheckpointEffect
<1>7. threads[t] # Invalid
  BY <1>3, ProjectionFields
<1> QED
  BY <1>1, <1>2, <1>3, <1>5, <1>6, <1>7 DEF Retouched, ThreadFor, r, t

LEMMA StartEffect ==
    ASSUME ExecTypeOK, NEW w \in Workers, NEW now, StartClaimedRun(w, now)
    PROVE  LET r == RunOf(w)
               t == ThreadOf[r]
               p == threads[t]
               q == threads'[t]
           IN  /\ Current(w) /\ r \in Runs /\ t \in Threads
               /\ threads' = [threads EXCEPT ![t] = q]
               /\ p # Invalid /\ q \in ThreadProjection
               /\ q.actual = "RUNNING" /\ q.branch = p.branch
               /\ RunBecomes(p, q, r, "RUNNING")
               /\ HasRun(p, r)
               /\ IF p.runs[r].state = "RUNNING" THEN q.active = p.active
                  ELSE p.active \in {NoRun, r} /\ q.active = r
<1> DEFINE r == RunOf(w)
           t == ThreadOf[r]
           p == threads[t]
           moved == IF p.actual = "RUNNING" THEN p ELSE ThreadTo(p, "RUNNING")
           final == IF moved = Invalid \/ moved.runs[r].state = "RUNNING" THEN moved
                    ELSE RunTo(moved, r, "RUNNING")
<1>1. /\ Holder(w, now) /\ HasRun(p, r) /\ final # Invalid
      /\ threads' = [threads EXCEPT ![t] = final]
  BY DEF StartClaimedRun, ThreadBecomes, ThreadFor, Running
<1>2. /\ r \in Runs /\ t \in Threads /\ Current(w)
      /\ threads \in [Threads -> Projections]
  BY <1>1, HolderFacts, Typed
<1>3. p \in ThreadProjection /\ p # Invalid
  BY <1>1, <1>2, Typed DEF HasRun
<1> HIDE DEF r, t, p
<1>4. moved # Invalid
  <2> HIDE DEF moved
  <2> QED
    BY <1>1, Strict
<1>5. /\ moved \in ThreadProjection /\ moved.actual = "RUNNING" /\ moved.branch = p.branch
      /\ moved.active = p.active /\ moved.runs = p.runs
  <2>1. CASE p.actual = "RUNNING"
    BY <1>3, <2>1
  <2>2. CASE p.actual # "RUNNING"
    <3>1. p \in Projections /\ ThreadTo(p, "RUNNING") # Invalid /\ "RUNNING" \in ThreadState
      BY <1>3, <1>4, <2>2 DEF Projections, ThreadState
    <3>2. "RUNNING" \in ThreadTransitions[p.actual]
      BY <3>1, Taken
    <3>3. moved = ThreadTo(p, "RUNNING")
      BY <2>2
    <3> HIDE DEF moved
    <3> QED
      BY <1>3, <3>1, <3>2, <3>3, ThreadToEffect
  <2> QED
    BY <2>1, <2>2
<1> HIDE DEF moved
<1>6. /\ final \in ThreadProjection /\ final.actual = "RUNNING" /\ final.branch = p.branch
      /\ RunBecomes(p, final, r, "RUNNING")
      /\ IF p.runs[r].state = "RUNNING" THEN final.active = p.active
         ELSE p.active \in {NoRun, r} /\ final.active = r
  <2>1. CASE p.runs[r].state = "RUNNING"
    <3>1. final = moved
      BY <1>5, <2>1
    <3> HIDE DEF final
    <3> QED
      BY <1>5, <2>1, <3>1 DEF RunBecomes
  <2>2. CASE p.runs[r].state # "RUNNING"
    <3>1. final = RunTo(moved, r, "RUNNING")
      BY <1>4, <1>5, <2>2
    <3>2. moved \in Projections /\ "RUNNING" \in RunState
      BY <1>5 DEF Projections, RunState
    <3>3. RunTo(moved, r, "RUNNING") # Invalid
      BY <1>1, <3>1
    <3> HIDE DEF final
    <3>4. MayMove(moved, r, "RUNNING")
      BY <3>2, <3>3, Taken
    <3>5. /\ final \in ThreadProjection /\ final.actual = "RUNNING"
          /\ final.branch = p.branch /\ final.active = r
          /\ RunBecomes(moved, final, r, "RUNNING")
      BY <1>2, <1>5, <3>1, <3>2, <3>4, RunToEffect
    <3>6. p.active \in {NoRun, r}
      BY <1>5, <3>4 DEF MayMove
    <3> QED
      BY <1>5, <2>2, <3>5, <3>6 DEF RunBecomes
  <2> QED
    BY <2>1, <2>2
<1> HIDE DEF final
<1>7. threads'[t] = final
  BY <1>1, <1>2
<1> QED
  BY <1>1, <1>2, <1>3, <1>6, <1>7 DEF r, t, p

\* A holder gives its claim back: its row and its active Run come to the same
\* state, the Thread is no longer RUNNING, and nothing else moves.
Settles(w, s) ==
    LET r == RunOf(w)
        t == ThreadOf[r]
        p == threads[t]
        q == threads'[t]
    IN  /\ r \in Runs /\ t \in Threads
        /\ Current(w) /\ ActiveRun(w)
        /\ threads' = [threads EXCEPT ![t] = q]
        /\ p # Invalid /\ q \in ThreadProjection
        /\ q.actual # "RUNNING" /\ q.branch = p.branch
        /\ RunBecomes(p, q, r, s)
        /\ jobs'[r].state = s
        /\ \A o \in Runs : jobs'[o].token = jobs[o].token /\ jobs'[o].attempts = jobs[o].attempts
        /\ \A o \in Runs \ {r} : jobs'[o] = jobs[o]
        /\ claims' = [claims EXCEPT ![w] = NoClaim]
        /\ phase' = [phase EXCEPT ![w] = "idle"]
        /\ steps' = steps

\* The row that finishing leaves.
LEMMA FinishedRow ==
    ASSUME ExecTypeOK, NEW w \in Workers, NEW now \in Readings, NEW o \in Outcomes,
           NEW delay \in Delays, FinishRunClaim(w, o, delay, now)
    PROVE  /\ jobs'[RunOf(w)].state =
                IF o = "succeeded" THEN "COMPLETED"
                ELSE IF MayRetry(jobs[RunOf(w)], o) THEN "QUEUED" ELSE "FAILED"
           /\ \A r \in Runs \ {RunOf(w)} : jobs'[r] = jobs[r]
<1> DEFINE r == RunOf(w)
           j == jobs[r]
<1>1. TypeOK /\ jobs \in [Runs -> Job] /\ r \in Runs /\ j \in Job
  BY Typed, LiveClaimFacts DEF FinishRunClaim, TypeOK, RunOf
<1>2. jobs' = [jobs EXCEPT ![r] = SettledJob(j, o, now, delay)]
  BY DEF FinishRunClaim, RunOf
<1> HIDE DEF j, r
<1>3. /\ Release(j, "COMPLETED").state = "COMPLETED" /\ Release(j, "FAILED").state = "FAILED"
      /\ [Release(j, "QUEUED") EXCEPT !.available = now + delay].state = "QUEUED"
  <2>1. Release(j, "QUEUED") \in Job /\ Release(j, "QUEUED").state = "QUEUED"
    BY <1>1, ReleaseFacts DEF JobState
  <2>2. [Release(j, "QUEUED") EXCEPT !.available = now + delay].state = "QUEUED"
    BY <2>1 DEF Job
  <2> QED
    BY <1>1, <2>2, ReleaseFacts DEF JobState
<1>4. SettledJob(j, o, now, delay).state =
            IF o = "succeeded" THEN "COMPLETED"
            ELSE IF MayRetry(j, o) THEN "QUEUED" ELSE "FAILED"
  BY <1>3 DEF SettledJob
<1> QED
  BY <1>1, <1>2, <1>4 DEF r, j

LEMMA MoveBoth ==
    ASSUME NEW p \in ThreadProjection, NEW r \in Runs, NEW s \in RunState, NEW a \in ThreadState,
           ThreadTo(RunTo(p, r, s), a) # Invalid
    PROVE  LET q == ThreadTo(RunTo(p, r, s), a)
           IN  /\ q \in ThreadProjection /\ q.actual = a /\ q.branch = p.branch
               /\ RunBecomes(p, q, r, s)
<1> DEFINE m == RunTo(p, r, s)
<1>1. m # Invalid
  <2>1. ThreadTo(m, a) # Invalid
    OBVIOUS
  <2> HIDE DEF m
  <2> QED
    BY <2>1, Strict
<1>2. p \in Projections /\ MayMove(p, r, s)
  BY <1>1, Taken DEF Projections
<1>3. m \in ThreadProjection /\ m.branch = p.branch /\ RunBecomes(p, m, r, s)
  BY <1>2, RunToEffect
<1> HIDE DEF m
<1>4. m \in Projections
  BY <1>3 DEF Projections
<1>5. a \in ThreadTransitions[m.actual]
  BY <1>4, Taken DEF m
<1> QED
  BY <1>3, <1>5, ThreadToEffect DEF m, RunBecomes

LEMMA SettleFailureEffect ==
    ASSUME ExecTypeOK, NEW w \in Workers, NEW now \in Readings, NEW delay \in Delays,
           SettleFailure(w, delay, now)
    PROVE  (Settles(w, "QUEUED") \/ Settles(w, "FAILED")) /\ deliveries' = deliveries
<1> DEFINE r == RunOf(w)
           t == ThreadOf[r]
           p == threads[t]
           retry == MayRetry(jobs[r], phase[w])
           s == IF retry THEN "QUEUED" ELSE "FAILED"
           q == Failed(p, r, retry)
<1>1. /\ Holder(w, now) /\ ActiveRun(w) /\ q # Invalid
      /\ threads' = [threads EXCEPT ![t] = q]
      /\ FinishRunClaim(w, phase[w], delay, now)
      /\ phase[w] \in {"retryable", "permanent"}
      /\ phase' = [phase EXCEPT ![w] = "idle"] /\ steps' = steps /\ deliveries' = deliveries
  BY DEF SettleFailure, ThreadBecomes, ThreadFor, Goto
<1>2. /\ r \in Runs /\ t \in Threads /\ Current(w) /\ TypeOK
      /\ threads \in [Threads -> Projections]
  BY <1>1, HolderFacts, Typed
<1>3. p \in ThreadProjection /\ p # Invalid
  BY <1>1, <1>2, Typed DEF ActiveRun, HasRun, ThreadFor
<1>4. phase[w] \in Outcomes /\ phase[w] # "succeeded"
  BY <1>1 DEF Outcomes
<1>5. /\ jobs'[r].state = s
      /\ \A o \in Runs \ {r} : jobs'[o] = jobs[o]
  BY <1>1, <1>4, FinishedRow
<1>6. /\ \A o \in Runs : jobs'[o].token = jobs[o].token /\ jobs'[o].attempts = jobs[o].attempts
      /\ claims' = [claims EXCEPT ![w] = NoClaim]
  BY <1>1, <1>2, <1>4, FinishFacts
<1>7. /\ q \in ThreadProjection /\ q.actual # "RUNNING" /\ q.branch = p.branch
      /\ RunBecomes(p, q, r, s)
  <2> HIDE DEF r, t, p
  <2>1. CASE retry
    <3>1. q = ThreadTo(RunTo(p, r, "QUEUED"), "QUEUED")
      BY <2>1 DEF Failed
    <3> HIDE DEF q
    <3> QED
      BY <1>1, <1>2, <1>3, <2>1, <3>1, MoveBoth DEF RunState, ThreadState
  <2>2. CASE ~retry
    <3> DEFINE m == ThreadTo(RunTo(p, r, "FAILED"), "FAILED")
    <3>1. q = AttentionTo(m, "FAILED")
      BY <2>2 DEF Failed
    <3>2. m # Invalid
      BY <1>1, <3>1 DEF AttentionTo
    <3>3. /\ m \in ThreadProjection /\ m.actual = "FAILED" /\ m.branch = p.branch
          /\ RunBecomes(p, m, r, "FAILED")
      BY <1>2, <1>3, <3>2, MoveBoth DEF RunState, ThreadState
    <3> HIDE DEF q, m
    <3>4. /\ q \in ThreadProjection /\ q.actual = "FAILED" /\ q.branch = m.branch
          /\ q.runs = m.runs
      BY <3>1, <3>3, AttentionToEffect DEF AttentionState
    <3> QED
      BY <2>2, <3>3, <3>4 DEF RunBecomes
  <2> QED
    BY <2>1, <2>2
<1> HIDE DEF q
<1>8. threads'[t] = q
  BY <1>1, <1>2
<1>9. Settles(w, s)
  BY <1>1, <1>2, <1>3, <1>5, <1>6, <1>7, <1>8 DEF Settles
<1> QED
  BY <1>1, <1>9

LEMMA FinishExecutionEffect ==
    ASSUME ExecTypeOK, NEW w \in Workers, NEW now \in Readings, NEW delay \in Delays,
           FinishExecution(w, delay, now)
    PROVE  Settles(w, "COMPLETED") /\ deliveries' = deliveries /\ ~HasVerifier(w)
<1> DEFINE r == RunOf(w)
           t == ThreadOf[r]
           p == threads[t]
           q == ThreadTo(RunTo(p, r, "COMPLETED"), "DORMANT")
<1>1. /\ Holder(w, now) /\ ActiveRun(w) /\ q # Invalid /\ ~HasVerifier(w)
      /\ threads' = [threads EXCEPT ![t] = q]
      /\ FinishRunClaim(w, "succeeded", delay, now)
      /\ phase' = [phase EXCEPT ![w] = "idle"] /\ steps' = steps /\ deliveries' = deliveries
  BY DEF FinishExecution, ThreadBecomes, ThreadFor, Goto
<1>2. /\ r \in Runs /\ t \in Threads /\ Current(w) /\ TypeOK
      /\ threads \in [Threads -> Projections] /\ "succeeded" \in Outcomes
  BY <1>1, HolderFacts, Typed DEF Outcomes
<1>3. p \in ThreadProjection /\ p # Invalid
  BY <1>1, <1>2, Typed DEF ActiveRun, HasRun, ThreadFor
<1>5. /\ jobs'[r].state = "COMPLETED"
      /\ \A o \in Runs \ {r} : jobs'[o] = jobs[o]
  BY <1>1, <1>2, FinishedRow
<1>6. /\ \A o \in Runs : jobs'[o].token = jobs[o].token /\ jobs'[o].attempts = jobs[o].attempts
      /\ claims' = [claims EXCEPT ![w] = NoClaim]
  BY <1>1, <1>2, FinishFacts
<1>7. /\ q \in ThreadProjection /\ q.actual # "RUNNING" /\ q.branch = p.branch
      /\ RunBecomes(p, q, r, "COMPLETED")
  BY <1>1, <1>2, <1>3, MoveBoth DEF RunState, ThreadState
<1> HIDE DEF q
<1>8. threads'[t] = q
  BY <1>1, <1>2
<1> QED
  BY <1>1, <1>2, <1>3, <1>5, <1>6, <1>7, <1>8 DEF Settles

LEMMA FinalizeEffect ==
    ASSUME ExecTypeOK, NEW w \in Workers, NEW now \in Readings, NEW delay \in Delays,
           FinalizeDelivery(w, delay, now)
    PROVE  /\ Settles(w, "COMPLETED") /\ phase[w] = "verified"
           /\ deliveries' = [deliveries EXCEPT ![ThreadOf[RunOf(w)]] = Append(@,
                [run |-> RunOf(w), attempt |-> AttemptOf(w), state |-> "PREPARED"])]
<1> DEFINE r == RunOf(w)
           t == ThreadOf[r]
           p == threads[t]
           m == ThreadTo(RunTo(p, r, "COMPLETED"), "DELIVERED")
           q == AttentionTo(m, "DELIVERY_READY")
<1>1. /\ Holder(w, now) /\ ActiveRun(w) /\ q # Invalid /\ phase[w] = "verified"
      /\ threads' = [threads EXCEPT ![t] = q]
      /\ FinishRunClaim(w, "succeeded", delay, now)
      /\ phase' = [phase EXCEPT ![w] = "idle"] /\ steps' = steps
      /\ deliveries' = [deliveries EXCEPT ![ThreadOf[RunOf(w)]] = Append(@,
                [run |-> RunOf(w), attempt |-> AttemptOf(w), state |-> "PREPARED"])]
  BY DEF FinalizeDelivery, ThreadBecomes, ThreadFor, Goto
<1>2. /\ r \in Runs /\ t \in Threads /\ Current(w) /\ TypeOK
      /\ threads \in [Threads -> Projections] /\ "succeeded" \in Outcomes
  BY <1>1, HolderFacts, Typed DEF Outcomes
<1>3. p \in ThreadProjection /\ p # Invalid
  BY <1>1, <1>2, Typed DEF ActiveRun, HasRun, ThreadFor
<1>4. m # Invalid
  BY <1>1 DEF AttentionTo
<1>5. /\ jobs'[r].state = "COMPLETED"
      /\ \A o \in Runs \ {r} : jobs'[o] = jobs[o]
  BY <1>1, <1>2, FinishedRow
<1>6. /\ \A o \in Runs : jobs'[o].token = jobs[o].token /\ jobs'[o].attempts = jobs[o].attempts
      /\ claims' = [claims EXCEPT ![w] = NoClaim]
  BY <1>1, <1>2, FinishFacts
<1>7. /\ m \in ThreadProjection /\ m.actual = "DELIVERED" /\ m.branch = p.branch
      /\ RunBecomes(p, m, r, "COMPLETED")
  BY <1>2, <1>3, <1>4, MoveBoth DEF RunState, ThreadState
<1> HIDE DEF m
<1>8. /\ q \in ThreadProjection /\ q.actual # "RUNNING" /\ q.branch = p.branch
      /\ RunBecomes(p, q, r, "COMPLETED")
  BY <1>7, AttentionToEffect DEF RunBecomes, AttentionState
<1> HIDE DEF q
<1>9. threads'[t] = q
  BY <1>1, <1>2
<1> QED
  BY <1>1, <1>2, <1>3, <1>5, <1>6, <1>8, <1>9 DEF Settles

\* A poll leaves a row alone, fails it or, when it claims one, gives that one
\* the next token.
Swept(o) ==
    /\ jobs'[o].token = jobs[o].token /\ jobs'[o].attempts = jobs[o].attempts
    /\ \/ jobs'[o] = jobs[o]
       \/ jobs[o].state = "CLAIMED" /\ jobs'[o].state = "FAILED"

Claims(w, r) ==
    /\ \A o \in Runs \ {r} : Swept(o)
    /\ jobs[r].state \in {"QUEUED", "CLAIMED"} /\ jobs'[r].state = "CLAIMED"
    /\ jobs'[r].token = jobs[r].token + 1 /\ jobs'[r].attempts = jobs[r].attempts + 1
    /\ jobs[r].attempts < MaxAttempts
    /\ \A v \in Workers \ {w} : claims'[v] = claims[v]
    /\ claims'[w] # NoClaim
    /\ claims'[w].run = r /\ claims'[w].token = jobs'[r].token
    /\ phase' = [phase EXCEPT ![w] = "claimed"]

LEMMA PollEffect ==
    ASSUME ExecTypeOK, NEW w \in Workers, Poll(w)
    PROVE  /\ threads' = threads /\ steps' = steps /\ deliveries' = deliveries
           /\ phase[w] = "idle"
           /\ \/ /\ \A o \in Runs : Swept(o)
                 /\ claims' = claims /\ phase' = phase
              \/ \E r \in Runs : Claims(w, r)
<1>1. /\ threads' = threads /\ steps' = steps /\ deliveries' = deliveries
      /\ phase[w] = "idle" /\ claims[w] = NoClaim /\ Claim(w)
      /\ phase' = [phase EXCEPT ![w] = IF claims'[w] = NoClaim THEN "idle" ELSE "claimed"]
  BY DEF Poll, Goto, ExecTypeOK
<1>2. TypeOK /\ jobs \in [Runs -> Job] /\ phase \in [Workers -> Phases]
  BY Typed DEF TypeOK
<1>3. ASSUME NEW now \in Readings, NEW o \in Runs
      PROVE  LET q == FailExhausted(jobs, now)[o]
             IN  /\ q.token = jobs[o].token /\ q.attempts = jobs[o].attempts
                 /\ q = jobs[o] \/ (jobs[o].state = "CLAIMED" /\ q.state = "FAILED")
  BY <1>2, ReadingsFacts, SweepFacts DEF Expired
<1>4. ASSUME NEW now \in Readings, FindNoRun(w, now)
      PROVE  /\ \A o \in Runs : Swept(o)
             /\ claims' = claims /\ phase' = phase
  <2>1. jobs' = FailExhausted(jobs, now) /\ claims' = claims
    BY <1>4 DEF FindNoRun
  <2>2. \A o \in Runs : Swept(o)
    BY <1>3, <2>1 DEF Swept
  <2>3. phase' = phase
    BY <1>1, <1>2, <2>1
  <2> QED
    BY <2>1, <2>2, <2>3
<1>5. ASSUME NEW now \in Readings, NEW r \in Runs, ClaimRun(w, r, now)
      PROVE  Claims(w, r)
  <2> DEFINE swept == FailExhausted(jobs, now)
             claim == [run |-> r, token |-> swept[r].token + 1,
                       expires |-> now + LeaseSeconds]
  <2>1. /\ r \in Candidates(swept, w, now)
        /\ jobs' = [swept EXCEPT ![r] = ClaimedJob(swept[r], w, now)]
        /\ claims' = [claims EXCEPT ![w] = claim]
    BY <1>5 DEF ClaimRun
  <2>2. swept \in [Runs -> Job] /\ now \in Nat /\ jobs[r].token \in Nat
    BY <1>2, ReadingsFacts, SweepFacts DEF Job
  <2>3. /\ swept[r].state \in {"QUEUED", "CLAIMED"} /\ swept[r].attempts < MaxAttempts
    BY <2>1 DEF Candidates, Expired
  <2>4. swept[r] = jobs[r]
    BY <1>3, <2>3
  <2> HIDE DEF swept
  <2>5. /\ jobs'[r].state = "CLAIMED" /\ jobs'[r].token = jobs[r].token + 1
        /\ jobs'[r].attempts = jobs[r].attempts + 1
    BY <1>2, <2>1, <2>2, <2>4, ClaimedFacts
  <2>6. \A o \in Runs \ {r} : Swept(o)
    BY <1>3, <2>1, <2>2 DEF Swept, swept
  <2>7. claim \in WorkerClaim /\ claim # NoClaim
    <3>1. now + LeaseSeconds \in Nat /\ jobs[r].token + 1 \in Nat \ {0}
      BY <2>2
    <3>2. claim \in WorkerClaim
      BY <2>4, <3>1 DEF WorkerClaim
    <3> QED
      BY <3>2, NoClaimAssumption
  <2>8. claims'[w] = claim /\ \A v \in Workers \ {w} : claims'[v] = claims[v]
    BY <1>2, <2>1 DEF TypeOK
  <2>9. phase' = [phase EXCEPT ![w] = "claimed"]
    BY <1>1, <2>7, <2>8
  <2> QED
    BY <2>3, <2>4, <2>5, <2>6, <2>7, <2>8, <2>9 DEF Claims
<1> QED
  BY <1>1, <1>4, <1>5 DEF Claim

\* A step that moves no Run: rows keep their state and token, claims their Run
\* and token.
RowsKeep == \A o \in Runs : /\ jobs'[o].state = jobs[o].state
                            /\ jobs'[o].token = jobs[o].token
                            /\ jobs'[o].attempts = jobs[o].attempts
ClaimsKeep == \A v \in Workers :
    /\ claims'[v] = NoClaim <=> claims[v] = NoClaim
    /\ claims[v] # NoClaim => RunOf(v)' = RunOf(v) /\ AttemptOf(v)' = AttemptOf(v)

LEMMA HeartbeatEffect ==
    ASSUME ExecTypeOK, NEW w \in Workers, NEW now, Heartbeat(w, now)
    PROVE  RowsKeep /\ ClaimsKeep /\ runtime' = runtime
<1>1. TypeOK /\ jobs \in [Runs -> Job] /\ claims \in [Workers -> WorkerClaim \cup {NoClaim}]
  BY Typed DEF TypeOK
<1>2. /\ Holder(w, now) /\ claims[w] # NoClaim /\ runtime' = runtime
      /\ jobs' = [jobs EXCEPT ![claims[w].run].expires = now + LeaseSeconds]
      /\ claims' = [claims EXCEPT ![w].expires = now + LeaseSeconds]
  BY DEF Heartbeat, HeartbeatRun, Holder, runtime
<1>3. now \in Nat
  BY <1>1, <1>2, ReadingsFacts DEF Holder, HolderReadings
<1>4. RowsKeep
  BY <1>1, <1>2 DEF RowsKeep, Job
<1>5. claims[w] \in WorkerClaim /\ claims'[w] = [claims[w] EXCEPT !.expires = now + LeaseSeconds]
  BY <1>1, <1>2
<1>6. claims'[w] \in WorkerClaim /\ claims'[w].run = claims[w].run
      /\ claims'[w].token = claims[w].token
  BY <1>3, <1>5 DEF WorkerClaim
<1>7. claims'[w] # NoClaim
  BY <1>6, NoClaimAssumption
<1>8. \A v \in Workers \ {w} : claims'[v] = claims[v]
  BY <1>1, <1>2
<1> QED
  BY <1>2, <1>4, <1>6, <1>7, <1>8 DEF ClaimsKeep, RunOf, AttemptOf
=============================================================================
