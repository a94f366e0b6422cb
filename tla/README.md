# A verification of the CoPenguin runtime

CoPenguin keeps long-running work in *Threads*. A message opens a Thread or
updates one; each accepted change creates a *Run*; worker hosts claim Runs from
a durable queue, execute them in Steps, verify the result and record a
Delivery; actions on the outside world pass an approval gate and a claim of
their own. All of it lives in one SQLite database behind
`SQLiteRuntimeRepository`.

This directory holds TLA+ modules for the parts of that runtime where order,
time and failure matter, TLC configurations that check them on small instances,
and TLAPS proofs of the results that matter most for every value of the
constants. Everything is translated from the code; the docs
(`docs/STATE_EVENT_SPEC.md`, `docs/V2_*.md`) were used for what the code is
meant to promise.

Paths below are relative to the repository; `repository.py`, `reducer.py`,
`execution.py`, `coordinator.py` and `inbox.py` are in
`src/super_agent_runtime/`, `action_gateway.py` and `feishu.py` in
`src/feishu_computer_agent/`.

    tlc -workers 2 -config SchedulerFencing.cfg MCScheduler.tla   # one run
    tlapm SchedulerProofs.tla                                     # one module's proofs

`PROJECT.json` lists, for a reader with tools: the components, the runs and
their properties, the source lines each definition stands for, a mutant of the
code for each property (a plausible bug that the run must catch), the
disagreements found, the hazards and the theorems.

## 1. The system

### Components, their state and operations

| Component | State | Operations | What makes it correct |
|---|---|---|---|
| **Run queue** (`repository.py` 1165-1525, 4891-5020) | `scheduler_jobs`: state, priority, available_at, attempts, owner, lease id, fencing token, lease expiry; the `WorkerClaim` a caller holds | enqueue_run, claim_next_run (sweep, candidate query, claim), heartbeat_run, finish_run_claim, the job half of Thread updates | one live claim per Thread; leases neither stolen nor revived; a stale holder changes nothing; a queued job can still run; everything settles |
| **Thread/Run reducer** (`reducer.py`) | the `ThreadProjection`: actual, desired and attention state, branches, Runs, active Run | reduce_thread over typed events, two transition tables | one open Run, the active one; terminal Runs stay terminal |
| **Worker host** (`execution.py`, `coordinator.py`) | where each slot is in `_execute_active`, its claim | poll, start, Steps, checkpoints, verifier, heartbeat thread, settle, retry, lost lease, crash | a current holder is never refused; a stale one leaves no trace |
| **Steps, Deliveries, outbox** (`repository.py` 1527-2440) | `runtime_steps`, `deliveries`, outbox rows | begin/finish_claimed_step, finish_claimed_execution, finalize_claimed_delivery, present_delivery | a Delivery only of a verified attempt, exactly one per Run |
| **Thread updates** (`repository.py` 2974-3531, `inbox.py` 567-743) | the projection, the jobs, the actions of the superseded Runs, in one transaction | supplement, goal change, method change (fork), cancel, pause and resume | superseded Runs, jobs and actions all end together |
| **Action gate** (`repository.py` 3637-4358, 4794-4978, `action_gateway.py`) | `action_intents`, `runtime_approvals`, `action_receipts`, the Thread's attention; handlers in flight | create intent/approval, decide, expire, claim, provider call, receipt, recover, reconcile | executed only when approved; at most once unless a reconciliation found nothing; refusals final |
| **Event journal and replay** (`repository.py` 743-1160, 4360-4520) | `runtime_events`, `thread_projections` | append_thread_events and the commands over it, replay_thread, verify_thread_replay | what is stored is the replay of the events; each event tells the state it left; a refused batch writes nothing |
| **Inbox** (`inbox.py`, `repository.py` 2618-2963, `feishu.py` 387-471) | `inbox_messages`; what a call has read and not yet written | receive, accept, resolve_route, redelivery, handing over to the Agent | each message has the effect its record says, once; a decision stands; no message is lost to the Thread's newest Run |
| **Resource leases** (`repository.py` 2441-2612, 5021-5076) | `resource_leases`, `resource_fences` | acquire (read, write, exclusive), renew, release, list with its sweep | readers and writers exclude each other; a lease that lost its place never comes back |
| **Artifacts, snapshots** | content-addressed files, immutable snapshot records | put, get, bind | content matches its hash |
| **Source tasks, verifier** | none (pure functions) | parse, compute, compare | the verdict follows the document |
| **Feishu connector, HTTP server** | sockets | receive, verify signatures, reply | requests reach the inbox unchanged |
| **Conversation agent, knowledge, memory, computer, security helpers** | files, provider stub | route text, read notes, run a provider | no shared durable state of the runtime |
| **CLI, demo, configuration** | none | parse, call the above | -- |

### How they interact

The components share no memory: they meet in the database. Each public method
of the repository opens a connection, runs **one** `BEGIN IMMEDIATE`
transaction and returns, so a method is atomic and what lies between two
methods is not. (A few methods read in one connection and write in another: the
thread commands and the replay check.) Interleaving enters in five places:

- a worker host runs several slots, each with a heartbeat thread, and several
  hosts may serve one database;
- a user's messages update Threads while workers execute their Runs; an update
  touches the projection, the queue and the action tables in one transaction;
- the gateway strings several repository calls around an await of a provider,
  in a handler per message;
- the inbox looks a message up, lists the active Threads, reads the target and
  its snapshots in separate connections, and writes everything it concluded in a
  last transaction;
- nearly every method reads the wall clock **before** it waits for the write
  lock (up to 10 s, `repository.py:79-84`), so what it does when it has the
  lock may be judged by an old time.

Failure enters through processes that die between any two calls (their rows
stay claimed until the lease runs out), through exceptions (retryable,
permanent, or escaping the host) and through messages delivered again.

### Hard behaviours

`PROJECT.json` lists the hazards at the line where each bites. The ones that
shaped the models: a lease that expires under a working holder; a clock reading
that is older than the lock; the last attempt of a job; a crash in every gap; an
update that supersedes a Run between two calls of its worker; a retry that meets
its earlier attempt's Steps; a provider that answers after its claim was
reconciled; approvals that expire while they are being decided; two approvals
of one action; an attention slot that Runs and approvals share; two deliveries
of one message, or two answers to one question, that both found it open; an
update prepared from a Thread that has moved on; a resource lease renewed by an
old clock.

## 2. The plan

In order of importance:

1. **Scheduler**: the run queue, with `FencedLease` as what it promises. *Done;
   type correctness, fencing, mutual exclusion and the refinement proved.*
2. **ThreadReducer, Execution**: the reducer as pure operators, and the
   composition of queue, projection, hosts, Steps, Deliveries and user updates.
   Every Execution step is shown to be a Scheduler step. *Done; that refinement
   and every invariant and action property of the runs proved.*
3. **ActionGate**: approvals, claims, receipts and the gateway, again against
   `FencedLease`. *Done; every invariant and action property of the run and
   the refinement proved.*
4. **ResourceLeases**: read, write and exclusive leases on the same kind of clock
   and lock as the queue, against the clock-free `SharedLease`. *Done; every
   property of the run is also proved.*
5. **Journal**: events, their reduction, the stored projection, the commands that
   read and append in two connections, the replay check. *Done as far as code
   under `src/` reaches it; replay and the truth of the events proved.*
6. **Inbox**, over the Journal: delivery, routing, preparation, commit, handing
   over, decisions. Abstract specification: `DurableInbox`. *Done; every invariant
   and action property of the run and the refinement proved.*
7. **More proofs**: an inductive invariant of Execution, the rest of the gate, what
   the events of Journal and Inbox reduce to, and the refinement of `DurableInbox`.
   *Done.* Left for later: lemmas that would let the theorems of Journal be used
   in Execution (the two describe a Worker's transactions separately).

## 3. The modules

| Module | What it is |
|---|---|
| `FencedLease` | Abstract lease service with groups and tokens, no clock |
| `Scheduler` | The run queue, the claims held, the clock |
| `ThreadReducer` | `reduce_thread` as operators on a projection |
| `Execution` | EXTENDS Scheduler: hosts, Threads, Steps, Deliveries, user |
| `ActionGate` | Intents, approvals, receipts, attention, handlers |
| `SharedLease` | Abstract readers/writer lease with tokens, no clock |
| `ResourceLeases` | The resource tables and the four operations on them |
| `Journal` | Over ThreadReducer: events, projections, commands, what a Worker appends, the replay check |
| `DurableInbox` | Abstract inbox: what becomes of each message, what the newest Run of each Thread was told |
| `Inbox` | EXTENDS Journal: deliveries, routes, their effects, decisions, the Agent |
| `MCScheduler`, `MCExecution`, `MCActionGate`, `MCResourceLeases`, `MCInbox` | Instances for TLC: who is in which Thread, who serves whom, what messages say, symmetry |
| `SchedulerProofs`, `ActionGateProofs`, `ResourceLeasesProofs` | Theorems about the module of that name, with their proofs |
| `ExecutionProofs`, `ExecutionInvariant` | What each action of Execution does and that it is a step of the queue; the inductive invariant and the theorems that follow |
| `JournalProofs` | Lemmas about replay, about what a transaction writes and about each of Journal's actions |
| `InboxProofs`, `InboxRefinement` | Theorems about Inbox and the Journal below it; the refinement of `DurableInbox` |

Definitions that a comment introduces as "Mutant of ..." model no code. They
are plausible bugs, substituted for the definition they name to confirm that
each property can fail; no specification uses them.

### Conventions shared by the models

- *One method, one action.* A method that begins by expiring or sweeping in the
  same transaction does so in the same action.
- *Clock readings.* `clock` is the time. An action takes a reading `now` out of
  `Readings`, at most `LockWait` ticks old. A holder's reading is not older than
  the one its claim was granted with (`HolderReadings`): a process reads the
  clock after its previous call returned.
- *Tokens.* Lease ids and fencing tokens are renewed together, and only by a
  claim, so the token stands for both. So does the attempt number: attempts and
  token are raised by the same statement.
- *Errors.* A call that raises rolls back; it is then no step of the tables, and
  appears only when the caller does something about it (GiveUp, Raise, FailStep,
  ClaimRefused, Abandon, Crash).

### FencedLease

`Grant` gives a Unit of a free Group to a holder with the next token; `End`
ends the leases of any set of Units at once, because a tick can expire several.
There is no other way to hold a lease: that is what forbids revival.

### SharedLease and DurableInbox

`SharedLease` does the same for readers and writers: `Give` grants beside
compatible leases only, and what has ended cannot be held again. `DurableInbox`
gives each message one outcome (set aside, a Task, a change of one Thread, or
open until one decision) and each Thread the sequence of messages its newest Run
was told; a revision appends to that sequence, and nothing else touches it.

### Scheduler

| TLA+ | Code |
|---|---|
| `jobs[r]` | the `scheduler_jobs` row of Run r |
| `claims[w]` | the `WorkerClaim` that slot w holds, live or stale |
| `EnqueueRun` | enqueue_run |
| `ClaimRun`, `FindNoRun` | claim_next_run with and without a candidate; `FailExhausted` is its sweep, `Candidates`/`Precedes` its query and ORDER BY |
| `HeartbeatRun`, `FinishRunClaim` | heartbeat_run, finish_run_claim; `LiveClaim` is `_assert_live_worker_claim` |
| `CancelRuns`, `SupersedeRuns` | the queue's part of Thread updates |
| `LoseLease`, `CrashWorker`, `Tick` | StaleLease, process death, time |

A Worker is one execution slot of a host, since slots claim independently.
`CancelRuns(S)` and `SupersedeRuns(S, ...)` take any set of Runs of a Thread
here; Execution says which.

### ThreadReducer

The two transition tables, and one operator per event the execution and update
paths append (create, change state, bind snapshots, checkpoint, fork and select
a branch, cancel). Where `reduce_thread` raises, the operator returns `Invalid`,
and the caller's action is disabled, since the whole transaction rolls back.
What the reducer keeps beside Thread and Runs (messages, delivery references,
the revision) is in Journal; branch rejection (no caller) and titles, projects
and metadata are left out.

### Execution

| TLA+ | Code |
|---|---|
| `threads[t]` | the stored projection of Thread t (`Invalid`: none yet) |
| `phase[w]` | where slot w is in `_execute_active` |
| `steps[r][attempt][kind]` | the Step whose id is made of Run, attempt and kind |
| `deliveries[t]` | the Deliveries by version |
| `SubmitTask`, `ReviseThread`, `CancelThread`, `SetDesiredState`, `PresentDelivery` | the user's commands |
| `Poll`, `StartClaimedRun`, `Heartbeat` | `WorkerHost` and its coordinator |
| `BeginStep`, `SaveCheckpoint`, `FinishTransform`, `FinishVerifier` | claimed writes; each checks the fence (`Holder`) and what else the code checks |
| `Raise`, `FailStep`, `SettleFailure` | the except branches, `_fail_step_safely`, finish_claimed_execution |
| `FinishExecution`, `FinalizeDelivery` | success without and with a Verifier |
| `GiveUp`, `Crash` | LOST_LEASE; the process dies or an exception leaves the host |

An update computes the Runs it supersedes from a read outside its transaction
(`inbox.py:704`). The update carries the revision it read and is refused when
the Thread has moved on, so `Superseded` is evaluated in the state the update
commits in. The Verifier's verdict, an Executor's exceptions and crashes are
inputs. Artifacts are omitted, and so is the outbox row that is inserted with a
Delivery: one HTTP endpoint lists these rows and nothing acts on them.

### ActionGate

| TLA+ | Code |
|---|---|
| `intents`, `approvals`, `receipts` | the three tables; an approval belongs to one intent, so the intent names it |
| `attention` | the Thread's attention_state |
| `calls[c]` | a gateway handler, or a reconciler, between two repository calls |
| `invoked[i]` | the tokens under which `provider.run` was called (a history of what happened outside) |
| `CreateIntent`, `CreateApproval` | submit: two transactions |
| `FindMissingApproval` then `CreateApproval` | recover_missing_approvals |
| `Decide`, `Sweep`, `DecideApproval` | the gateway's decide; the expiry sweep is a transaction before the decision's |
| `Resume`, `Sweep`, `ClaimAction`, `ClaimRefused` | `_execute_or_resume` and claim_action |
| `Invoke`, `RecordReceipt` | the provider call, record_action_receipt |
| `ClaimForReconciliation`, `RecoverIncomplete` | claim_action for reconciliation, recover_incomplete_actions |
| `CountApprovals` | pending_approval_count and its expiry |
| `StartRun`, `CancelThread`, `EndRun` | what Thread updates and settlements do to actions and attention |

Reconciliation is offered by the repository and driven by no code in it; the
model lets anyone call it. A claim that is refused because another is expired
marks the intent RECONCILE_REQUIRED and raises, which rolls the mark back
(`repository.py:4089`): hence `ClaimRefused` changes no table.

### ResourceLeases

| TLA+ | Code |
|---|---|
| `leases[l]` | the `resource_leases` row with lease id l |
| `fences[k]` | `resource_fences.last_token` of key k |
| `AcquireResource` | acquire_resource: sweep, conflict check, token, insert |
| `RenewResource`, `ReleaseResource` | `LiveLease` is `_assert_live_resource_lease` |
| `ActiveResourceLeases` | a read that marks what it finds expired |

A lease id is fresh for every grant and the rest of a row is immutable, so the
`ResourceLease` a holder presents and its row are one thing; owner, run and
thread ids play no part in what is granted. Worth knowing, and visible in the
model: WRITE and EXCLUSIVE behave alike; an owner conflicts with itself;
renew_resource, unlike acquire_resource, does not reject `lease_seconds < 1`
(so `Terms` has 0); a late renewal whose clock reading is old revives a lease
that had run out, but only one that no conflicting grant has displaced. Nothing
under `src/` calls these operations: `WorkerHost` acquires no resource and
releases none, though `docs/V2_RUNTIME_CONTRACT.md:110` lists "release all
resource leases on a normal exit".

### Journal

| TLA+ | Code |
|---|---|
| `events[t]` | the stream of Thread t in `runtime_events`; an event's place is its sequence |
| `stored[t]` | the row of `thread_projections`: ThreadReducer's projection, the revision, the messages, each Run's creation sequence and context |
| `calls[c]` | a call between two connections, with what it has read |
| `Reduce`, `Replay` | `reduce_thread`, replay_thread |
| `Commit` | `_insert_event` and `reduce_thread` per draft, then `_upsert_thread_projection`; disabled when the reducer raises, as the transaction rolls back |
| `Command` then `AppendEvents` | transition_thread, set_desired_state, set_attention, transition_run, which read with get_thread and call append_thread_event |
| `Verify` then `ReplayVerified` | verify_thread_replay |
| `StartClaimedRun`, `RecordCheckpoint`, `FinalizeDelivery`, `FinishExecution` | what a Worker's transactions append; claims are Execution's business, so here any active Run may be worked on |
| `Fail` | a call dies or raises between its connections |

### Inbox

| TLA+ | Code |
|---|---|
| `inbox[m]` | the row of `inbox_messages` for message key m |
| `handled[m]` | how often `FeishuWebhookService` gave m to the Agent (a history) |
| `Receive` | IngressAdapter.receive and accept: active Threads, look-up, route |
| `Prepare` | `_prepare_thread_update`, from its get_thread |
| `AcceptInboxRoute` | accept_inbox_route: duplicate, or record and effect in one transaction |
| `SubmitTask`, `UpdateThread` | `_submit_task_in_transaction`, `_apply_thread_update_in_transaction` |
| `Handle` | the Agent is handed a message that was new |
| `DecideRoute`, `Prepare`, `ResolveInboxRoute` | resolve_route and its transaction |

What a text means to the router is an input; so is whether the channel names a
current Thread. A `GOAL_CHANGE` differs from a `SUPPLEMENT` only in the text of
its task snapshot and counts as one. Ids the code derives from the message key
(Thread, Runs, branch) are the message. A transaction that raises (the Thread
was cancelled or archived, is not wanted to RUN and the message is not a cancel,
was delivered and the message is one, or has moved on from the revision read)
takes the record with it, so a redelivery tries again; a call that dies after
its transaction does not, so its message is never handed over: the redelivery is
a duplicate. That at-most-once is what `HandledOnce` says and all the code gives.

## 4. The runs

State counts are distinct states. Every run has CHECK_DEADLOCK FALSE because the
system really stops: when every job has ended, every claim is gone and nothing
can expire, there is nothing left to do.

| Run | Asks | Instance | States |
|---|---|---|---|
| `exclusion` | Do two workers ever hold live leases on Runs of one Thread, can an expired lease come back, does the queue implement `FencedLease`? | 2 Runs of 1 Thread, 2 slots, 2 priorities, 2-tick leases, 2 attempts, 2 ticks, LockWait 0 | 1145k |
| `fencing` | With stale clocks and delayed retries: is every stale claim told apart, no live lease stolen, only the current holder able to extend or settle, is settled settled, can every queued job be claimed, and does every job a worker serves end? | FairSpec, LockWait 1, 1-tick leases, delays 0 and 1, w2 serves only one of two executors | 127k |
| `stale_clock` | Does exclusion survive a stale reading? *No, finding 1.* | as `exclusion`, LockWait 1 | -- |
| `updates` | Supplements, goal and method changes, pauses, cancels against two slots that execute and verify | 2 Runs, 2 branches, 1 attempt, verified executor | 363k |
| `takeover` | A Run taken over while its first worker still works | 1 Run, 2 slots, 2 attempts, LockWait 1 | 72k |
| `retries` | Failures and retries, superseding updates, crashes: is the running Run the active one, does every Run end? | ExecFairSpec, 2 Runs, 1 slot, 2 attempts | 478k |
| `exhausted` | Does a job end only together with its Run? *No, finding 2.* | as `takeover`, LockWait 0 | -- |
| `gate` | Approvals, expiry, claims, provider and reconciliation against a Run that supersedes the intent's | 2 Runs, 1 gated intent, 2 handlers, 2-tick leases, 1-tick approvals, LockWait 1, 3 ticks, 3 claims | 628k |
| `attention` | Is a pending approval always shown? *No, finding 3.* | as `gate` | -- |
| `superseded` | Is a cancelled Run's action never executed again? *No, finding 4.* | as `gate`, no symmetry | -- |
| `resources` | Do read and write leases exclude each other when clocks are stale, can a lease that lost its place come back, do the tables implement `SharedLease`? | 3 leases on 2 keys, terms 0, 1, 2, LockWait 1, 3 ticks | 150k |
| `inbox` | Does each message have the effect recorded, once; is it handed over once; do decisions stand; is anything lost to the newest Run; do projections replay? | 3 messages, 1 Thread, 2 calls at a time, 3 commands, a Worker | 308k |

### What the properties say

*Queue.* `TypeOK` (with attempts never above max_attempts), `OneLiveRunPerThread`,
`NeverRevived` and `LeaseSpec` are checked with fresh readings, the only
condition under which they hold. `FencedClaims`, `NoStolenLease`,
`OnlyHolderSettles`, `TerminalIsFinal` and `QueuedCanRun` hold with stale ones,
so a stale worker can disturb a sibling's exclusivity but never corrupt a Run it
no longer owns. `JobsSettle` is the liveness property.

*Execution.* `OneOpenRun`: no order of updates, retries and crashes leaves two
open Runs or one off the current branch (where no update would supersede it).
`JobAndRunAgree` relates the two tables that transactions keep in step, with the
exception finding 2 is about. `DeliveriesAreVerified`: every Step of the
delivering attempt succeeded, and a verified Run completes with one Delivery.
`EndedRunIsFrozen` and `StaleAttemptsAreFrozen` say that a superseded or
overtaken worker leaves no trace. `HolderCanSettle` is their counterpart: a
worker whose claim is current finds its Run active and its Steps as it left them,
so no call of its raises and strands the Thread. `RunningIsActive` ties the
Thread's state to its Run's. `QueueSpec`: the composition does to the queue only
what module Scheduler allows. `RunsSettle`: every Run a worker serves ends, or
its job runs out of attempts.

*Resources.* `Uncontested`: an ACTIVE lease carries a larger token than every
lease it ever conflicted with, ended ones included; so a holder whose renewal
succeeds, however old its clock, was never displaced. `NoStolenResource`: a
conflicting lease is granted only when the earlier one ended or has run out by
the clock itself, not only by the reading. `SharedLeaseSpec`: with ACTIVE rows
as the leases held, the tables are a readers/writer lease whose n-th grant has
token n and in which no ended lease returns. All hold whatever `LockWait` is.

*Journal.* `ProjectionsReplay`: the stored projection is at all times the replay
of the stream, and verify_thread_replay answers false only when the Thread moved
between its two reads (a false alarm the code allows, and the only one).
`EventsTellTheirSource`: the reducer takes a change of desired or attention
state whatever state it claims to leave; that claim is still true, because the
revision is compared.

*Inbox.* `EffectAsRecorded`: the messages a Thread lists, and the Threads that
exist, are exactly those the settled records say. `HandledOnce` and
`SettledRouteIsFinal` are about concurrent deliveries and decisions.
`DurableInboxSpec`: whatever commands, Workers and other calls do in between, a
Thread's newest Run was told every message that changed the Thread, each once,
in the order of their transactions; nothing changes a closed Thread through a
message; each message has one outcome.

*Gate.* `RetriedOnlyIfNotFound`: between two provider calls for one intent some
reconciliation recorded NOT_FOUND. `InvokedOnlyIfApproved`,
`RefusedIsCancelled`, `NoStaleRequest` and `SettledActionIsFinal` are about
approvals and their effects racing. `ReceiptsTellTheStatus` relates rows and
receipts. `ActionLeaseSpec`: claims of an intent are a fenced lease service.

### Bounds, and why they are enough

- *Runs of a Thread: 2.* Exclusion, supersession and blocking are relations
  between two Runs; a third only repeats a pair. Threads share nothing but the
  order in which candidates are picked, so one Thread suffices.
- *Workers: 2.* A stale holder and a current one; with one slot in `retries`,
  because that run is about one worker that crashes and comes back.
- *MaxAttempts: 2* has a first, a retried and an exhausted attempt. `updates`
  uses 1 so that updates, two slots and verification fit; retry against update is
  in `retries`.
- *LeaseSeconds* 2 lets a lease be half over, so that an early and a late
  expiry differ; 1 is used where only expired or not matters.
- *LockWait 1* with 1- and 2-tick leases covers a reading that is stale by a
  whole lease and by part of one.
- *MaxTime* stops idle time and heartbeats in the queue, never a lease or a delay that is
  pending (`Tick`), so every lease granted by then can run out. In the gate time
  stops at 3: a lease of 2 granted at 0 or 1 can lapse and be followed by two
  more claims. `updates` and `retries` have MaxTime 0: time passes only while
  something is pending, so heartbeats happen only at time 0, and leases still
  expire.
- *MaxClaims 3* is the shortest history in which an intent is executed twice:
  execute, reconcile, execute.
- *Resource leases: 3 on 2 keys.* Conflicts relate two leases of one key; the
  third is a second reader, or the grant that comes after. Time stops at 3, so a
  1-tick lease can run out, be displaced, and the second run out too.
- *Messages: 3, Threads: 1.* One message starts the Task, one may belong to it
  or cancel it, one changes the method (a fork). The first may instead be a
  continuation of nothing, which leaves it open for a decision. No or several
  active Threads route alike (AMBIGUOUS), so a second Thread adds no route;
  Threads share no rows.
- *Callers: 2.* Two calls in flight; each race here is between two, and a caller
  starts a new call when one ended.
- *MaxCommanded 6, MaxWorked 8*: a Task's five events, then a command while the
  stream is shorter than 6, and Worker steps and replay checks while it is
  shorter than 8. Messages are never held back by them. So a Run may start, be
  checkpointed or end, a command may move the Thread before, between and after the
  steps of a call, and three messages may follow.
- *Kinds = {}*: a user who decides a route keeps the update kind the router found.
- *MaxCheckpoints* 1 or 0: a checkpoint is a counter that the reducer requires
  to grow.

### Fairness

`FairSpec` assumes that hosts keep polling (`WorkerHost` runs its loop for ever:
WF of `Claim`), that a call made on a lost claim returns its error (WF of
`LoseLease` with a current reading) and that time passes. It does **not** assume
that a worker finishes, heartbeats, starts or survives: jobs settle because
attempts are bounded and leases run out. `ExecFairSpec` is the same at the level
of the host (`Poll`, `GiveUp`, `Tick`). One thing no code provides is a bound on
how long an Executor runs: its heartbeat thread renews the lease for ever. That
heartbeats stop at `MaxTime` stands for Executors that return or die; without it
liveness fails.

## 5. What is proved

TLAPS checks the following for every set of Runs, Threads, Workers, Intents and
handlers and for all values of the numeric constants that satisfy
`SchedulerAssumption`, `NoClaimAssumption`, `ExecutionAssumption`,
`GateAssumption`, `ResourceAssumption`, `JournalAssumption`, `InboxAssumption` and
`TextAssumption`, which TLC evaluates in the runs. Nothing else is assumed; where a theorem needs
more, its statement says so.

**SchedulerProofs**

- `TypeCorrect`: `Spec => []TypeOK`. The only delicate part is that attempts stay
  within `MaxAttempts`, which depends on the sweep coming before the query.
- `Fencing`: `Spec => []FencedClaims`. The inductive invariant is `FencingInv`:
  `TypeOK`, `FencedClaims`, and that an absent row has token 0. The last part is
  needed because inserting a row sets the token to 0, which must not put it below
  a claim somebody holds. Holds for every `LockWait`.
- `MutualExclusion`: `OneLiveRunPerThread`, assuming `LockWait = 0`. The proof goes
  through `ClaimOrEnd`: every step is a claim of a Run whose Thread has no live
  lease, or only ends leases. Run `stale_clock` shows that the assumption cannot
  be dropped.
- `ImplementsFencedLease`: `Spec => LeaseSpec`, assuming `LockWait = 0`, with a Run
  held by its owner while its lease is unexpired.
- `NothingTakenEarly` (`NoStolenLease`), `HolderSettles` (`OnlyHolderSettles`),
  `SettledStays` (`TerminalIsFinal`) and `QueuedRuns` (`QueuedCanRun`), for every
  `LockWait`, all from the lemma `RowMoves`: a step leaves a row alone, creates it
  with no attempt spent, takes it (queued, or expired by the clock) under the next
  token, moves it by the holder of its token, or ends it.
- `NothingRevived`: `NeverRevived`, assuming `LockWait = 0`, without which a
  heartbeat with an old reading does revive a lease.

**ExecutionProofs** and **ExecutionInvariant**

- `ImplementsScheduler`: `ExecSpec => QueueSpec`. Each of the Execution's actions is
  an action of the queue or leaves it alone; so the theorems above hold of the
  execution with its hosts and users. The module also says, action by action,
  what becomes of the Thread (`SubmitEffect`, `StartEffect`, `SettleFailureEffect`
  and so on); the rest of the argument uses these and no longer the actions.
- `OneOpenRunPerThread`, `RunningRunIsActive`, `QueueAndThreadAgree`,
  `VerifiedDeliveries`, `ExecTypeCorrect` and `HolderCanAlwaysSettle` for
  `OneOpenRun`, `RunningIsActive`, `JobAndRunAgree`, `DeliveriesAreVerified`,
  `ExecTypeOK` and `HolderCanSettle`, and the action properties `EndedRunStays`
  (`EndedRunIsFrozen`) and `StaleAttemptsStay` (`StaleAttemptsAreFrozen`). None of
  the invariants is inductive alone. `ExecInv` is; beside them it says:
  - `FencingInv` of the queue, and `TokensAreAttempts`: a row's token is its number
    of attempts, so a claim's attempt is at most `MaxAttempts` and no two claims of
    a Run have the same. Two workers therefore never write the same Step.
  - `RunsAtHome`: a Run is on its own Thread only. With `OneOpenRun` it makes the
    Runs that an update supersedes exactly the open ones, which is why the
    update cannot leave two.
  - `HolderRuns`: past its start a current claim's Run is RUNNING. An update that
    ends the Run also ends its row, so the claim is then not current.
  - `StepsAsLeft`: every worker, however stale, finds the Steps of its attempt as
    its `phase` says; with `FutureStepsAbsent` a new claim finds none. The first is
    what makes a Delivery stand on Steps that succeeded.

**ActionGateProofs**

- `GateTypeCorrect`, `RefusalIsFinal`, `ApprovalGate`: from the invariant `GateInv`,
  which adds to `GateTypeOK` and `RefusedIsCancelled` what a row (`RowOK`) and a
  handler (`CallOK`) know: an intent that was ever claimed has its approval given,
  the provider was called only under tokens the row has issued, and so is the
  token of every handler that is past its claim.
- `RetryNeedsNotFound`: `RetriedOnlyIfNotFound` from `RetryInv`. A token is *spent*
  once the provider was called under it or a handler holds it ready to call. A
  PENDING intent with a positive token has a NOT_FOUND receipt at exactly that
  token, a token that is not spent; reconcilers' tokens never are; and between
  any two spent tokens lies the token of a NOT_FOUND receipt.
- `ImplementsActionLease`: `GateSpec => ActionLeaseSpec`, assuming
  `LockWait < ActionLease`. In the code the wait is at most 10 s and the lease
  30 s. A lease granted with a stale reading is then still alive when it is
  granted.
- `ReceiptsAgree`: `ReceiptsTellTheStatus`, with `ReceiptsOfClaims`: no receipt is of
  a claim newer than the row's, and the current claim has one only when it is
  over. So the next answer is the first for its claim, and only the newest claim
  can settle the intent.
- `SettledStays`: `SettledActionIsFinal`. A row moves in four ways (`RowCases`), and
  none of them leaves a settled status.
- `RequestsAreLive`: `NoStaleRequest`, by the steps that close an approval: each looks
  at the approvals left before it leaves the Thread asking.

**ResourceLeasesProofs**

- `ResourceTypeCorrect`, `UncontestedAlways`, from `ResourceInv == ResourceTypeOK /\
  Uncontested`. The tokens in `ResourceTypeOK` (between 1 and the last of the key)
  make a new lease the newest; the sweep that precedes the conflict check leaves
  no older conflicting one ACTIVE. Holds for every `LockWait`.
- `NothingStolen`: `NoStolenResource`. A reading is never ahead of the clock, so
  what is swept has run out.
- `ImplementsSharedLease`: `Spec => SharedLeaseSpec`: a grant is a `Give` with the
  swept rows ended, a release or a sweep an `End`, and a renewal or a tick a
  stutter, since `SharedLease` knows no time.

**InboxProofs**

- `OneHandling`, `RoutesAreFit`, `DecisionsStand`, from `InboxInv`: `Shapes` (what
  the tables and calls are functions of), `Routed` (a record in the table, or in
  the hands of a call that will store it, is well formed), `ToHandle` (a message
  about to be handed over is stored, was never handled, and is in the hands of
  one caller) and `HandledOnce`. The last needs `ToHandle`: the transaction that
  finds the key free is the only way to a hand-over, and it makes the key taken.
- These three use nothing of the reducer: whatever the events do, they hold.
- `StoredIsReplayed` (`ProjectionsReplay`), `JournalIsTrue` (`EventsTellTheirSource`),
  `EffectsAsRecorded` (`EffectAsRecorded`) and `InboxTypeCorrect` (`InboxTypeOK`),
  for streams of any length, from `StoryInv`: `InboxInv`, `JournalInv`, `Prepared` and
  `Recorded`. `JournalInv` says that what is stored is what its stream replays to
  (`Replayed`), that the events are true, and that what a call has read was true
  when it was read (`Reads`). `Prepared` says the same of an update: what it has
  seen is an earlier replay of the same stream. So when the revisions are equal
  the update holds the current state, and the drafts it made of it are true.
  `Recorded` is `EffectAsRecorded` by message and Thread.

**JournalProofs** has no theorem of its own; it holds the lemmas for these.

- *Induction.* `Reductions` is a recursive function. `TablesExist` and
  `ReductionsTable` give its recursion equation, and `SetInduction` (a set of
  naturals that has 0 and every successor is all of Nat, by a least
  counterexample) replaces the induction theorems, which the provers cannot
  instantiate. With them `ReplayOfConcat`: replaying a stream and then the drafts
  is replaying the stream they make.
- *Drafts.* `Draws(d, a, M, K)` says what a transaction needs to know of the events
  it appends: the messages they add, which of the marked types occur, and that
  each unchecked source is the one of `a`. It composes (`DrawsBoth`), so an update's
  long sequence is treated piece by piece.
- *Transactions.* `CommitKeeps` (what is stored replays, the events stay true, the
  messages added are those drawn), `CommitShapes`, `CommitMoves`, `CommitCreatesRun`
  (branches, births and contexts of Runs, the Thread's state).
- *Steps.* `JournalStep`: a Worker's or a command's step keeps `JournalInv` and is
  `Steady`: it adds no message, Thread or Run, tells no Run anything, opens no closed
  Thread and changes at most one.

**InboxRefinement**

- `ImplementsDurableInbox`: `InboxSpec => DurableInboxSpec`. The newest Run of a
  Thread is found in the projection (`Basis`) and what it was told in its context.
  A Task's transaction maps to `StartTask`, an update's to `ReviseThread` or
  `CancelThread`, storing a record without effect to `SetAside`, `Propose` or `Drop`;
  a command that closes a Thread to `Close`; the rest stutters. Added to `StoryInv`
  are `KnownDecisions` (a decision in flight is about a stored route and names an
  effect or drops it) and `SomeTold` (a Run was told something). The step that
  matters is `RevisionTells`: the context an update prepared from its own read is
  that of the Run it really follows, because the revision has not moved
  (`PastAtRevision`), and the Run it creates is then the newest on the branch.

## 6. What is only model-checked

- Liveness (`JobsSettle`, `RunsSettle`): fairness and ENABLED are beyond the
  prover.
- The four runs that expect a violation: the theorems above say nothing of what
  fails.

Every other invariant, action property and refinement that a passing run checks
is the property of a theorem in `PROJECT.json`. The assumptions `LockWait = 0`
(`MutualExclusion`, `NothingRevived`, `ImplementsFencedLease`) and
`LockWait < ActionLease` (`ImplementsActionLease`) are those of the runs too.

No module uses RECURSIVE operators.

## 7. Disagreements found

1. **A stale clock reading revives a lease** (run `stale_clock`,
   `repository.py:1430`). `heartbeat_run` reads the clock before it waits for the
   write lock. A holder whose lease ran out while it waited passes the check and
   extends its lease, beside a sibling Run claimed meanwhile.
   `docs/STATE_EVENT_SPEC.md:212`: "Only one claimed main Run per Thread is
   scheduled at a time."
2. **An exhausted job leaves its Run behind** (run `exhausted`,
   `repository.py:4979`). The sweep fails the job of an expired last attempt and
   does not touch the Thread; the Run stays RUNNING.
   `docs/V2_RUNTIME_CONTRACT.md:22`: "A scheduler job cannot become terminal
   independently from its Run."
3. **Attention loses a pending approval** (run `attention`,
   `repository.py:2125`). A Run that ends sets the attention whatever it was.
   `docs/STATE_EVENT_SPEC.md:204`: "While any Approval for a Thread is pending,
   its attention projection is `NEEDS_APPROVAL`". The gateway's own Runs are never
   claimed by a worker ("unassigned" executor), so this needs a caller that
   requests approvals for a worker's Run, which the repository's interface
   allows.
4. **A superseded Run's action can be executed again** (run `superseded`,
   `repository.py:3455`). Superseding cancels only PENDING intents. One that is
   EXECUTING or being reconciled keeps its approval; if a reconciliation answers
   NOT_FOUND, it is PENDING again, and the next delivery of the decision claims
   it. `docs/V2_003_DURABLE_THREAD_UPDATES.md:83`: "an old approval cannot later
   invoke a Provider." Reconciliation has no caller in the repository yet, so this
   too is about the interface.

## 8. What is not modelled

- **Of the journal**: a batch appended again under the event ids of an earlier
  one (every caller under `src/` draws fresh ids), create_thread, create_run,
  bind_run_snapshots and record_delivery as calls of their own (no code under
  `src/` makes them), and the streams of jobs, actions, resources and the inbox,
  from which nothing is reduced. The Execution takes a projection and its
  events as one; that this is sound is what `ProjectionsReplay` says.
- **Of the inbox**: several chats, actors and projects, and the checks that keep
  them apart; a key reused with another text (it raises before anything is
  written); active Threads passed in by the caller. The long connection acknowledges a
  message before it is stored (`feishu_long_connection.py:41`) and only logs a
  failure, so a message whose transaction raises is not sent again: that every
  message is stored in the end is not a property of the code.
- **Composition of Inbox and Execution**: the Worker in Journal has no claim, and
  the updates in Execution carry no message. Each module is free where the other
  is exact: any active Run may be worked on in Journal, any Thread updated in
  Execution.
- **Migrations** of older databases, run once before anything else.
- **The outbox**: written with each Delivery and listed; nothing acts on it.
- **Artifacts and snapshots**: hashing and file I/O; a snapshot matters here only
  through whether a Run has it bound.
- **Source tasks and the verifier**: pure functions of document content; the
  verdict is an input.
- **Feishu connector** beyond its two handlers' use of the inbox, **HTTP server, conversation agent, knowledge, memory, computer,
  security helpers, CLI, demo, configuration**: network and file I/O, text and
  argument handling, with no durable state the runtime shares.
