----------------------------- MODULE ActionGate -----------------------------
(***************************************************************************)
(* External actions of one Thread: the action_intents, runtime_approvals    *)
(* and action_receipts tables, the Thread's attention that approvals share  *)
(* with the Runs, and the handlers of DurableComputerActionGateway, which   *)
(* call the repository in several transactions around an await of the       *)
(* provider.  A Call is one handler in flight, or a reconciler, which the   *)
(* repository offers (for_reconciliation) and no code under src/ drives.    *)
(*                                                                          *)
(* An approval belongs to one intent, so an intent names both.  lease_id    *)
(* and fencing_token are renewed together and only by a claim: the token    *)
(* stands for both, and every gateway claims under the same worker id.      *)
(* What the provider answers is an input.  Redelivery of a message with     *)
(* other content (IdempotencyConflict) raises and is left out.  A receipt   *)
(* id is made of the intent and the token, so recording a claim twice is    *)
(* refused or returns the receipt: neither changes a table.                 *)
(***************************************************************************)
EXTENDS Integers

CONSTANTS
    Runs, Intents, Calls,
    RunOf,          \* the Run an intent belongs to
    Gated,          \* the intents created with requires_approval
    ActionLease,    \* lease_seconds of claim_action
    ApprovalTTL,    \* approval_ttl_seconds
    LockWait,       \* how old a clock reading may be once the lock is held
    MaxTime,        \* bound: the clock stops here
    MaxClaims,      \* bound: claims of an intent
    NoIntent

ASSUME GateAssumption ==
    /\ RunOf \in [Intents -> Runs]
    /\ Gated \subseteq Intents
    /\ ActionLease \in Nat \ {0}
    /\ ApprovalTTL \in Nat \ {0}
    /\ LockWait \in Nat
    /\ MaxTime \in Nat
    /\ MaxClaims \in Nat
    /\ NoIntent \notin Intents

ActionStatus == {"PENDING", "EXECUTING", "RECONCILE_REQUIRED", "RECOVERING",
                 "SUCCEEDED", "FAILED", "CANCELLED", "QUARANTINED"}
ApprovalState == {"PENDING", "APPROVED", "DENIED", "EXPIRED", "CANCELLED"}
ReceiptOutcome == {"SUCCEEDED", "FAILED", "NOT_FOUND", "UNKNOWN"}
Attention == {"NONE", "NEEDS_APPROVAL", "DELIVERY_READY", "FAILED"}
Leased == {"EXECUTING", "RECOVERING"}

\* "ABSENT" is no row; expires is meaningful while the row is leased.
Intent == [status : ActionStatus \cup {"ABSENT"}, token : Nat, expires : Nat]
Approval == [status : ApprovalState \cup {"ABSENT"}, expires : Nat]
Receipt == [intent : Intents, token : Nat \ {0}, outcome : ReceiptOutcome]

\* Where a handler stands between two of its repository calls.
Steps == {"submit", "repair", "decide", "deciding", "resume", "claim",
          "claiming", "claimed", "invoked", "reconciling"}
Decisions == {"APPROVED", "DENIED"}
Call == [at : Steps, intent : Intents, decision : Decisions, token : Nat]
Idle == [at |-> "idle", intent |-> NoIntent]

VARIABLES
    clock,      \* the wall clock
    runs,       \* "ABSENT", "OPEN", "ENDED" by its worker, or "CANCELLED"
    attention,  \* attention_state of the Thread
    intents, approvals,
    receipts,   \* the action_receipts rows
    calls,      \* what each handler is doing
    invoked     \* the tokens under which provider.run was called

tables == <<intents, approvals, attention, receipts>>
gateVars == <<clock, runs, tables, calls, invoked>>

-----------------------------------------------------------------------------
(* Reading the tables.                                                      *)

Readings == {t \in 0..clock : clock <= t + LockWait}

\* Mutant of LeaseOver: a lease may be taken over at any time.
LeaseHeld(i, now) == intents[i].status \in Leased

LeaseOver(i, now) == intents[i].status \in Leased /\ intents[i].expires <= now

\* Mutant of LiveActionClaim: the token is not compared.
LiveActionClaimOfAnyone(c, now) ==
    LET row == intents[calls[c].intent]
    IN  /\ row.status = IF calls[c].at = "reconciling" THEN "RECOVERING" ELSE "EXECUTING"
        /\ row.expires > now

\* _assert_live_action_claim
LiveActionClaim(c, now) ==
    LET row == intents[calls[c].intent]
    IN  /\ row.status = IF calls[c].at = "reconciling" THEN "RECOVERING" ELSE "EXECUTING"
        /\ row.token = calls[c].token
        /\ row.expires > now

Approved(i) == i \in Gated => approvals[i].status = "APPROVED"

AnyPending(table) == \E i \in Intents : table[i].status = "PENDING"

\* Attention once approvals have been decided or have lapsed.
ClearedUnlessPending(table) == IF AnyPending(table) THEN attention ELSE "NONE"

IntentTo(i, status) == [intents EXCEPT ![i].status = status]

At(c, step) == calls[c] # Idle /\ calls[c].at = step
Begin(c, step, i, d) ==
    /\ calls[c] = Idle
    /\ calls' = [calls EXCEPT ![c] =
            [at |-> step, intent |-> i, decision |-> d, token |-> 0]]
Goto(c, step) == calls' = [calls EXCEPT ![c].at = step]
Return(c) == calls' = [calls EXCEPT ![c] = Idle]

-----------------------------------------------------------------------------
(* The Thread around the gate.                                              *)

OpenRuns == {r \in Runs : runs[r] = "OPEN"}

\* Mutant of CancelActions: the Thread's attention is left as it is.
CancelActionsSilently(S) ==
    LET dropped == {i \in Intents : RunOf[i] \in S /\ intents[i].status = "PENDING"}
    IN  /\ intents' = [i \in Intents |->
                          IF i \in dropped THEN [intents[i] EXCEPT !.status = "CANCELLED"]
                          ELSE intents[i]]
        /\ approvals' = [i \in Intents |->
                            IF i \in dropped /\ approvals[i].status = "PENDING"
                            THEN [approvals[i] EXCEPT !.status = "CANCELLED"]
                            ELSE approvals[i]]
        /\ UNCHANGED <<attention, receipts>>

\* _cancel_pending_run_actions and the attention it leaves, for the Runs a
\* Thread update supersedes or cancels.
CancelActions(S) ==
    LET dropped == {i \in Intents : RunOf[i] \in S /\ intents[i].status = "PENDING"}
        decided == [i \in Intents |->
                        IF i \in dropped /\ approvals[i].status = "PENDING"
                        THEN [approvals[i] EXCEPT !.status = "CANCELLED"]
                        ELSE approvals[i]]
    IN  /\ intents' = [i \in Intents |->
                          IF i \in dropped THEN [intents[i] EXCEPT !.status = "CANCELLED"]
                          ELSE intents[i]]
        /\ approvals' = decided
        /\ attention' = IF attention = "NEEDS_APPROVAL"
                        THEN ClearedUnlessPending(decided) ELSE attention
        /\ UNCHANGED receipts

\* A new task, or an update that supersedes the open Run.
StartRun(r) ==
    /\ runs[r] = "ABSENT"
    /\ runs' = [o \in Runs |-> IF o = r THEN "OPEN"
                               ELSE IF o \in OpenRuns THEN "CANCELLED" ELSE runs[o]]
    /\ CancelActions(OpenRuns)
    /\ UNCHANGED <<clock, calls, invoked>>

CancelThread ==
    /\ OpenRuns # {}
    /\ runs' = [o \in Runs |-> IF o \in OpenRuns THEN "CANCELLED" ELSE runs[o]]
    /\ CancelActions(OpenRuns)
    /\ UNCHANGED <<clock, calls, invoked>>

\* finish_claimed_execution and finalize_claimed_delivery: completed (attention
\* kept), delivered or failed.  The Run's intents are left as they are.
EndRun(r, a) ==
    /\ runs[r] = "OPEN"
    /\ runs' = [runs EXCEPT ![r] = "ENDED"]
    /\ attention' = a
    /\ UNCHANGED <<clock, intents, approvals, receipts, calls, invoked>>

Tick == /\ clock < MaxTime
        /\ clock' = clock + 1
        /\ UNCHANGED <<runs, tables, calls, invoked>>

-----------------------------------------------------------------------------
(* Intents and approvals.                                                   *)

\* Mutant of CreateIntent: a redelivered message makes the intent PENDING again.
CreateIntentAgain(c, i) ==
    /\ runs[RunOf[i]] = "OPEN"
    /\ Begin(c, IF i \in Gated THEN "submit" ELSE "resume", i, "APPROVED")
    /\ intents' = IntentTo(i, "PENDING")
    /\ UNCHANGED <<clock, runs, attention, approvals, receipts, invoked>>

\* submit, first transaction: create_action_intent, idempotent by message.
CreateIntent(c, i) ==
    /\ runs[RunOf[i]] = "OPEN"
    /\ Begin(c, IF i \in Gated THEN "submit" ELSE "resume", i, "APPROVED")
    /\ intents' = IF intents[i].status = "ABSENT" THEN IntentTo(i, "PENDING") ELSE intents
    /\ UNCHANGED <<clock, runs, attention, approvals, receipts, invoked>>

\* recover_missing_approvals reads the PENDING intents that have no approval.
FindMissingApproval(c, i) ==
    /\ i \in Gated
    /\ intents[i].status = "PENDING"
    /\ approvals[i].status = "ABSENT"
    /\ Begin(c, "repair", i, "APPROVED")
    /\ UNCHANGED <<clock, runs, tables, invoked>>

\* create_approval, at most one an intent.  It does not look at the intent's
\* status.  submit goes on at once when the approval it finds is APPROVED.
CreateApproval(c, now) ==
    LET i == calls[c].intent
    IN  /\ At(c, "submit") \/ At(c, "repair")
        /\ IF approvals[i].status = "ABSENT"
           THEN /\ approvals' = [approvals EXCEPT ![i] =
                        [status |-> "PENDING", expires |-> now + ApprovalTTL]]
                /\ attention' = "NEEDS_APPROVAL"
           ELSE UNCHANGED <<approvals, attention>>
        /\ IF At(c, "submit") /\ approvals[i].status = "APPROVED"
           THEN Goto(c, "resume") ELSE Return(c)
        /\ UNCHANGED <<clock, runs, intents, receipts, invoked>>

\* Mutant of ExpireApprovals: the intent outlives its approval.
ExpireApprovalsOnly(now) ==
    LET lapsed == {i \in Intents : approvals[i].status = "PENDING"
                                    /\ approvals[i].expires <= now}
        left == [i \in Intents |-> IF i \in lapsed
                    THEN [approvals[i] EXCEPT !.status = "EXPIRED"] ELSE approvals[i]]
    IN  /\ approvals' = left
        /\ attention' = IF lapsed = {} THEN attention ELSE ClearedUnlessPending(left)
        /\ UNCHANGED <<clock, runs, intents, receipts, invoked>>

\* expire_pending_approvals
ExpireApprovals(now) ==
    LET lapsed == {i \in Intents : approvals[i].status = "PENDING"
                                    /\ approvals[i].expires <= now}
        left == [i \in Intents |-> IF i \in lapsed
                    THEN [approvals[i] EXCEPT !.status = "EXPIRED"] ELSE approvals[i]]
    IN  /\ approvals' = left
        /\ intents' = [i \in Intents |->
                          IF i \in lapsed /\ intents[i].status = "PENDING"
                          THEN [intents[i] EXCEPT !.status = "CANCELLED"] ELSE intents[i]]
        /\ attention' = IF lapsed = {} THEN attention ELSE ClearedUnlessPending(left)
        /\ UNCHANGED <<clock, runs, receipts, invoked>>

\* pending_approval_count, after its repair.
CountApprovals(now) == ExpireApprovals(now) /\ UNCHANGED calls

\* decide reads the approval: an APPROVED one that is approved again is acted on
\* at once, any other that is no longer PENDING is only reported.
Decide(c, i, d) ==
    /\ \/ approvals[i].status = "PENDING" /\ Begin(c, "decide", i, d)
       \/ approvals[i].status = "APPROVED" /\ d = "APPROVED" /\ Begin(c, "resume", i, d)
    /\ UNCHANGED <<clock, runs, tables, invoked>>

\* decide_approval and claim_action first expire approvals, in a transaction
\* of its own.
Sweep(c, now) ==
    /\ \/ At(c, "decide") /\ Goto(c, "deciding")
       \/ At(c, "claim") /\ Goto(c, "claiming")
    /\ ExpireApprovals(now)

\* Mutant of DecideApproval: a decision replaces an earlier one.
DecideApprovalAgain(c) ==
    LET i == calls[c].intent
        decided == [approvals EXCEPT ![i].status = calls[c].decision]
    IN  /\ At(c, "deciding")
        /\ approvals' = decided
        /\ intents' = IF calls[c].decision = "DENIED" /\ intents[i].status = "PENDING"
                      THEN IntentTo(i, "CANCELLED") ELSE intents
        /\ attention' = ClearedUnlessPending(decided)
        /\ IF approvals'[i].status = "APPROVED" THEN Goto(c, "resume") ELSE Return(c)
        /\ UNCHANGED <<clock, runs, receipts, invoked>>

\* decide_approval, then the gateway's look at the outcome.  It does not
\* compare expires_at with the clock again.
DecideApproval(c) ==
    LET i == calls[c].intent
        d == calls[c].decision
        decided == [approvals EXCEPT ![i].status = d]
    IN  /\ At(c, "deciding")
        /\ IF approvals[i].status = "PENDING"
           THEN /\ approvals' = decided
                /\ intents' = IF d = "DENIED" /\ intents[i].status = "PENDING"
                              THEN IntentTo(i, "CANCELLED") ELSE intents
                /\ attention' = ClearedUnlessPending(decided)
           ELSE UNCHANGED <<approvals, intents, attention>>
        /\ IF approvals'[i].status = "APPROVED" THEN Goto(c, "resume") ELSE Return(c)
        /\ UNCHANGED <<clock, runs, receipts, invoked>>

-----------------------------------------------------------------------------
(* Execution.                                                               *)

\* _execute_or_resume reads the intent before it claims it.
Resume(c) ==
    /\ At(c, "resume")
    /\ IF intents[calls[c].intent].status = "PENDING" THEN Goto(c, "claim") ELSE Return(c)
    /\ UNCHANGED <<clock, runs, tables, invoked>>

\* The row and the claim of a granted lease.
Grant(c, i, status, step, now) ==
    LET token == intents[i].token + 1
    IN  /\ token <= MaxClaims
        /\ intents' = [intents EXCEPT ![i] =
                [status |-> status, token |-> token, expires |-> now + ActionLease]]
        /\ calls' = [calls EXCEPT ![c] =
                [at |-> step, intent |-> i, decision |-> "APPROVED", token |-> token]]
        /\ UNCHANGED <<clock, runs, attention, approvals, receipts, invoked>>

\* Mutant of Claimable: what may have executed is simply executed again.
ClaimableAgain(i) == Approved(i) /\ intents[i].status \in {"PENDING", "RECONCILE_REQUIRED"}

Claimable(i) == Approved(i) /\ intents[i].status = "PENDING"

\* claim_action.  A claim that is refused leaves no trace: what it marked
\* RECONCILE_REQUIRED is rolled back with the transaction that raises.
ClaimAction(c, now) ==
    /\ At(c, "claiming")
    /\ Claimable(calls[c].intent)
    /\ Grant(c, calls[c].intent, "EXECUTING", "claimed", now)

ClaimRefused(c) ==
    /\ At(c, "claiming")
    /\ ~Claimable(calls[c].intent)
    /\ Return(c)
    /\ UNCHANGED <<clock, runs, tables, invoked>>

\* claim_action for_reconciliation: here the mark is committed with the claim,
\* and a live claim of another reconciler is refused.
ClaimForReconciliation(c, i, now) ==
    /\ calls[c] = Idle
    /\ intents[i].status = "RECONCILE_REQUIRED" \/ LeaseOver(i, now)
    /\ Grant(c, i, "RECOVERING", "reconciling", now)

\* recover_incomplete_actions
RecoverIncomplete(now) ==
    /\ intents' = [i \in Intents |-> IF LeaseOver(i, now)
                        THEN [intents[i] EXCEPT !.status = "RECONCILE_REQUIRED", !.expires = 0]
                        ELSE intents[i]]
    /\ UNCHANGED <<clock, runs, attention, approvals, receipts, calls, invoked>>

\* provider.run is called outside any transaction, however old the claim is.
Invoke(c) ==
    /\ At(c, "claimed")
    /\ invoked' = [invoked EXCEPT ![calls[c].intent] = @ \cup {calls[c].token}]
    /\ Goto(c, "invoked")
    /\ UNCHANGED <<clock, runs, tables>>

\* Mutant of Settled: the answer is taken for the status.
SettledAsAnswered(outcome) == outcome

Settled(outcome) ==
    CASE outcome = "SUCCEEDED" -> "SUCCEEDED"
      [] outcome = "FAILED"    -> "FAILED"
      [] outcome = "NOT_FOUND" -> "PENDING"
      [] outcome = "UNKNOWN"   -> "RECONCILE_REQUIRED"

\* record_action_receipt.  The gateway's provider cannot answer NOT_FOUND.
RecordReceipt(c, outcome, now) ==
    LET i == calls[c].intent
    IN  /\ \/ At(c, "reconciling")
           \/ At(c, "invoked") /\ outcome # "NOT_FOUND"
        /\ LiveActionClaim(c, now)
        /\ receipts' = receipts \cup
                {[intent |-> i, token |-> calls[c].token, outcome |-> outcome]}
        /\ intents' = [intents EXCEPT ![i].status = Settled(outcome), ![i].expires = 0]
        /\ Return(c)
        /\ UNCHANGED <<clock, runs, attention, approvals, invoked>>

\* StaleLease leaves the handler, or the process dies; restarts only read.
Abandon(c) ==
    /\ calls[c] # Idle
    /\ Return(c)
    /\ UNCHANGED <<clock, runs, tables, invoked>>

-----------------------------------------------------------------------------

GateInit ==
    /\ clock = 0
    /\ runs = [r \in Runs |-> "ABSENT"]
    /\ attention = "NONE"
    /\ intents = [i \in Intents |-> [status |-> "ABSENT", token |-> 0, expires |-> 0]]
    /\ approvals = [i \in Intents |-> [status |-> "ABSENT", expires |-> 0]]
    /\ receipts = {}
    /\ calls = [c \in Calls |-> Idle]
    /\ invoked = [i \in Intents |-> {}]

ThreadStep ==
    \/ \E r \in Runs : StartRun(r) \/ \E a \in {attention, "DELIVERY_READY", "FAILED"} : EndRun(r, a)
    \/ CancelThread

RowStep(now) == CountApprovals(now) \/ RecoverIncomplete(now)

CallStep(c, now) ==
    \/ \E i \in Intents :
            \/ CreateIntent(c, i)
            \/ FindMissingApproval(c, i)
            \/ \E d \in Decisions : Decide(c, i, d)
            \/ ClaimForReconciliation(c, i, now)
    \/ CreateApproval(c, now)
    \/ Sweep(c, now)
    \/ DecideApproval(c)
    \/ Resume(c)
    \/ ClaimAction(c, now)
    \/ ClaimRefused(c)
    \/ Invoke(c)
    \/ \E outcome \in ReceiptOutcome : RecordReceipt(c, outcome, now)
    \/ Abandon(c)

GateNext ==
    \/ ThreadStep
    \/ \E now \in Readings : RowStep(now) \/ \E c \in Calls : CallStep(c, now)
    \/ Tick

GateSpec == GateInit /\ [][GateNext]_gateVars

-----------------------------------------------------------------------------
(* Properties.                                                              *)

GateTypeOK ==
    /\ clock \in Nat
    /\ runs \in [Runs -> {"ABSENT", "OPEN", "ENDED", "CANCELLED"}]
    /\ attention \in Attention
    /\ intents \in [Intents -> Intent]
    /\ approvals \in [Intents -> Approval]
    /\ receipts \subseteq Receipt
    /\ calls \in [Calls -> Call \cup {Idle}]
    /\ invoked \in [Intents -> SUBSET (Nat \ {0})]

\* V2_002: only one caller can claim and execute an intent, and what may have
\* run is not blindly retried.  Between two calls of the provider for an intent
\* a reconciliation was told that the first had not happened.
RetriedOnlyIfNotFound ==
    \A i \in Intents : \A a, b \in invoked[i] : a < b =>
        \E r \in receipts : r.intent = i /\ a < r.token /\ r.token < b /\ r.outcome = "NOT_FOUND"

\* STATE_EVENT_SPEC, Action state: whatever expiry, cancellation and claims
\* race with the decision, the provider is called for a gated intent only with
\* its approval given, and nothing takes the approval back once it was called.
InvokedOnlyIfApproved ==
    \A i \in Gated : invoked[i] # {} => approvals[i].status = "APPROVED"

\* A denied or expired approval leaves no intent behind that could still run,
\* and an approval still open belongs to an intent nobody has claimed.
RefusedIsCancelled ==
    \A i \in Intents :
        /\ approvals[i].status \in {"DENIED", "EXPIRED"} => intents[i].status = "CANCELLED"
        /\ approvals[i].status = "PENDING" => intents[i].status \in {"PENDING", "CANCELLED"}

\* The row and the receipts tell one story: an intent has settled if and only if
\* its newest claim left a final receipt, and no claim left two receipts,
\* whichever claims lapse, come back late or are reconciled meanwhile.
ReceiptsTellTheStatus ==
    /\ \A i \in Intents, s \in {"SUCCEEDED", "FAILED"} :
            intents[i].status = s <=>
                [intent |-> i, token |-> intents[i].token, outcome |-> s] \in receipts
    /\ \A q, r \in receipts : q.intent = r.intent /\ q.token = r.token => q = r

\* The Thread asks for an approval only while one is pending: no order of
\* decisions, expiries and cancellations leaves the request standing.
NoStaleRequest == attention = "NEEDS_APPROVAL" => AnyPending(approvals)

\* An action that has settled is never claimed, cancelled or settled again: a
\* message redelivered late, an expiry or a late answer finds it as it was.
SettledActionIsFinal ==
    [][\A i \in Intents : intents[i].status \in {"SUCCEEDED", "FAILED", "CANCELLED"}
            => intents'[i] = intents[i]]_gateVars

\* STATE_EVENT_SPEC, Action state: while any approval of a Thread is pending, its
\* attention is NEEDS_APPROVAL.
PendingShows == AnyPending(approvals) => attention = "NEEDS_APPROVAL"

\* V2_003: the intents of a superseded Run are cancelled with it, so that an old
\* approval cannot later invoke a provider.
CancelledRunIsQuiet ==
    [][\A i \in Intents : runs[RunOf[i]] = "CANCELLED" /\ intents[i].status # "EXECUTING"
            => intents'[i].status # "EXECUTING"]_gateVars

-----------------------------------------------------------------------------
(* The lease service that the claims of an intent implement.                *)

Held(i) == intents[i].status \in Leased /\ intents[i].expires > clock

ActionLeases == INSTANCE FencedLease WITH
    Units <- Intents, Groups <- Intents, GroupOf <- [i \in Intents |-> i],
    Holders <- {"claimed"}, Nobody <- "free",
    holder <- [i \in Intents |-> IF Held(i) THEN "claimed" ELSE "free"],
    token  <- [i \in Intents |-> intents[i].token]

\* The claims of an intent are a fenced lease service: one at a time, each with
\* a larger token, none that comes back after its lease has run out.
ActionLeaseSpec == ActionLeases!Spec
=============================================================================
