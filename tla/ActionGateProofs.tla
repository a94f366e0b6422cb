-------------------------- MODULE ActionGateProofs --------------------------
(* Theorems about external actions, for every number of intents, handlers   *)
(* and claims, every lease and approval length, and stale clock readings.   *)
EXTENDS ActionGate, TLAPS

USE GateAssumption

-----------------------------------------------------------------------------
(* What a handler's step does to the handlers.                              *)

CallsType == calls \in [Calls -> Call \cup {Idle}]

LEMMA IdleIsNoCall == Idle \notin Call
  BY DEF Idle, Call, Steps

LEMMA GotoFacts ==
    ASSUME CallsType, NEW c \in Calls, calls[c] # Idle, NEW step \in Steps, Goto(c, step)
    PROVE  /\ CallsType'
           /\ calls[c] \in Call
           /\ calls'[c] # Idle
           /\ calls'[c].at = step
           /\ calls'[c].intent = calls[c].intent
           /\ calls'[c].token = calls[c].token
           /\ \A d \in Calls \ {c} : calls'[d] = calls[d]
<1>1. calls[c] \in Call
  BY DEF CallsType
<1> DEFINE new == [calls[c] EXCEPT !.at = step]
<1>2. new \in Call /\ new.at = step /\ new.intent = calls[c].intent /\ new.token = calls[c].token
  BY <1>1 DEF Call
<1>3. calls' = [calls EXCEPT ![c] = new]
  BY DEF Goto
<1> HIDE DEF new
<1> QED
  BY <1>1, <1>2, <1>3, IdleIsNoCall DEF CallsType

LEMMA ReturnFacts ==
    ASSUME CallsType, NEW c \in Calls, Return(c)
    PROVE  /\ CallsType'
           /\ \A d \in Calls : calls'[d] # Idle => calls'[d] = calls[d] /\ d # c
  BY DEF Return, CallsType

LEMMA BeginFacts ==
    ASSUME CallsType, NEW c \in Calls, NEW step \in Steps, NEW i \in Intents,
           NEW d \in Decisions, Begin(c, step, i, d)
    PROVE  /\ CallsType'
           /\ calls'[c].at = step /\ calls'[c].intent = i /\ calls'[c].token = 0
           /\ \A e \in Calls \ {c} : calls'[e] = calls[e]
  BY DEF Begin, CallsType, Call

-----------------------------------------------------------------------------
(* What the transactions do to the tables.                                  *)

RowTypes == intents \in [Intents -> Intent] /\ approvals \in [Intents -> Approval]

\* The rows that a step closes: open approvals that end otherwise than by a
\* decision, and intents that were still waiting.
OnlyCloses ==
    \A i \in Intents :
        /\ intents'[i].token = intents[i].token
        /\ \/ intents'[i] = intents[i]
           \/ intents[i].status = "PENDING" /\ intents'[i].status = "CANCELLED"
        /\ \/ approvals'[i] = approvals[i]
           \/ /\ approvals[i].status = "PENDING"
              /\ approvals'[i].status \in {"EXPIRED", "CANCELLED"}
              /\ intents[i].status = "PENDING" => intents'[i].status = "CANCELLED"

LEMMA CancelFacts ==
    ASSUME RowTypes, attention \in Attention, NEW S, CancelActions(S)
    PROVE  RowTypes' /\ attention' \in Attention /\ OnlyCloses /\ receipts' = receipts
<1>1. attention' \in Attention /\ receipts' = receipts
  BY DEF CancelActions, ClearedUnlessPending, Attention
<1>2. \A i \in Intents :
        /\ [intents[i] EXCEPT !.status = "CANCELLED"] \in Intent
        /\ [intents[i] EXCEPT !.status = "CANCELLED"].status = "CANCELLED"
        /\ [intents[i] EXCEPT !.status = "CANCELLED"].token = intents[i].token
        /\ [approvals[i] EXCEPT !.status = "CANCELLED"] \in Approval
        /\ [approvals[i] EXCEPT !.status = "CANCELLED"].status = "CANCELLED"
  BY DEF RowTypes, Intent, Approval, ActionStatus, ApprovalState
<1> QED
  BY <1>1, <1>2 DEF CancelActions, RowTypes, OnlyCloses

LEMMA ExpireFacts ==
    ASSUME RowTypes, attention \in Attention, NEW now \in Nat, ExpireApprovals(now)
    PROVE  /\ RowTypes' /\ attention' \in Attention /\ OnlyCloses
           /\ UNCHANGED <<clock, runs, receipts, invoked>>
<1>1. attention' \in Attention /\ UNCHANGED <<clock, runs, receipts, invoked>>
  BY DEF ExpireApprovals, ClearedUnlessPending, Attention
<1>2. \A i \in Intents :
        /\ [intents[i] EXCEPT !.status = "CANCELLED"] \in Intent
        /\ [intents[i] EXCEPT !.status = "CANCELLED"].status = "CANCELLED"
        /\ [intents[i] EXCEPT !.status = "CANCELLED"].token = intents[i].token
        /\ [approvals[i] EXCEPT !.status = "EXPIRED"] \in Approval
        /\ [approvals[i] EXCEPT !.status = "EXPIRED"].status = "EXPIRED"
  BY DEF RowTypes, Intent, Approval, ActionStatus, ApprovalState
<1> QED
  BY <1>1, <1>2 DEF ExpireApprovals, RowTypes, OnlyCloses

\* A granted claim: the next token, held by one handler.
LEMMA GrantFacts ==
    ASSUME CallsType, RowTypes, NEW c \in Calls, NEW i \in Intents, NEW now \in Nat,
           NEW status \in Leased, NEW step \in {"claimed", "reconciling"},
           Grant(c, i, status, step, now)
    PROVE  /\ CallsType' /\ RowTypes'
           /\ intents'[i].status = status
           /\ intents'[i].token = intents[i].token + 1
           /\ intents'[i].expires = now + ActionLease
           /\ \A j \in Intents \ {i} : intents'[j] = intents[j]
           /\ calls'[c].at = step /\ calls'[c].intent = i
           /\ calls'[c].token = intents[i].token + 1
           /\ \A d \in Calls \ {c} : calls'[d] = calls[d]
           /\ UNCHANGED <<clock, runs, attention, approvals, receipts, invoked>>
<1> DEFINE token == intents[i].token + 1
           row == [status |-> status, token |-> token, expires |-> now + ActionLease]
           call == [at |-> step, intent |-> i, decision |-> "APPROVED", token |-> token]
<1>1. token \in Nat /\ now + ActionLease \in Nat
  BY DEF RowTypes, Intent
<1>2. row \in Intent /\ call \in Call
  BY <1>1 DEF Intent, Call, Leased, ActionStatus, Steps, Decisions
<1>3. /\ intents' = [intents EXCEPT ![i] = row]
      /\ calls' = [calls EXCEPT ![c] = call]
      /\ UNCHANGED <<clock, runs, attention, approvals, receipts, invoked>>
  BY DEF Grant
<1>4. intents'[i] = row /\ calls'[c] = call
  BY <1>3 DEF RowTypes, CallsType
<1>5. /\ CallsType' /\ RowTypes'
      /\ \A j \in Intents \ {i} : intents'[j] = intents[j]
      /\ \A d \in Calls \ {c} : calls'[d] = calls[d]
  <2> HIDE DEF row, call
  <2> QED
    BY <1>2, <1>3 DEF RowTypes, CallsType
<1> QED
  BY <1>3, <1>4, <1>5

-----------------------------------------------------------------------------
(* The gate.  A handler that holds a claim holds a token its row has given  *)
(* out; a row that has given a token out has its approval; and an approval  *)
(* is only created for an intent no claim has touched.                      *)

HoldingSteps == {"claimed", "invoked", "reconciling"}

CallOK(c) ==
    calls[c] # Idle =>
        /\ calls[c].at \in HoldingSteps => calls[c].token > 0
        /\ calls[c].token <= intents[calls[c].intent].token
        /\ calls[c].at \in {"submit", "repair"} =>
                calls[c].intent \in Gated /\ intents[calls[c].intent].status # "ABSENT"

RowOK(i) ==
    /\ i \notin Gated => approvals[i].status = "ABSENT"
    /\ intents[i].token > 0 => Approved(i)
    /\ intents[i].token = 0 => intents[i].status \in {"ABSENT", "PENDING", "CANCELLED"}
    /\ \A a \in invoked[i] : a <= intents[i].token

GateInv ==
    /\ GateTypeOK
    /\ RefusedIsCancelled
    /\ \A i \in Intents : RowOK(i)
    /\ \A c \in Calls : CallOK(c)

LEMMA GateInitOK == GateInit => GateInv
<1> SUFFICES ASSUME GateInit PROVE GateInv
  OBVIOUS
<1>1. GateTypeOK
  BY DEF GateInit, GateTypeOK, Attention, Intent, Approval
<1>2. RefusedIsCancelled /\ \A i \in Intents : RowOK(i)
  BY DEF GateInit, RefusedIsCancelled, RowOK
<1>3. \A c \in Calls : CallOK(c)
  BY DEF GateInit, CallOK
<1> QED
  BY <1>1, <1>2, <1>3 DEF GateInv

\* A step that only closes rows keeps what is said of them.
LEMMA RowsKept ==
    ASSUME GateInv, OnlyCloses, UNCHANGED invoked
    PROVE  RefusedIsCancelled' /\ \A i \in Intents : RowOK(i)'
<1> SUFFICES ASSUME NEW i \in Intents
             PROVE  /\ RowOK(i)'
                    /\ approvals'[i].status \in {"DENIED", "EXPIRED"} => intents'[i].status = "CANCELLED"
                    /\ approvals'[i].status = "PENDING" => intents'[i].status \in {"PENDING", "CANCELLED"}
  BY DEF RefusedIsCancelled
<1>1. RowOK(i) /\ intents[i] \in Intent
  BY DEF GateInv, GateTypeOK
<1>2. /\ approvals[i].status \in {"DENIED", "EXPIRED"} => intents[i].status = "CANCELLED"
      /\ approvals[i].status = "PENDING" => intents[i].status \in {"PENDING", "CANCELLED"}
  BY DEF GateInv, RefusedIsCancelled
<1>3. /\ intents'[i].token = intents[i].token
      /\ \/ intents'[i] = intents[i]
         \/ intents[i].status = "PENDING" /\ intents'[i].status = "CANCELLED"
      /\ \/ approvals'[i] = approvals[i]
         \/ /\ approvals[i].status = "PENDING"
            /\ approvals'[i].status \in {"EXPIRED", "CANCELLED"}
            /\ intents[i].status = "PENDING" => intents'[i].status = "CANCELLED"
  BY DEF OnlyCloses
<1>4. RowOK(i)'
  BY <1>1, <1>2, <1>3 DEF RowOK, Approved, Intent
<1> QED
  BY <1>2, <1>3, <1>4

\* Handlers keep their claims while no row gives up a token or disappears.
LEMMA CallsKept ==
    ASSUME GateInv,
           \A i \in Intents :
                /\ intents'[i].token = intents[i].token
                /\ intents[i].status # "ABSENT" => intents'[i].status # "ABSENT",
           NEW c \in Calls,
           calls'[c] # Idle =>
                /\ calls[c] # Idle
                /\ calls'[c].intent = calls[c].intent
                /\ calls'[c].token = calls[c].token
                /\ calls'[c].at \in HoldingSteps => calls[c].at \in HoldingSteps
                /\ calls'[c].at \in {"submit", "repair"} => calls'[c].at = calls[c].at
    PROVE  CallOK(c)'
<1>1. CASE calls'[c] = Idle
  BY <1>1 DEF CallOK
<1>2. CASE calls'[c] # Idle
  <2>1. CallOK(c) /\ calls[c] \in Call
    BY <1>2 DEF GateInv, GateTypeOK
  <2>2. calls[c].intent \in Intents
    BY <2>1 DEF Call
  <2> QED
    BY <1>2, <2>1, <2>2 DEF CallOK
<1> QED
  BY <1>1, <1>2

\* The same, for a handler that moves on without a claim.
LEMMA GotoKept ==
    ASSUME GateInv, NEW c \in Calls, calls[c] # Idle, NEW step \in Steps \ {"submit", "repair"},
           step \in HoldingSteps => calls[c].at \in HoldingSteps,
           Goto(c, step),
           \A i \in Intents :
                /\ intents'[i].token = intents[i].token
                /\ intents[i].status # "ABSENT" => intents'[i].status # "ABSENT"
    PROVE  CallsType' /\ \A d \in Calls : CallOK(d)'
<1>1. CallsType
  BY DEF GateInv, GateTypeOK, CallsType
<1>2. /\ CallsType'
      /\ calls'[c].at = step
      /\ calls'[c].intent = calls[c].intent
      /\ calls'[c].token = calls[c].token
      /\ \A d \in Calls \ {c} : calls'[d] = calls[d]
  BY <1>1, GotoFacts
<1>3. ASSUME NEW d \in Calls PROVE CallOK(d)'
  <2>1. CASE d = c
    BY <1>2, <2>1, CallsKept
  <2>2. CASE d # c
    BY <1>2, <2>2, CallsKept
  <2> QED
    BY <2>1, <2>2
<1> QED
  BY <1>2, <1>3

LEMMA ReturnKept ==
    ASSUME GateInv, NEW c \in Calls, Return(c),
           \A i \in Intents :
                /\ intents'[i].token = intents[i].token
                /\ intents[i].status # "ABSENT" => intents'[i].status # "ABSENT"
    PROVE  CallsType' /\ \A d \in Calls : CallOK(d)'
<1>1. CallsType
  BY DEF GateInv, GateTypeOK, CallsType
<1>2. CallsType' /\ \A d \in Calls : calls'[d] # Idle => calls'[d] = calls[d]
  BY <1>1, ReturnFacts
<1> QED
  BY <1>2, CallsKept

LEMMA BeginKept ==
    ASSUME GateInv, NEW c \in Calls, NEW step \in Steps \ HoldingSteps, NEW i \in Intents,
           NEW d \in Decisions, Begin(c, step, i, d),
           step \in {"submit", "repair"} => i \in Gated /\ intents'[i].status # "ABSENT",
           \A j \in Intents :
                /\ intents'[j].token = intents[j].token
                /\ intents[j].status # "ABSENT" => intents'[j].status # "ABSENT"
    PROVE  CallsType' /\ \A e \in Calls : CallOK(e)'
<1>1. CallsType /\ intents[i].token \in Nat
  BY DEF GateInv, GateTypeOK, CallsType, Intent
<1>2. /\ CallsType'
      /\ calls'[c].at = step /\ calls'[c].intent = i /\ calls'[c].token = 0
      /\ \A e \in Calls \ {c} : calls'[e] = calls[e]
  BY <1>1, BeginFacts
<1>3. CallOK(c)'
  BY <1>1, <1>2 DEF CallOK
<1>4. \A e \in Calls \ {c} : CallOK(e)'
  BY <1>2, CallsKept
<1> QED
  BY <1>2, <1>3, <1>4

LEMMA ReadingIsNat == ASSUME GateTypeOK, NEW now \in Readings PROVE now \in Nat
  BY DEF Readings, GateTypeOK

\* Closing rows keeps the handlers too.
LEMMA CloseFacts ==
    ASSUME OnlyCloses
    PROVE  \A i \in Intents :
                /\ intents'[i].token = intents[i].token
                /\ intents[i].status # "ABSENT" => intents'[i].status # "ABSENT"
  BY DEF OnlyCloses

LEMMA NothingCloses ==
    ASSUME UNCHANGED <<intents, approvals>>
    PROVE  OnlyCloses
  BY DEF OnlyCloses


LEMMA ThreadKeepsGate ==
    ASSUME GateInv, ThreadStep \/ Tick \/ UNCHANGED gateVars
    PROVE  GateInv'
<1>0. /\ GateTypeOK /\ RowTypes /\ CallsType
  BY DEF GateInv, GateTypeOK, RowTypes, CallsType
<1> DEFINE RunStates == {"ABSENT", "OPEN", "ENDED", "CANCELLED"}
<1>1. ASSUME NEW S, CancelActions(S), runs' \in [Runs -> RunStates],
             UNCHANGED <<clock, calls, invoked>>
      PROVE  GateInv'
  <2>1. RowTypes' /\ attention' \in Attention /\ OnlyCloses /\ receipts' = receipts
    BY <1>0, <1>1, CancelFacts DEF GateTypeOK
  <2>2. GateTypeOK'
    BY <1>0, <1>1, <2>1 DEF GateTypeOK, RowTypes
  <2>3. \A c \in Calls : CallOK(c)'
    BY <1>1, <2>1, CloseFacts, CallsKept
  <2> QED
    BY <1>1, <2>1, <2>2, <2>3, RowsKept DEF GateInv
<1>2. ASSUME NEW r \in Runs, StartRun(r)
      PROVE  GateInv'
  BY <1>0, <1>1, <1>2 DEF StartRun, GateTypeOK
<1>3. CASE CancelThread
  BY <1>0, <1>1, <1>3 DEF CancelThread, GateTypeOK
<1>4. ASSUME \/ \E r \in Runs : \E a \in {attention, "DELIVERY_READY", "FAILED"} : EndRun(r, a)
             \/ Tick
             \/ UNCHANGED gateVars
      PROVE  GateInv'
  <2>1. UNCHANGED <<intents, approvals, receipts, calls, invoked>>
    BY <1>4 DEF EndRun, Tick, gateVars, tables
  <2>2. GateTypeOK'
    BY <1>0, <1>4 DEF EndRun, Tick, gateVars, tables, GateTypeOK, Attention
  <2>3. \A c \in Calls : CallOK(c)'
    BY <2>1, CallsKept
  <2> QED
    BY <2>1, <2>2, <2>3, NothingCloses, RowsKept DEF GateInv
<1> QED
  BY <1>2, <1>3, <1>4 DEF ThreadStep

LEMMA RowStepKeepsGate ==
    ASSUME GateInv, NEW now \in Readings, RowStep(now)
    PROVE  GateInv'
<1>0. GateTypeOK /\ RowTypes /\ CallsType /\ now \in Nat
  BY ReadingIsNat DEF GateInv, GateTypeOK, RowTypes, CallsType
<1>1. CASE CountApprovals(now)
  <2>1. /\ RowTypes' /\ attention' \in Attention /\ OnlyCloses
        /\ UNCHANGED <<clock, runs, receipts, invoked, calls>>
    BY <1>0, <1>1, ExpireFacts DEF CountApprovals, GateTypeOK
  <2>2. GateTypeOK'
    BY <1>0, <2>1 DEF GateTypeOK, RowTypes
  <2>3. \A c \in Calls : CallOK(c)'
    BY <2>1, CloseFacts, CallsKept
  <2> QED
    BY <2>1, <2>2, <2>3, RowsKept DEF GateInv
<1>2. CASE RecoverIncomplete(now)
  <2> DEFINE marked(i) == [intents[i] EXCEPT !.status = "RECONCILE_REQUIRED", !.expires = 0]
  <2>1. \A i \in Intents : /\ marked(i) \in Intent /\ marked(i).token = intents[i].token
                           /\ marked(i).status = "RECONCILE_REQUIRED"
    BY <1>0 DEF RowTypes, Intent, ActionStatus
  <2>2. /\ intents' = [i \in Intents |-> IF LeaseOver(i, now) THEN marked(i) ELSE intents[i]]
        /\ UNCHANGED <<clock, runs, attention, approvals, receipts, calls, invoked>>
    BY <1>2 DEF RecoverIncomplete
  <2> HIDE DEF marked
  <2>3. \A i \in Intents :
            /\ intents'[i] \in Intent /\ intents'[i].token = intents[i].token
            /\ \/ intents'[i] = intents[i]
               \/ intents[i].status \in Leased /\ intents'[i].status = "RECONCILE_REQUIRED"
    BY <1>0, <2>1, <2>2 DEF LeaseOver, RowTypes
  <2>4. GateTypeOK'
    BY <1>0, <2>2, <2>3 DEF GateTypeOK
  <2>5. \A c \in Calls : CallOK(c)'
    BY <2>2, <2>3, CallsKept
  <2>6. RefusedIsCancelled'
    BY <2>2, <2>3 DEF GateInv, RefusedIsCancelled, Leased
  <2>7. \A i \in Intents : RowOK(i)'
    BY <2>2, <2>3 DEF GateInv, RowOK, Approved, Leased
  <2> QED
    BY <2>4, <2>5, <2>6, <2>7 DEF GateInv
<1> QED
  BY <1>1, <1>2 DEF RowStep

\* Approvals and intents change here: one step for each call of a handler.
LEMMA CallStepKeepsGate ==
    ASSUME GateInv, NEW now \in Readings, NEW c \in Calls, CallStep(c, now)
    PROVE  GateInv'
<1>0. /\ GateTypeOK /\ RowTypes /\ CallsType /\ now \in Nat
      /\ RefusedIsCancelled /\ \A i \in Intents : RowOK(i)
  BY ReadingIsNat DEF GateInv, GateTypeOK, RowTypes, CallsType
<1>q. \* a step that leaves the rows alone
      ASSUME CallsType', \A d \in Calls : CallOK(d)', UNCHANGED <<clock, runs, tables, invoked>>
      PROVE  GateInv'
  <2>1. GateTypeOK'
    BY <1>0, <1>q DEF GateTypeOK, CallsType, tables
  <2> QED
    BY <1>q, <2>1, NothingCloses, RowsKept DEF GateInv, tables
<1>r. \* the intent of a handler
      ASSUME calls[c] # Idle
      PROVE  calls[c] \in Call /\ calls[c].intent \in Intents /\ CallOK(c)
  BY <1>0, <1>r DEF GateInv, CallsType, Call
<1>1. ASSUME NEW i \in Intents, CreateIntent(c, i)
      PROVE  GateInv'
  <2> DEFINE step == IF i \in Gated THEN "submit" ELSE "resume"
             row == [intents[i] EXCEPT !.status = "PENDING"]
  <2>1. /\ Begin(c, step, i, "APPROVED")
        /\ intents' = IF intents[i].status = "ABSENT" THEN [intents EXCEPT ![i] = row] ELSE intents
        /\ UNCHANGED <<clock, runs, attention, approvals, receipts, invoked>>
    BY <1>1 DEF CreateIntent, IntentTo
  <2>2. row \in Intent /\ row.token = intents[i].token /\ row.status = "PENDING"
    BY <1>0 DEF RowTypes, Intent, ActionStatus
  <2> HIDE DEF row
  <2>3. \A j \in Intents :
            /\ intents'[j] \in Intent /\ intents'[j].token = intents[j].token
            /\ \/ intents'[j] = intents[j]
               \/ intents[j].status = "ABSENT" /\ intents'[j].status = "PENDING"
    <3>1. CASE intents[i].status = "ABSENT"
      <4>1. intents'[i] = row /\ \A j \in Intents \ {i} : intents'[j] = intents[j]
        BY <1>0, <2>1, <3>1 DEF RowTypes
      <4> QED
        BY <1>0, <2>2, <3>1, <4>1 DEF RowTypes
    <3>2. CASE intents[i].status # "ABSENT"
      BY <1>0, <2>1, <3>2 DEF RowTypes
    <3> QED
      BY <3>1, <3>2
  <2>4. intents'[i].status # "ABSENT" /\ intents' \in [Intents -> Intent]
    BY <1>0, <2>1, <2>2 DEF RowTypes
  <2>5. CallsType' /\ \A d \in Calls : CallOK(d)'
    BY <2>1, <2>3, <2>4, BeginKept DEF Steps, HoldingSteps, Decisions
  <2>6. GateTypeOK'
    BY <1>0, <2>1, <2>4, <2>5 DEF GateTypeOK, CallsType
  <2>7. RefusedIsCancelled'
    BY <1>0, <2>1, <2>3 DEF RefusedIsCancelled
  <2>8. \A j \in Intents : RowOK(j)'
    BY <1>0, <2>1, <2>3 DEF RowOK, Approved
  <2> QED
    BY <2>5, <2>6, <2>7, <2>8 DEF GateInv
<1>2. ASSUME NEW i \in Intents,
             FindMissingApproval(c, i) \/ \E d \in Decisions : Decide(c, i, d)
      PROVE  GateInv'
  <2>1. UNCHANGED <<clock, runs, tables, invoked>>
    BY <1>2 DEF FindMissingApproval, Decide
  <2>2. CASE FindMissingApproval(c, i)
    BY <1>q, <2>1, <2>2, BeginKept
       DEF FindMissingApproval, tables, Steps, HoldingSteps, Decisions
  <2>3. ASSUME NEW d \in Decisions, Decide(c, i, d)
        PROVE  GateInv'
    <3>1. PICK step \in {"decide", "resume"} : Begin(c, step, i, d)
      BY <2>3 DEF Decide
    <3> QED
      BY <1>q, <2>1, <3>1, BeginKept DEF tables, Steps, HoldingSteps
  <2> QED
    BY <1>2, <2>2, <2>3
<1>3. CASE CreateApproval(c, now)
  <2> DEFINE i == calls[c].intent
             row == [status |-> "PENDING", expires |-> now + ApprovalTTL]
  <2>1. /\ i \in Intents /\ i \in Gated /\ intents[i].status # "ABSENT" /\ calls[c] # Idle
    BY <1>3, <1>r DEF CreateApproval, At, CallOK
  <2>2. row \in Approval /\ row.status = "PENDING"
    BY <1>0 DEF Approval, ApprovalState
  <2>3. /\ approvals' = IF approvals[i].status = "ABSENT"
                        THEN [approvals EXCEPT ![i] = row] ELSE approvals
        /\ attention' \in {attention, "NEEDS_APPROVAL"}
        /\ UNCHANGED <<clock, runs, intents, receipts, invoked>>
    BY <1>3 DEF CreateApproval
  <2> HIDE DEF row
  <2>4. /\ approvals' \in [Intents -> Approval]
        /\ \A j \in Intents : \/ approvals'[j] = approvals[j]
                              \/ /\ j = i /\ approvals[j].status = "ABSENT"
                                 /\ approvals'[j].status = "PENDING"
    BY <1>0, <2>1, <2>2, <2>3 DEF RowTypes
  <2>5. approvals[i].status = "ABSENT" => intents[i].token = 0
    BY <1>0, <2>1 DEF RowOK, Approved, RowTypes, Intent
  <2>6. CallsType' /\ \A d \in Calls : CallOK(d)'
    <3>1. CASE Goto(c, "resume")
      BY <2>1, <2>3, <3>1, GotoKept DEF Steps, HoldingSteps
    <3>2. CASE Return(c)
      BY <2>3, <3>2, ReturnKept
    <3> QED
      BY <1>3, <3>1, <3>2 DEF CreateApproval
  <2>7. GateTypeOK'
    BY <1>0, <2>3, <2>4, <2>6 DEF GateTypeOK, CallsType, Attention
  <2>8. \A j \in Intents : RowOK(j)'
    BY <1>0, <2>1, <2>3, <2>4, <2>5 DEF RowOK, Approved
  <2>9. RefusedIsCancelled'
    <3> SUFFICES ASSUME NEW j \in Intents
                 PROVE  /\ approvals'[j].status \in {"DENIED", "EXPIRED"} => intents'[j].status = "CANCELLED"
                        /\ approvals'[j].status = "PENDING" => intents'[j].status \in {"PENDING", "CANCELLED"}
      BY DEF RefusedIsCancelled
    <3> QED
      BY <1>0, <2>1, <2>3, <2>4, <2>5 DEF RefusedIsCancelled, RowOK
  <2> QED
    BY <2>6, <2>7, <2>8, <2>9 DEF GateInv
<1>4. CASE Sweep(c, now)
  <2>1. /\ RowTypes' /\ attention' \in Attention /\ OnlyCloses
        /\ UNCHANGED <<clock, runs, receipts, invoked>>
    BY <1>0, <1>4, ExpireFacts DEF Sweep, GateTypeOK
  <2>2. PICK step \in {"deciding", "claiming"} : calls[c] # Idle /\ Goto(c, step)
    BY <1>4 DEF Sweep, At
  <2>3. CallsType' /\ \A d \in Calls : CallOK(d)'
    BY <2>1, <2>2, CloseFacts, GotoKept DEF Steps, HoldingSteps
  <2>4. GateTypeOK'
    BY <1>0, <2>1, <2>3 DEF GateTypeOK, RowTypes, CallsType
  <2> QED
    BY <2>1, <2>3, <2>4, RowsKept DEF GateInv
<1>5. CASE DecideApproval(c)
  <2> DEFINE i == calls[c].intent
             d == calls[c].decision
             decided == [approvals EXCEPT ![i].status = d]
             dropped == [intents EXCEPT ![i].status = "CANCELLED"]
  <2>1. i \in Intents /\ d \in Decisions /\ calls[c] # Idle
    BY <1>5, <1>r DEF DecideApproval, At, Call
  <2>2. /\ decided \in [Intents -> Approval] /\ dropped \in [Intents -> Intent]
        /\ decided[i].status = d /\ dropped[i].status = "CANCELLED"
        /\ dropped[i].token = intents[i].token
        /\ \A j \in Intents \ {i} : decided[j] = approvals[j] /\ dropped[j] = intents[j]
    BY <1>0, <2>1 DEF RowTypes, Approval, Intent, ApprovalState, ActionStatus, Decisions
  <2>3. /\ IF approvals[i].status = "PENDING"
           THEN /\ approvals' = decided
                /\ intents' = IF d = "DENIED" /\ intents[i].status = "PENDING"
                              THEN dropped ELSE intents
                /\ attention' = ClearedUnlessPending(decided)
           ELSE UNCHANGED <<approvals, intents, attention>>
        /\ UNCHANGED <<clock, runs, receipts, invoked>>
    BY <1>5 DEF DecideApproval, IntentTo
  <2> HIDE DEF decided, dropped
  <2>4. /\ RowTypes' /\ attention' \in Attention
        /\ \A j \in Intents :
              /\ intents'[j].token = intents[j].token
              /\ \/ intents'[j] = intents[j]
                 \/ intents[j].status = "PENDING" /\ intents'[j].status = "CANCELLED"
              /\ \/ approvals'[j] = approvals[j]
                 \/ /\ approvals[j].status = "PENDING"
                    /\ approvals'[j].status = "APPROVED"
                 \/ /\ approvals[j].status = "PENDING"
                    /\ approvals'[j].status = "DENIED"
                    /\ intents[j].status = "PENDING" => intents'[j].status = "CANCELLED"
    BY <1>0, <2>1, <2>2, <2>3 DEF RowTypes, GateTypeOK, ClearedUnlessPending, Attention, Decisions
  <2>5. CallsType' /\ \A e \in Calls : CallOK(e)'
    <3>1. CASE Goto(c, "resume")
      BY <2>1, <2>4, <3>1, GotoKept DEF Steps, HoldingSteps
    <3>2. CASE Return(c)
      BY <2>4, <3>2, ReturnKept
    <3> QED
      BY <1>5, <3>1, <3>2 DEF DecideApproval
  <2>6. GateTypeOK'
    BY <1>0, <2>3, <2>4, <2>5 DEF GateTypeOK, RowTypes, CallsType
  <2>7. \A j \in Intents : RowOK(j)'
    BY <1>0, <2>3, <2>4 DEF RowOK, Approved
  <2>8. RefusedIsCancelled'
    BY <1>0, <2>4 DEF RefusedIsCancelled
  <2> QED
    BY <2>5, <2>6, <2>7, <2>8 DEF GateInv
<1>6. CASE Resume(c) \/ ClaimRefused(c) \/ Abandon(c)
  <2>1. UNCHANGED <<clock, runs, tables, invoked>> /\ calls[c] # Idle
    BY <1>6 DEF Resume, ClaimRefused, Abandon, At
  <2>2. CASE Goto(c, "claim")
    BY <1>q, <2>1, <2>2, GotoKept DEF tables, Steps, HoldingSteps
  <2>3. CASE Return(c)
    BY <1>q, <2>1, <2>3, ReturnKept DEF tables
  <2> QED
    BY <1>6, <2>2, <2>3 DEF Resume, ClaimRefused, Abandon
<1>7. ASSUME NEW i \in Intents, NEW status \in Leased, NEW step \in {"claimed", "reconciling"},
             Grant(c, i, status, step, now), intents[i].token = 0 => Approved(i),
             approvals[i].status \notin {"PENDING", "DENIED", "EXPIRED"}
      PROVE  GateInv'
  <2>1. /\ CallsType' /\ RowTypes'
        /\ intents'[i].status = status
        /\ intents'[i].token = intents[i].token + 1
        /\ \A j \in Intents \ {i} : intents'[j] = intents[j]
        /\ calls'[c].at = step /\ calls'[c].intent = i
        /\ calls'[c].token = intents[i].token + 1
        /\ \A d \in Calls \ {c} : calls'[d] = calls[d]
        /\ UNCHANGED <<clock, runs, attention, approvals, receipts, invoked>>
    BY <1>0, <1>7, GrantFacts
  <2>2. \A j \in Intents : intents[j].token \in Nat /\ invoked[j] \subseteq Nat
    BY <1>0 DEF RowTypes, Intent, GateTypeOK
  <2>3. GateTypeOK'
    BY <1>0, <2>1 DEF GateTypeOK, RowTypes, CallsType
  <2>4. RefusedIsCancelled'
    BY <1>0, <1>7, <2>1 DEF RefusedIsCancelled
  <2>5. \A j \in Intents : RowOK(j)'
    BY <1>0, <1>7, <2>1, <2>2 DEF RowOK, Approved
  <2>6. CallOK(c)'
    BY <2>1, <2>2 DEF CallOK
  <2>7. ASSUME NEW d \in Calls \ {c} PROVE CallOK(d)'
    <3>1. CASE calls[d] = Idle
      BY <2>1, <3>1 DEF CallOK
    <3>2. CASE calls[d] # Idle
      <4>1. CallOK(d) /\ calls[d].intent \in Intents /\ calls[d].token \in Nat
        BY <1>0, <3>2 DEF GateInv, CallsType, Call
      <4> QED
        BY <2>1, <2>2, <4>1 DEF CallOK, Leased
    <3> QED
      BY <3>1, <3>2
  <2> QED
    BY <2>3, <2>4, <2>5, <2>6, <2>7 DEF GateInv
<1>8. CASE ClaimAction(c, now)
  <2>1. calls[c] # Idle /\ Claimable(calls[c].intent)
    BY <1>8 DEF ClaimAction, At
  <2>2. calls[c].intent \in Intents /\ Approved(calls[c].intent)
        /\ approvals[calls[c].intent].status \in {"APPROVED", "ABSENT"}
    BY <1>0, <1>r, <2>1 DEF Claimable, Approved, RowOK
  <2> QED
    BY <1>7, <1>8, <2>2 DEF ClaimAction, Leased
<1>9. ASSUME NEW i \in Intents, ClaimForReconciliation(c, i, now)
      PROVE  GateInv'
  <2>1. intents[i].status \in Leased \cup {"RECONCILE_REQUIRED"}
    BY <1>9 DEF ClaimForReconciliation, LeaseOver
  <2>2. intents[i].token # 0 /\ approvals[i].status \notin {"PENDING", "DENIED", "EXPIRED"}
    BY <1>0, <2>1 DEF RowOK, RefusedIsCancelled, Leased
  <2> QED
    BY <1>7, <1>9, <2>2 DEF ClaimForReconciliation, Leased
<1>10. CASE Invoke(c)
  <2> DEFINE i == calls[c].intent
  <2>1. /\ calls[c] # Idle /\ calls[c].at = "claimed" /\ Goto(c, "invoked")
        /\ invoked' = [invoked EXCEPT ![i] = @ \cup {calls[c].token}]
        /\ UNCHANGED <<clock, runs, tables>>
    BY <1>10 DEF Invoke, At
  <2>2. i \in Intents /\ calls[c].token \in Nat \ {0} /\ calls[c].token <= intents[i].token
    BY <1>r, <2>1 DEF CallOK, HoldingSteps, Call
  <2>3. CallsType' /\ \A d \in Calls : CallOK(d)'
    BY <2>1, GotoKept DEF Steps, HoldingSteps, tables
  <2>4. GateTypeOK'
    BY <1>0, <2>1, <2>2, <2>3 DEF GateTypeOK, CallsType, tables
  <2>5. RefusedIsCancelled'
    BY <1>0, <2>1 DEF RefusedIsCancelled, tables
  <2>6. \A j \in Intents : RowOK(j)'
    BY <1>0, <2>1, <2>2 DEF RowOK, Approved, tables, GateTypeOK
  <2> QED
    BY <2>3, <2>4, <2>5, <2>6 DEF GateInv
<1>11. ASSUME NEW o \in ReceiptOutcome, RecordReceipt(c, o, now)
       PROVE  GateInv'
  <2> DEFINE i == calls[c].intent
             row == [intents[i] EXCEPT !.status = Settled(o), !.expires = 0]
             receipt == [intent |-> i, token |-> calls[c].token, outcome |-> o]
  <2>1. /\ calls[c] # Idle /\ calls[c].at \in HoldingSteps /\ Return(c)
        /\ LiveActionClaim(c, now)
        /\ receipts' = receipts \cup {receipt}
        /\ intents' = [intents EXCEPT ![i] = row]
        /\ UNCHANGED <<clock, runs, attention, approvals, invoked>>
    BY <1>11 DEF RecordReceipt, At, HoldingSteps
  <2>2. i \in Intents /\ calls[c].token \in Nat \ {0}
    BY <1>r, <2>1 DEF CallOK, Call
  <2>3. intents[i].status \in Leased
    BY <2>1 DEF LiveActionClaim, Leased
  <2>4. Settled(o) \in {"SUCCEEDED", "FAILED", "PENDING", "RECONCILE_REQUIRED"}
    BY DEF Settled, ReceiptOutcome
  <2>5. /\ row \in Intent /\ row.token = intents[i].token
        /\ row.status \in {"SUCCEEDED", "FAILED", "PENDING", "RECONCILE_REQUIRED"}
    BY <1>0, <2>2, <2>4 DEF RowTypes, Intent, ActionStatus
  <2>6. receipt \in Receipt
    BY <2>2 DEF Receipt
  <2> HIDE DEF row, receipt
  <2>7. /\ intents' \in [Intents -> Intent]
        /\ \A j \in Intents :
              /\ intents'[j].token = intents[j].token
              /\ \/ intents'[j] = intents[j]
                 \/ /\ intents[j].status \in Leased
                    /\ intents'[j].status \in {"SUCCEEDED", "FAILED", "PENDING", "RECONCILE_REQUIRED"}
    BY <1>0, <2>1, <2>2, <2>3, <2>5 DEF RowTypes
  <2>8. CallsType' /\ \A d \in Calls : CallOK(d)'
    BY <2>1, <2>7, ReturnKept DEF Leased
  <2>9. GateTypeOK'
    BY <1>0, <2>1, <2>6, <2>7, <2>8 DEF GateTypeOK, CallsType
  <2>10. RefusedIsCancelled'
    BY <1>0, <2>1, <2>7 DEF RefusedIsCancelled, Leased
  <2>11. \A j \in Intents : RowOK(j)'
    BY <1>0, <2>1, <2>7 DEF RowOK, Approved, Leased
  <2> QED
    BY <2>8, <2>9, <2>10, <2>11 DEF GateInv
<1> QED
  BY <1>1, <1>2, <1>3, <1>4, <1>5, <1>6, <1>8, <1>9, <1>10, <1>11 DEF CallStep

LEMMA GateInvariant == GateSpec => []GateInv
<1>1. GateInv /\ [GateNext]_gateVars => GateInv'
  BY ThreadKeepsGate, RowStepKeepsGate, CallStepKeepsGate DEF GateNext
<1> QED
  BY <1>1, GateInitOK, PTL DEF GateSpec

\* Tables and handlers are well typed at every moment.
THEOREM GateTypeCorrect == GateSpec => []GateTypeOK
<1>1. GateInv => GateTypeOK
  BY DEF GateInv
<1> QED
  BY <1>1, GateInvariant, PTL

\* Whatever expiries, cancellations and claims race with the decision, a refused
\* approval leaves no intent that could run, and an open one belongs to an
\* intent that no handler has claimed.
THEOREM RefusalIsFinal == GateSpec => []RefusedIsCancelled
<1>1. GateInv => RefusedIsCancelled
  BY DEF GateInv
<1> QED
  BY <1>1, GateInvariant, PTL

\* The provider is never called for a gated intent whose approval is not given.
THEOREM ApprovalGate == GateSpec => []InvokedOnlyIfApproved
<1>1. GateInv => InvokedOnlyIfApproved
  <2> SUFFICES ASSUME GateInv, NEW i \in Gated, invoked[i] # {}
               PROVE  approvals[i].status = "APPROVED"
    BY DEF InvokedOnlyIfApproved
  <2>1. PICK a \in invoked[i] : a \in Nat \ {0} /\ a <= intents[i].token
    BY DEF GateInv, GateTypeOK, RowOK
  <2>2. intents[i].token > 0 /\ i \in Intents
    BY <2>1 DEF GateInv, GateTypeOK, Intent
  <2> QED
    BY <2>2 DEF GateInv, RowOK, Approved
<1> QED
  BY <1>1, GateInvariant, PTL
-----------------------------------------------------------------------------
(* Retries.  A token is spent on executing its intent once the provider was  *)
(* called with it, or may yet be.  An intent that waits again after a claim  *)
(* was told NOT_FOUND by a reconciler, under a token later than every spent  *)
(* one; a reconciler's token is never a spent one.                           *)

Spent(i) == invoked[i] \cup
    {calls[c].token : c \in {d \in Calls : At(d, "claimed") /\ calls[d].intent = i}}

NotFound(i, t) == [intent |-> i, token |-> t, outcome |-> "NOT_FOUND"]

RetryOK(i) ==
    /\ intents[i].status = "ABSENT" => intents[i].token = 0
    /\ \A a \in Spent(i) : 0 < a /\ a <= intents[i].token
    /\ intents[i].status = "PENDING" /\ intents[i].token > 0 =>
            /\ NotFound(i, intents[i].token) \in receipts
            /\ intents[i].token \notin Spent(i)
    /\ \A a, b \in Spent(i) : a < b =>
            \E t \in Nat : a < t /\ t < b /\ NotFound(i, t) \in receipts
    /\ \A c \in Calls : At(c, "reconciling") /\ calls[c].intent = i =>
            calls[c].token \notin Spent(i)

RetryInv == \A i \in Intents : RetryOK(i)

\* A step that spends no token, opens no row and starts no reconciler.
Quiet ==
    /\ \A i \in Intents :
        /\ intents'[i].token = intents[i].token
        /\ intents'[i].status = "PENDING" => intents[i].status \in {"PENDING", "ABSENT"}
        /\ intents'[i].status = "ABSENT" => intents[i].status = "ABSENT"
        /\ Spent(i)' \subseteq Spent(i)
    /\ receipts \subseteq receipts'
    /\ \A c \in Calls : At(c, "reconciling")' => calls'[c] = calls[c]

LEMMA QuietKeepsRetry == ASSUME GateInv, RetryInv, Quiet PROVE RetryInv'
<1> SUFFICES ASSUME NEW i \in Intents PROVE RetryOK(i)'
  BY DEF RetryInv
<1> DEFINE old == Spent(i)
           new == Spent(i)'
<1>1. /\ intents'[i].token = intents[i].token
      /\ intents'[i].status = "PENDING" => intents[i].status \in {"PENDING", "ABSENT"}
      /\ intents'[i].status = "ABSENT" => intents[i].status = "ABSENT"
      /\ new \subseteq old
      /\ receipts \subseteq receipts'
      /\ \A c \in Calls : At(c, "reconciling")' => calls'[c] = calls[c]
  BY DEF Quiet
<1>2. /\ intents[i].status = "ABSENT" => intents[i].token = 0
      /\ \A a \in old : 0 < a /\ a <= intents[i].token
      /\ intents[i].status = "PENDING" /\ intents[i].token > 0 =>
            NotFound(i, intents[i].token) \in receipts /\ intents[i].token \notin old
      /\ \A a, b \in old : a < b =>
            \E t \in Nat : a < t /\ t < b /\ NotFound(i, t) \in receipts
      /\ \A c \in Calls : At(c, "reconciling") /\ calls[c].intent = i => calls[c].token \notin old
  BY DEF RetryInv, RetryOK
<1>3. \A c \in Calls : At(c, "reconciling")' => At(c, "reconciling")
  BY <1>1 DEF At
<1> HIDE DEF old, new
<1>4. /\ intents'[i].status = "ABSENT" => intents'[i].token = 0
      /\ \A a \in new : 0 < a /\ a <= intents'[i].token
      /\ intents'[i].status = "PENDING" /\ intents'[i].token > 0 =>
            NotFound(i, intents'[i].token) \in receipts' /\ intents'[i].token \notin new
      /\ \A a, b \in new : a < b =>
            \E t \in Nat : a < t /\ t < b /\ NotFound(i, t) \in receipts'
      /\ \A c \in Calls : At(c, "reconciling")' /\ calls'[c].intent = i => calls'[c].token \notin new
  BY <1>1, <1>2, <1>3
<1> QED
  BY <1>4 DEF RetryOK, NotFound, old, new

\* Handlers that only move where no claim is held spend nothing.
LEMMA SpentKept ==
    ASSUME UNCHANGED invoked, \A c \in Calls : At(c, "claimed")' => calls'[c] = calls[c]
    PROVE  \A i \in Intents : Spent(i)' \subseteq Spent(i)
  BY DEF Spent, At

\* What a step that takes no claim does to the rows and the handlers.
Bystander ==
    /\ UNCHANGED invoked
    /\ receipts' = receipts
    /\ \A i \in Intents :
        /\ intents'[i].token = intents[i].token
        /\ intents'[i].status = "PENDING" => intents[i].status \in {"PENDING", "ABSENT"}
        /\ intents'[i].status = "ABSENT" => intents[i].status = "ABSENT"
    /\ \A c \in Calls : At(c, "claimed")' \/ At(c, "reconciling")' => calls'[c] = calls[c]

LEMMA BystanderKeepsRetry == ASSUME GateInv, RetryInv, Bystander PROVE RetryInv'
<1>1. \A i \in Intents : Spent(i)' \subseteq Spent(i)
  BY SpentKept DEF Bystander
<1> QED
  BY <1>1, QuietKeepsRetry DEF Bystander, Quiet

LEMMA CloseIsBystander ==
    ASSUME OnlyCloses
    PROVE  \A i \in Intents :
        /\ intents'[i].token = intents[i].token
        /\ intents'[i].status = "PENDING" => intents[i].status \in {"PENDING", "ABSENT"}
        /\ intents'[i].status = "ABSENT" => intents[i].status = "ABSENT"
  BY DEF OnlyCloses

LEMMA RestKeepsRetry ==
    ASSUME GateInv, RetryInv, ThreadStep \/ Tick \/ UNCHANGED gateVars
    PROVE  RetryInv'
<1>0. RowTypes /\ attention \in Attention
  BY DEF GateInv, GateTypeOK, RowTypes
<1>1. ASSUME NEW S, CancelActions(S), UNCHANGED <<calls, invoked>>
      PROVE  RetryInv'
  <2>1. OnlyCloses /\ receipts' = receipts
    BY <1>0, <1>1, CancelFacts
  <2> QED
    BY <1>1, <2>1, CloseIsBystander, BystanderKeepsRetry DEF Bystander
<1>2. ASSUME \/ \E r \in Runs : \E a \in {attention, "DELIVERY_READY", "FAILED"} : EndRun(r, a)
             \/ Tick
             \/ UNCHANGED gateVars
      PROVE  RetryInv'
  <2>1. UNCHANGED <<intents, approvals, receipts, calls, invoked>>
    BY <1>2 DEF EndRun, Tick, gateVars, tables
  <2> QED
    BY <2>1, BystanderKeepsRetry DEF Bystander
<1> QED
  BY <1>1, <1>2 DEF ThreadStep, StartRun, CancelThread

LEMMA RowStepKeepsRetry ==
    ASSUME GateInv, RetryInv, NEW now \in Readings, RowStep(now)
    PROVE  RetryInv'
<1>0. RowTypes /\ attention \in Attention /\ now \in Nat
  BY ReadingIsNat DEF GateInv, GateTypeOK, RowTypes
<1>1. CASE CountApprovals(now)
  <2>1. OnlyCloses /\ UNCHANGED <<receipts, invoked, calls>>
    BY <1>0, <1>1, ExpireFacts DEF CountApprovals
  <2> QED
    BY <2>1, CloseIsBystander, BystanderKeepsRetry DEF Bystander
<1>2. CASE RecoverIncomplete(now)
  <2>1. UNCHANGED <<receipts, calls, invoked>>
    BY <1>2 DEF RecoverIncomplete
  <2>2. \A i \in Intents :
            /\ intents'[i].token = intents[i].token
            /\ intents'[i] = intents[i] \/ intents'[i].status = "RECONCILE_REQUIRED"
    BY <1>0, <1>2 DEF RecoverIncomplete, RowTypes, Intent
  <2> QED
    BY <2>1, <2>2, BystanderKeepsRetry DEF Bystander
<1> QED
  BY <1>1, <1>2 DEF RowStep

\* A claim that executes spends the next token, one that reconciles does not.
LEMMA GrantKeepsRetry ==
    ASSUME GateInv, RetryInv, NEW c \in Calls, NEW i \in Intents, NEW now \in Nat,
           NEW status \in Leased, NEW step \in {"claimed", "reconciling"},
           Grant(c, i, status, step, now),
           step = "claimed" => intents[i].status = "PENDING"
    PROVE  RetryInv'
<1> DEFINE next == intents[i].token + 1
<1>1. RowTypes /\ CallsType
  BY DEF GateInv, GateTypeOK, RowTypes, CallsType
<1>2. /\ intents'[i].status = status /\ intents'[i].token = next
      /\ \A j \in Intents \ {i} : intents'[j] = intents[j]
      /\ calls'[c].at = step /\ calls'[c].intent = i /\ calls'[c].token = next
      /\ \A d \in Calls \ {c} : calls'[d] = calls[d]
      /\ UNCHANGED <<receipts, invoked>>
  BY <1>1, GrantFacts
<1>3. /\ \A j \in Intents : RetryOK(j) /\ intents[j].token \in Nat
      /\ \A j \in Intents : Spent(j) \subseteq Nat
  BY <1>1 DEF RetryInv, RowTypes, Intent, Spent, GateInv, GateTypeOK, CallsType, Call, At
<1>4. \A d \in Calls : At(d, "reconciling") => calls[d].token <= intents[calls[d].intent].token
  BY DEF GateInv, CallOK, At
<1>5. ASSUME NEW j \in Intents
      PROVE  Spent(j)' \subseteq Spent(j) \cup (IF step = "claimed" /\ j = i THEN {next} ELSE {})
  BY <1>2 DEF Spent, At
<1>6. ASSUME NEW j \in Intents, j # i PROVE RetryOK(j)'
  <2>1. Spent(j)' \subseteq Spent(j) /\ intents'[j] = intents[j]
    BY <1>2, <1>5, <1>6
  <2>2. \A d \in Calls : At(d, "reconciling")' /\ calls'[d].intent = j =>
            At(d, "reconciling") /\ calls[d].intent = j /\ calls'[d].token = calls[d].token
    BY <1>2, <1>6 DEF At
  <2> QED
    BY <1>2, <1>3, <2>1, <2>2 DEF RetryOK, NotFound
<1>7. RetryOK(i)'
  <2>1. /\ \A a \in Spent(i) : 0 < a /\ a < next
        /\ \A a, b \in Spent(i) : a < b =>
                \E t \in Nat : a < t /\ t < b /\ NotFound(i, t) \in receipts
    BY <1>3 DEF RetryOK
  <2>2. \A a \in Spent(i)' : 0 < a /\ a <= next
    BY <1>3, <1>5, <2>1
  <2>3. step = "claimed" => \A a \in Spent(i) :
            \E t \in Nat : a < t /\ t < next /\ NotFound(i, t) \in receipts
    <3> SUFFICES ASSUME step = "claimed", NEW a \in Spent(i)
                 PROVE  \E t \in Nat : a < t /\ t < next /\ NotFound(i, t) \in receipts
      OBVIOUS
    <3>1. intents[i].status = "PENDING" /\ intents[i].token > 0 /\ a <= intents[i].token
      BY <1>3, <2>1 DEF RetryOK
    <3>2. NotFound(i, intents[i].token) \in receipts /\ a # intents[i].token
      BY <1>3, <3>1 DEF RetryOK
    <3> QED
      BY <1>3, <3>1, <3>2
  <2>4. ASSUME NEW a \in Spent(i)', NEW b \in Spent(i)', a < b
        PROVE  \E t \in Nat : a < t /\ t < b /\ NotFound(i, t) \in receipts
    <3>1. CASE b \in Spent(i)
      BY <1>3, <1>5, <2>1, <2>4, <3>1
    <3>2. CASE b \notin Spent(i)
      BY <1>3, <1>5, <2>1, <2>3, <2>4, <3>2
    <3> QED
      BY <3>1, <3>2
  <2>5. ASSUME NEW d \in Calls, At(d, "reconciling")', calls'[d].intent = i
        PROVE  calls'[d].token \notin Spent(i)'
    <3>1. CASE d = c
      <4>1. step = "reconciling" /\ calls'[d].token = next
        BY <1>2, <2>5, <3>1 DEF At
      <4> QED
        BY <1>3, <1>5, <2>1, <4>1
    <3>2. CASE d # c
      <4>1. At(d, "reconciling") /\ calls[d].intent = i /\ calls'[d].token = calls[d].token
        BY <1>2, <2>5, <3>2 DEF At
      <4>2. calls[d].token \notin Spent(i) /\ calls[d].token # next
        <5>1. calls[d].token \notin Spent(i)
          BY <1>3, <4>1 DEF RetryOK
        <5>2. calls[d].token <= intents[i].token /\ calls[d].token \in Nat
          BY <1>1, <1>4, <4>1 DEF CallsType, Call, At
        <5> QED
          BY <1>3, <5>1, <5>2
      <4> QED
        BY <1>5, <4>1, <4>2
    <3> QED
      BY <3>1, <3>2
  <2> QED
    BY <1>2, <2>2, <2>4, <2>5 DEF RetryOK, NotFound, Leased
<1> QED
  BY <1>6, <1>7 DEF RetryInv

\* The receipt of a claim that is still its intent's newest.
LEMMA ReceiptKeepsRetry ==
    ASSUME GateInv, RetryInv, NEW c \in Calls, NEW o \in ReceiptOutcome, NEW now \in Readings,
           RecordReceipt(c, o, now)
    PROVE  RetryInv'
<1> DEFINE i == calls[c].intent
           row == [intents[i] EXCEPT !.status = Settled(o), !.expires = 0]
<1>1. RowTypes /\ CallsType
  BY DEF GateInv, GateTypeOK, RowTypes, CallsType
<1>2. /\ calls[c] # Idle /\ Return(c) /\ UNCHANGED invoked
      /\ calls[c].token = intents[i].token
      /\ o = "NOT_FOUND" => At(c, "reconciling")
      /\ intents' = [intents EXCEPT ![i] = row]
      /\ receipts' = receipts \cup {[intent |-> i, token |-> calls[c].token, outcome |-> o]}
  BY DEF RecordReceipt, At, LiveActionClaim
<1>3. i \in Intents
  BY <1>1, <1>2 DEF CallsType, Call
<1>4. row.token = intents[i].token /\ row.status = Settled(o)
  BY <1>1, <1>3 DEF RowTypes, Intent
<1> HIDE DEF row
<1>5. /\ intents'[i].token = intents[i].token /\ intents'[i].status = Settled(o)
      /\ \A j \in Intents \ {i} : intents'[j] = intents[j]
  BY <1>1, <1>2, <1>3, <1>4 DEF RowTypes
<1>6. \A d \in Calls : calls'[d] # Idle => calls'[d] = calls[d]
  BY <1>1, <1>2, ReturnFacts
<1>7. \A d \in Calls : At(d, "claimed")' \/ At(d, "reconciling")' => calls'[d] = calls[d]
  BY <1>6 DEF At
<1>8. \A j \in Intents : Spent(j)' \subseteq Spent(j)
  BY <1>2, <1>7, SpentKept
<1>9. CASE o = "NOT_FOUND"
  <2>1. NotFound(i, intents[i].token) \in receipts' /\ receipts \subseteq receipts'
    BY <1>2, <1>9 DEF NotFound
  <2>2. intents[i].token \notin Spent(i)
    BY <1>2, <1>3, <1>9 DEF RetryInv, RetryOK
  <2>3. intents'[i].status = "PENDING"
    BY <1>5, <1>9 DEF Settled
  <2>4. \A d \in Calls : At(d, "reconciling")' =>
            At(d, "reconciling") /\ calls'[d] = calls[d]
    BY <1>7 DEF At
  <2>5. ASSUME NEW j \in Intents PROVE RetryOK(j)'
    <3>1. RetryOK(j)
      BY DEF RetryInv
    <3>2. CASE j = i
      BY <1>5, <1>8, <2>1, <2>2, <2>3, <2>4, <3>1, <3>2 DEF RetryOK, NotFound
    <3>3. CASE j # i
      BY <1>5, <1>8, <2>1, <2>4, <3>1, <3>3 DEF RetryOK, NotFound
    <3> QED
      BY <3>2, <3>3
  <2> QED
    BY <2>5 DEF RetryInv
<1>10. CASE o # "NOT_FOUND"
  <2>1. Settled(o) \in {"SUCCEEDED", "FAILED", "RECONCILE_REQUIRED"}
    BY <1>10 DEF Settled, ReceiptOutcome
  <2> QED
    BY <1>2, <1>3, <1>5, <1>7, <1>8, <2>1, QuietKeepsRetry DEF Quiet
<1> QED
  BY <1>9, <1>10

LEMMA CallStepKeepsRetry ==
    ASSUME GateInv, RetryInv, NEW now \in Readings, NEW c \in Calls, CallStep(c, now)
    PROVE  RetryInv'
<1>0. /\ RowTypes /\ CallsType /\ now \in Nat /\ attention \in Attention
      /\ \A d \in Calls : calls[d] # Idle => calls[d] \in Call /\ calls[d].intent \in Intents
  BY ReadingIsNat DEF GateInv, GateTypeOK, RowTypes, CallsType, Call
<1>b. \* a handler that begins or moves on without a claim
      ASSUME \/ Return(c)
             \/ calls[c] # Idle /\ \E step \in Steps \ {"claimed", "reconciling"} : Goto(c, step)
             \/ \E step \in Steps \ {"claimed", "reconciling"}, i \in Intents, d \in Decisions :
                    Begin(c, step, i, d)
      PROVE  \A e \in Calls : At(e, "claimed")' \/ At(e, "reconciling")' => calls'[e] = calls[e]
  <2>1. CASE Return(c)
    BY <1>0, <2>1, ReturnFacts DEF At
  <2>2. ASSUME calls[c] # Idle, NEW step \in Steps \ {"claimed", "reconciling"}, Goto(c, step)
        PROVE  \A e \in Calls : At(e, "claimed")' \/ At(e, "reconciling")' => calls'[e] = calls[e]
    BY <1>0, <2>2, GotoFacts DEF At
  <2>3. ASSUME NEW step \in Steps \ {"claimed", "reconciling"}, NEW i \in Intents,
               NEW d \in Decisions, Begin(c, step, i, d)
        PROVE  \A e \in Calls : At(e, "claimed")' \/ At(e, "reconciling")' => calls'[e] = calls[e]
    BY <1>0, <2>3, BeginFacts DEF At
  <2> QED
    BY <1>b, <2>1, <2>2, <2>3
<1>1. ASSUME NEW i \in Intents, CreateIntent(c, i)
      PROVE  RetryInv'
  <2>1. /\ UNCHANGED <<receipts, invoked>>
        /\ \E step \in {"submit", "resume"} : Begin(c, step, i, "APPROVED")
        /\ intents' = IF intents[i].status = "ABSENT"
                      THEN [intents EXCEPT ![i].status = "PENDING"] ELSE intents
    BY <1>1 DEF CreateIntent, IntentTo
  <2>2. \A j \in Intents :
            /\ intents'[j].token = intents[j].token
            /\ \/ intents'[j] = intents[j]
               \/ intents[j].status = "ABSENT" /\ intents'[j].status = "PENDING"
    BY <1>0, <2>1 DEF RowTypes, Intent
  <2> QED
    BY <1>b, <2>1, <2>2, BystanderKeepsRetry DEF Bystander, Steps, Decisions
<1>2. ASSUME \/ \E i \in Intents :
                    FindMissingApproval(c, i) \/ \E d \in Decisions : Decide(c, i, d)
             \/ CreateApproval(c, now) \/ Resume(c) \/ ClaimRefused(c) \/ Abandon(c)
      PROVE  RetryInv'
  <2>1. UNCHANGED <<intents, receipts, invoked>>
    BY <1>2 DEF FindMissingApproval, Decide, CreateApproval, Resume, ClaimRefused, Abandon, tables
  <2>2. \/ Return(c)
        \/ calls[c] # Idle /\ \E step \in {"claim", "resume"} : Goto(c, step)
        \/ \E step \in {"repair", "decide", "resume"}, i \in Intents, d \in Decisions :
                Begin(c, step, i, d)
    BY <1>2 DEF FindMissingApproval, Decide, Decisions, CreateApproval, Resume, ClaimRefused,
                Abandon, At
  <2> QED
    BY <1>b, <2>1, <2>2, BystanderKeepsRetry DEF Bystander, Steps
<1>3. CASE Sweep(c, now)
  <2>1. OnlyCloses /\ UNCHANGED <<receipts, invoked>>
    BY <1>0, <1>3, ExpireFacts DEF Sweep
  <2>2. calls[c] # Idle /\ \E step \in {"deciding", "claiming"} : Goto(c, step)
    BY <1>3 DEF Sweep, At
  <2>3. \A e \in Calls : At(e, "claimed")' \/ At(e, "reconciling")' => calls'[e] = calls[e]
    BY <1>b, <2>2 DEF Steps
  <2> QED
    BY <2>1, <2>3, CloseIsBystander, BystanderKeepsRetry DEF Bystander
<1>4. CASE DecideApproval(c)
  <2>1. /\ calls[c] # Idle /\ (Return(c) \/ Goto(c, "resume"))
        /\ UNCHANGED <<receipts, invoked>>
        /\ \/ intents' = intents
           \/ intents' = [intents EXCEPT ![calls[c].intent].status = "CANCELLED"]
    BY <1>4 DEF DecideApproval, IntentTo, At
  <2>2. \A j \in Intents :
            /\ intents'[j].token = intents[j].token
            /\ intents'[j] = intents[j] \/ intents'[j].status = "CANCELLED"
    BY <1>0, <2>1 DEF RowTypes, Intent
  <2>3. \A e \in Calls : At(e, "claimed")' \/ At(e, "reconciling")' => calls'[e] = calls[e]
    BY <1>b, <2>1 DEF Steps
  <2>4. Bystander
    BY <2>1, <2>2, <2>3 DEF Bystander
  <2> QED
    BY <2>4, BystanderKeepsRetry
<1>5. CASE ClaimAction(c, now)
  <2>1. calls[c].intent \in Intents /\ intents[calls[c].intent].status = "PENDING"
    BY <1>0, <1>5 DEF ClaimAction, At, Claimable
  <2> QED
    BY <1>0, <1>5, <2>1, GrantKeepsRetry DEF ClaimAction, Leased
<1>6. ASSUME NEW i \in Intents, ClaimForReconciliation(c, i, now)
      PROVE  RetryInv'
  BY <1>0, <1>6, GrantKeepsRetry DEF ClaimForReconciliation, Leased
<1>7. CASE Invoke(c)
  <2> DEFINE i == calls[c].intent
  <2>1. /\ calls[c] # Idle /\ calls[c].at = "claimed" /\ Goto(c, "invoked") /\ i \in Intents
        /\ invoked' = [invoked EXCEPT ![i] = @ \cup {calls[c].token}]
        /\ UNCHANGED <<intents, receipts>>
    BY <1>0, <1>7 DEF Invoke, At, tables
  <2>2. \A e \in Calls : At(e, "claimed")' \/ At(e, "reconciling")' => calls'[e] = calls[e]
    BY <1>b, <2>1 DEF Steps
  <2>3. \A j \in Intents : invoked'[j] \subseteq Spent(j)
    BY <2>1 DEF Spent, At, GateInv, GateTypeOK
  <2>4. \A j \in Intents : Spent(j)' \subseteq Spent(j)
    BY <2>2, <2>3 DEF Spent, At
  <2>5. \A e \in Calls : At(e, "reconciling")' => calls'[e] = calls[e]
    BY <2>2
  <2>6. Quiet
    BY <2>1, <2>4, <2>5 DEF Quiet
  <2> QED
    BY <2>6, QuietKeepsRetry
<1> QED
  BY <1>1, <1>2, <1>3, <1>4, <1>5, <1>6, <1>7, ReceiptKeepsRetry DEF CallStep

\* Between two calls of the provider for one intent a reconciler was told that
\* the earlier one had not happened, however many handlers, claims, crashes and
\* lapsed leases there are.
THEOREM RetryNeedsNotFound == GateSpec => []RetriedOnlyIfNotFound
<1>1. GateInit => RetryInv
  <2> SUFFICES ASSUME GateInit, NEW i \in Intents PROVE RetryOK(i)
    BY DEF RetryInv
  <2>1. Spent(i) = {} /\ \A c \in Calls : calls[c] = Idle
    BY DEF GateInit, Spent, At
  <2> QED
    BY <2>1 DEF GateInit, RetryOK, At
<1>2. GateInv /\ RetryInv /\ [GateNext]_gateVars => RetryInv'
  BY RestKeepsRetry, RowStepKeepsRetry, CallStepKeepsRetry DEF GateNext
<1>3. GateInv /\ RetryInv => RetriedOnlyIfNotFound
  <2> SUFFICES ASSUME GateInv, RetryInv, NEW i \in Intents,
                      NEW a \in invoked[i], NEW b \in invoked[i], a < b
               PROVE  \E r \in receipts : /\ r.intent = i /\ a < r.token /\ r.token < b
                                          /\ r.outcome = "NOT_FOUND"
    BY DEF RetriedOnlyIfNotFound
  <2>1. PICK t \in Nat : a < t /\ t < b /\ NotFound(i, t) \in receipts
    BY DEF RetryInv, RetryOK, Spent
  <2> QED
    BY <2>1 DEF NotFound
<1> QED
  BY <1>1, <1>2, <1>3, GateInvariant, PTL DEF GateSpec

-----------------------------------------------------------------------------
(* Claims of intents are a fenced lease service when no clock reading is as  *)
(* old as a lease is long.                                                   *)

\* A step after which every leased row is one that was leased before.
RowsEnd ==
    /\ clock <= clock'
    /\ \A i \in Intents :
        /\ intents'[i].token = intents[i].token
        /\ intents'[i] = intents[i] \/ intents'[i].status \notin Leased

\* A step that grants a lease that was free.
LeaseGranted ==
    \E i \in Intents :
        /\ ~Held(i) /\ Held(i)'
        /\ intents'[i].token = intents[i].token + 1
        /\ \A j \in Intents \ {i} : intents'[j] = intents[j]
        /\ clock' = clock

LEMMA ClosedRowsEnd ==
    ASSUME clock <= clock', OnlyCloses
    PROVE  RowsEnd
  BY DEF OnlyCloses, RowsEnd, Leased

LEMMA GrantGrants ==
    ASSUME GateInv, LockWait < ActionLease, NEW c \in Calls, NEW i \in Intents,
           NEW now \in Readings, NEW status \in Leased, NEW step \in {"claimed", "reconciling"},
           Grant(c, i, status, step, now), ~Held(i)
    PROVE  LeaseGranted
<1>1. RowTypes /\ CallsType /\ now \in Nat /\ clock \in Nat
  BY ReadingIsNat DEF GateInv, GateTypeOK, RowTypes, CallsType
<1>2. /\ intents'[i].status = status
      /\ intents'[i].token = intents[i].token + 1
      /\ intents'[i].expires = now + ActionLease
      /\ \A j \in Intents \ {i} : intents'[j] = intents[j]
      /\ clock' = clock
  BY <1>1, GrantFacts
<1>3. now + ActionLease > clock
  BY <1>1 DEF Readings
<1> QED
  BY <1>2, <1>3 DEF LeaseGranted, Held

LEMMA GrantOrEnd ==
    ASSUME GateInv, LockWait < ActionLease, [GateNext]_gateVars
    PROVE  LeaseGranted \/ RowsEnd
<1>0. /\ RowTypes /\ attention \in Attention /\ clock \in Nat
      /\ \A d \in Calls : calls[d] # Idle => calls[d] \in Call /\ calls[d].intent \in Intents
  BY DEF GateInv, GateTypeOK, RowTypes, Call
<1>1. ASSUME NEW S, CancelActions(S), UNCHANGED clock PROVE RowsEnd
  <2>1. OnlyCloses
    BY <1>0, <1>1, CancelFacts
  <2> QED
    BY <1>0, <1>1, <2>1, ClosedRowsEnd
<1>2. ASSUME UNCHANGED intents, clock' \in {clock, clock + 1} PROVE RowsEnd
  BY <1>0, <1>2 DEF RowsEnd
<1>3. ASSUME ThreadStep \/ Tick \/ UNCHANGED gateVars PROVE RowsEnd
  <2>1. ASSUME \/ \E r \in Runs : \E a \in {attention, "DELIVERY_READY", "FAILED"} : EndRun(r, a)
               \/ Tick
               \/ UNCHANGED gateVars
        PROVE  RowsEnd
    BY <1>2, <2>1 DEF EndRun, Tick, gateVars, tables
  <2> QED
    BY <1>1, <1>3, <2>1 DEF ThreadStep, StartRun, CancelThread
<1>4. ASSUME NEW now \in Readings, ExpireApprovals(now) PROVE RowsEnd
  <2>1. now \in Nat
    BY ReadingIsNat DEF GateInv
  <2>2. OnlyCloses /\ UNCHANGED clock
    BY <1>0, <1>4, <2>1, ExpireFacts
  <2> QED
    BY <1>0, <2>2, ClosedRowsEnd
<1>5. ASSUME NEW now \in Readings, RecoverIncomplete(now) PROVE RowsEnd
  <2> DEFINE marked(i) == [intents[i] EXCEPT !.status = "RECONCILE_REQUIRED", !.expires = 0]
  <2>1. \A i \in Intents : /\ marked(i).token = intents[i].token
                           /\ marked(i).status = "RECONCILE_REQUIRED"
    BY <1>0 DEF RowTypes, Intent
  <2>2. /\ \A i \in Intents : intents'[i] \in {intents[i], marked(i)}
        /\ UNCHANGED clock
    BY <1>5 DEF RecoverIncomplete
  <2> HIDE DEF marked
  <2> QED
    BY <1>0, <2>1, <2>2 DEF RowsEnd, Leased
<1>6. ASSUME NEW now \in Readings, NEW c \in Calls, CallStep(c, now)
      PROVE  LeaseGranted \/ RowsEnd
  <2>1. ASSUME NEW i \in Intents, CreateIntent(c, i) PROVE RowsEnd
    <3>1. UNCHANGED clock /\ intents' \in {intents, [intents EXCEPT ![i].status = "PENDING"]}
      BY <2>1 DEF CreateIntent, IntentTo
    <3> QED
      BY <1>0, <3>1 DEF RowTypes, Intent, RowsEnd, Leased
  <2>2. ASSUME \/ \E i \in Intents :
                      FindMissingApproval(c, i) \/ \E d \in Decisions : Decide(c, i, d)
               \/ CreateApproval(c, now) \/ Resume(c) \/ ClaimRefused(c) \/ Abandon(c)
               \/ Invoke(c)
        PROVE  RowsEnd
    BY <1>2, <2>2 DEF FindMissingApproval, Decide, CreateApproval, Resume, ClaimRefused,
                      Abandon, Invoke, tables
  <2>3. CASE DecideApproval(c)
    <3>1. /\ calls[c].intent \in Intents /\ UNCHANGED clock
          /\ intents' \in {intents, [intents EXCEPT ![calls[c].intent].status = "CANCELLED"]}
      BY <1>0, <2>3 DEF DecideApproval, IntentTo, At
    <3> QED
      BY <1>0, <3>1 DEF RowTypes, Intent, RowsEnd, Leased
  <2>4. CASE ClaimAction(c, now)
    <3>1. calls[c].intent \in Intents /\ ~Held(calls[c].intent)
      BY <1>0, <2>4 DEF ClaimAction, At, Claimable, Held, Leased
    <3> QED
      BY <2>4, <3>1, GrantGrants DEF ClaimAction, Leased
  <2>5. ASSUME NEW i \in Intents, ClaimForReconciliation(c, i, now) PROVE LeaseGranted
    <3>1. intents[i].expires \in Nat /\ now <= clock /\ now \in Nat
      BY <1>0 DEF RowTypes, Intent, Readings
    <3>2. ~Held(i)
      BY <1>0, <2>5, <3>1 DEF ClaimForReconciliation, LeaseOver, Held, Leased
    <3> QED
      BY <2>5, <3>2, GrantGrants DEF ClaimForReconciliation, Leased
  <2>6. ASSUME NEW o \in ReceiptOutcome, RecordReceipt(c, o, now) PROVE RowsEnd
    <3> DEFINE i == calls[c].intent
               row == [intents[i] EXCEPT !.status = Settled(o), !.expires = 0]
    <3>1. i \in Intents /\ UNCHANGED clock /\ intents' = [intents EXCEPT ![i] = row]
      BY <1>0, <2>6 DEF RecordReceipt, At
    <3>2. Settled(o) \notin Leased
      BY DEF Settled, ReceiptOutcome, Leased
    <3>3. row.token = intents[i].token /\ row.status \notin Leased
      BY <1>0, <3>1, <3>2 DEF RowTypes, Intent
    <3> HIDE DEF row
    <3> QED
      BY <1>0, <3>1, <3>3 DEF RowTypes, RowsEnd
  <2> QED
    BY <1>4, <1>6, <2>1, <2>2, <2>3, <2>4, <2>5, <2>6 DEF CallStep, Sweep
<1> QED
  BY <1>3, <1>4, <1>5, <1>6 DEF GateNext, RowStep, CountApprovals

HolderMap == [i \in Intents |-> IF Held(i) THEN "claimed" ELSE "free"]
TokenMap == [i \in Intents |-> intents[i].token]

LEMMA ActionLeaseStep ==
    ASSUME GateInv, LockWait < ActionLease, [GateNext]_gateVars
    PROVE  ActionLeases!Next
<1>0. clock \in Nat /\ clock' \in Nat /\ \A i \in Intents : intents[i].expires \in Nat
  BY ThreadKeepsGate, RowStepKeepsGate, CallStepKeepsGate
     DEF GateInv, GateTypeOK, Intent, GateNext
<1>1. CASE LeaseGranted
  <2>1. PICK i \in Intents :
            /\ ~Held(i) /\ Held(i)'
            /\ intents'[i].token = intents[i].token + 1
            /\ \A j \in Intents \ {i} : intents'[j] = intents[j]
            /\ clock' = clock
    BY <1>1 DEF LeaseGranted
  <2>2. \A j \in Intents \ {i} : Held(j)' <=> Held(j)
    BY <2>1 DEF Held
  <2>3. HolderMap' = [HolderMap EXCEPT ![i] = "claimed"]
    BY <2>1, <2>2 DEF HolderMap
  <2>4. TokenMap' = [TokenMap EXCEPT ![i] = TokenMap[i] + 1]
    BY <2>1 DEF TokenMap
  <2>5. ActionLeases!Free(i)
    BY <2>1 DEF ActionLeases!Free
  <2> QED
    BY <2>3, <2>4, <2>5 DEF ActionLeases!Grant, ActionLeases!Next, HolderMap, TokenMap
<1>2. CASE RowsEnd
  <2> DEFINE S == {i \in Intents : ~Held(i)'}
  <2>1. \A i \in Intents : Held(i)' => Held(i)
    BY <1>0, <1>2 DEF RowsEnd, Held
  <2>2. HolderMap' = [i \in Intents |-> IF i \in S THEN "free" ELSE HolderMap[i]]
    BY <2>1 DEF HolderMap
  <2>3. TokenMap' = TokenMap
    BY <1>2 DEF RowsEnd, TokenMap
  <2> HIDE DEF S
  <2>4. S \in SUBSET Intents
    BY DEF S
  <2> QED
    BY <2>2, <2>3, <2>4 DEF ActionLeases!End, ActionLeases!Next, HolderMap, TokenMap
<1> QED
  BY <1>1, <1>2, GrantOrEnd

\* One claim of an intent at a time, a larger token with each, and no claim
\* that comes back from expiry.
THEOREM ImplementsActionLease ==
    ASSUME LockWait < ActionLease
    PROVE  GateSpec => ActionLeaseSpec
<1>1. GateInit => ActionLeases!Init
  BY DEF GateInit, ActionLeases!Init, Held, Leased
<1>2. GateInv /\ [GateNext]_gateVars => ActionLeases!Next
  BY ActionLeaseStep
<1> QED
  BY <1>1, <1>2, GateInvariant, PTL DEF GateSpec, ActionLeaseSpec, ActionLeases!Spec
-----------------------------------------------------------------------------
(* What a step does to an intent and its receipts: it moves rows that have   *)
(* not settled, grants one claim, or records the answer to the live one.     *)

Over == {"SUCCEEDED", "FAILED", "CANCELLED"}

Moves ==
    /\ receipts' = receipts
    /\ \A i \in Intents :
        \/ intents'[i] = intents[i]
        \/ /\ intents'[i].token = intents[i].token
           /\ intents[i].status \notin Over
           /\ intents'[i].status \in {"PENDING", "CANCELLED", "RECONCILE_REQUIRED"}

Claims ==
    /\ receipts' = receipts
    /\ \E i \in Intents :
        /\ intents[i].status \notin Over /\ intents'[i].status \in Leased
        /\ intents'[i].token = intents[i].token + 1
        /\ \A j \in Intents \ {i} : intents'[j] = intents[j]

Answers ==
    \E i \in Intents, o \in ReceiptOutcome :
        /\ intents[i].status \in Leased /\ intents'[i].status = Settled(o)
        /\ intents'[i].token = intents[i].token
        /\ \A j \in Intents \ {i} : intents'[j] = intents[j]
        /\ receipts' = receipts \cup {[intent |-> i, token |-> intents[i].token, outcome |-> o]}

LEMMA ClosedRowsMove == ASSUME OnlyCloses, receipts' = receipts PROVE Moves
  BY DEF OnlyCloses, Moves, Over

LEMMA GrantClaims ==
    ASSUME GateInv, NEW c \in Calls, NEW i \in Intents, NEW now \in Nat,
           NEW status \in Leased, NEW step \in {"claimed", "reconciling"},
           Grant(c, i, status, step, now), intents[i].status \notin Over
    PROVE  Claims
<1>1. RowTypes /\ CallsType
  BY DEF GateInv, GateTypeOK, RowTypes, CallsType
<1>2. /\ intents'[i].status = status /\ intents'[i].token = intents[i].token + 1
      /\ \A j \in Intents \ {i} : intents'[j] = intents[j]
      /\ receipts' = receipts
  BY <1>1, GrantFacts
<1> QED
  BY <1>2 DEF Claims

LEMMA CallStepCases ==
    ASSUME GateInv, NEW now \in Readings, NEW c \in Calls, CallStep(c, now)
    PROVE  Moves \/ Claims \/ Answers
<1>0. /\ RowTypes /\ attention \in Attention /\ now \in Nat
      /\ calls[c] # Idle => calls[c].intent \in Intents
  BY ReadingIsNat DEF GateInv, GateTypeOK, RowTypes, Call
<1>1. ASSUME NEW i \in Intents, CreateIntent(c, i) PROVE Moves
  <2>1. /\ receipts' = receipts
        /\ intents' = IF intents[i].status = "ABSENT"
                      THEN [intents EXCEPT ![i].status = "PENDING"] ELSE intents
    BY <1>1 DEF CreateIntent, IntentTo
  <2> QED
    BY <1>0, <2>1 DEF RowTypes, Intent, Moves, Over
<1>2. ASSUME \/ \E i \in Intents :
                    FindMissingApproval(c, i) \/ \E d \in Decisions : Decide(c, i, d)
             \/ CreateApproval(c, now) \/ Resume(c) \/ ClaimRefused(c) \/ Abandon(c)
             \/ Invoke(c)
      PROVE  Moves
  <2>1. UNCHANGED <<intents, receipts>>
    BY <1>2 DEF FindMissingApproval, Decide, CreateApproval, Resume, ClaimRefused, Abandon,
                Invoke, tables
  <2> QED
    BY <2>1 DEF Moves
<1>3. CASE Sweep(c, now)
  <2>1. OnlyCloses /\ receipts' = receipts
    BY <1>0, <1>3, ExpireFacts DEF Sweep
  <2> QED
    BY <2>1, ClosedRowsMove
<1>4. CASE DecideApproval(c)
  <2> DEFINE i == calls[c].intent
  <2>1. /\ i \in Intents /\ receipts' = receipts
        /\ \/ intents' = intents
           \/ /\ intents[i].status = "PENDING"
              /\ intents' = [intents EXCEPT ![i].status = "CANCELLED"]
    BY <1>0, <1>4 DEF DecideApproval, IntentTo, At
  <2> HIDE DEF i
  <2> QED
    BY <1>0, <2>1 DEF RowTypes, Intent, Moves, Over
<1>5. CASE ClaimAction(c, now)
  <2>1. calls[c].intent \in Intents /\ intents[calls[c].intent].status = "PENDING"
    BY <1>0, <1>5 DEF ClaimAction, At, Claimable
  <2> QED
    BY <1>0, <1>5, <2>1, GrantClaims DEF ClaimAction, Leased, Over
<1>6. ASSUME NEW i \in Intents, ClaimForReconciliation(c, i, now) PROVE Claims
  <2>1. intents[i].status \notin Over
    BY <1>6 DEF ClaimForReconciliation, LeaseOver, Leased, Over
  <2> QED
    BY <1>0, <1>6, <2>1, GrantClaims DEF ClaimForReconciliation, Leased
<1>7. ASSUME NEW o \in ReceiptOutcome, RecordReceipt(c, o, now) PROVE Answers
  <2> DEFINE i == calls[c].intent
             row == [intents[i] EXCEPT !.status = Settled(o), !.expires = 0]
  <2>1. /\ i \in Intents
        /\ intents[i].status \in Leased /\ calls[c].token = intents[i].token
        /\ intents' = [intents EXCEPT ![i] = row]
        /\ receipts' = receipts \cup
                {[intent |-> i, token |-> calls[c].token, outcome |-> o]}
    BY <1>0, <1>7 DEF RecordReceipt, At, LiveActionClaim, Leased
  <2>2. row.token = intents[i].token /\ row.status = Settled(o)
    BY <1>0, <2>1 DEF RowTypes, Intent
  <2> HIDE DEF row
  <2>3. /\ intents'[i].status = Settled(o) /\ intents'[i].token = intents[i].token
        /\ \A j \in Intents \ {i} : intents'[j] = intents[j]
    BY <1>0, <2>1, <2>2 DEF RowTypes
  <2> QED
    BY <2>1, <2>3 DEF Answers
<1> QED
  BY <1>1, <1>2, <1>3, <1>4, <1>5, <1>6, <1>7 DEF CallStep

LEMMA RowCases ==
    ASSUME GateInv, [GateNext]_gateVars
    PROVE  Moves \/ Claims \/ Answers
<1>0. RowTypes /\ attention \in Attention
  BY DEF GateInv, GateTypeOK, RowTypes
<1>1. ASSUME NEW S, CancelActions(S) PROVE Moves
  <2>1. OnlyCloses /\ receipts' = receipts
    BY <1>0, <1>1, CancelFacts
  <2> QED
    BY <2>1, ClosedRowsMove
<1>2. ASSUME \/ \E r \in Runs : \E a \in {attention, "DELIVERY_READY", "FAILED"} : EndRun(r, a)
             \/ Tick
             \/ UNCHANGED gateVars
      PROVE  Moves
  BY <1>2 DEF EndRun, Tick, gateVars, tables, Moves
<1>3. ASSUME NEW now \in Readings, CountApprovals(now) PROVE Moves
  <2>1. now \in Nat
    BY ReadingIsNat DEF GateInv
  <2>2. OnlyCloses /\ receipts' = receipts
    BY <1>0, <1>3, <2>1, ExpireFacts DEF CountApprovals
  <2> QED
    BY <2>2, ClosedRowsMove
<1>4. ASSUME NEW now \in Readings, RecoverIncomplete(now) PROVE Moves
  <2> DEFINE marked(i) == [intents[i] EXCEPT !.status = "RECONCILE_REQUIRED", !.expires = 0]
  <2>1. \A i \in Intents : /\ marked(i).token = intents[i].token
                           /\ marked(i).status = "RECONCILE_REQUIRED"
    BY <1>0 DEF RowTypes, Intent
  <2>2. /\ \A i \in Intents : \/ intents'[i] = intents[i]
                              \/ intents[i].status \in Leased /\ intents'[i] = marked(i)
        /\ receipts' = receipts
    BY <1>4 DEF RecoverIncomplete, LeaseOver
  <2> HIDE DEF marked
  <2> QED
    BY <2>1, <2>2 DEF Moves, Over, Leased
<1> QED
  BY <1>1, <1>2, <1>3, <1>4, CallStepCases
     DEF GateNext, ThreadStep, StartRun, CancelThread, RowStep

-----------------------------------------------------------------------------
(* Receipts.  A receipt is for a claim that was granted, and the newest      *)
(* claim has one only if it is over: so the answer recorded next is the      *)
(* first for its claim, and the newest claim alone can settle the intent.    *)

ReceiptsOfClaims ==
    \A r \in receipts :
        /\ r.token <= intents[r.intent].token
        /\ r.token = intents[r.intent].token => intents[r.intent].status \notin Leased

ReceiptInv == ReceiptsTellTheStatus /\ ReceiptsOfClaims

LEMMA ReceiptStep ==
    ASSUME GateInv, ReceiptInv, [GateNext]_gateVars
    PROVE  ReceiptInv'
<1> DEFINE settled(i, s) == [intent |-> i, token |-> intents[i].token, outcome |-> s]
<1>0. /\ \A i \in Intents : intents[i].token \in Nat
      /\ \A r \in receipts : /\ r.intent \in Intents /\ r.token \in Nat
                             /\ r.token <= intents[r.intent].token
                             /\ r.token = intents[r.intent].token =>
                                    intents[r.intent].status \notin Leased
      /\ \A i \in Intents, s \in {"SUCCEEDED", "FAILED"} :
            intents[i].status = s <=> settled(i, s) \in receipts
      /\ \A q, r \in receipts : q.intent = r.intent /\ q.token = r.token => q = r
  BY DEF GateInv, GateTypeOK, Intent, Receipt, ReceiptInv, ReceiptsTellTheStatus, ReceiptsOfClaims
<1>1. CASE Moves
  <2>1. \A i \in Intents :
            /\ intents'[i].token = intents[i].token
            /\ \/ intents'[i].status = intents[i].status
               \/ /\ intents[i].status \notin Over
                  /\ intents'[i].status \in {"PENDING", "CANCELLED", "RECONCILE_REQUIRED"}
    BY <1>1 DEF Moves
  <2>2. receipts' = receipts
    BY <1>1 DEF Moves
  <2>3. ReceiptsTellTheStatus'
    BY <1>0, <2>1, <2>2 DEF ReceiptsTellTheStatus, Over
  <2>4. ReceiptsOfClaims'
    BY <1>0, <2>1, <2>2 DEF ReceiptsOfClaims, Leased
  <2> QED
    BY <2>3, <2>4 DEF ReceiptInv
<1>2. CASE Claims
  <2>1. PICK i \in Intents :
            /\ intents[i].status \notin Over /\ intents'[i].status \in Leased
            /\ intents'[i].token = intents[i].token + 1
            /\ \A j \in Intents \ {i} : intents'[j] = intents[j]
    BY <1>2 DEF Claims
  <2>2. receipts' = receipts
    BY <1>2 DEF Claims
  <2>3. \A r \in receipts : r.intent = i => r.token < intents'[i].token
    BY <1>0, <2>1
  <2>4. \A s \in {"SUCCEEDED", "FAILED"} :
            /\ intents'[i].status # s
            /\ [intent |-> i, token |-> intents'[i].token, outcome |-> s] \notin receipts
    BY <1>0, <2>1, <2>3 DEF Leased
  <2>5. ReceiptsTellTheStatus'
    BY <1>0, <2>1, <2>2, <2>4 DEF ReceiptsTellTheStatus
  <2>6. ReceiptsOfClaims'
    BY <1>0, <2>1, <2>2, <2>3 DEF ReceiptsOfClaims
  <2> QED
    BY <2>5, <2>6 DEF ReceiptInv
<1>3. CASE Answers
  <2>1. PICK i \in Intents, o \in ReceiptOutcome :
            /\ intents[i].status \in Leased /\ intents'[i].status = Settled(o)
            /\ intents'[i].token = intents[i].token
            /\ \A j \in Intents \ {i} : intents'[j] = intents[j]
            /\ receipts' = receipts \cup {settled(i, o)}
    BY <1>3 DEF Answers
  <2>2. \A r \in receipts : r.intent = i => r.token # intents[i].token
    BY <1>0, <2>1
  <2>3. /\ Settled(o) \notin Leased
        /\ \A s \in {"SUCCEEDED", "FAILED"} : Settled(o) = s <=> o = s
    BY DEF Settled, ReceiptOutcome, Leased
  <2>4. \A s \in {"SUCCEEDED", "FAILED"} : settled(i, s) \in receipts' <=> o = s
    BY <2>1, <2>2
  <2>5. \A j \in Intents \ {i} : \A s : settled(j, s) \in receipts' <=> settled(j, s) \in receipts
    BY <2>1
  <2>6. \A j \in Intents, s \in {"SUCCEEDED", "FAILED"} :
            intents'[j].status = s <=>
                [intent |-> j, token |-> intents'[j].token, outcome |-> s] \in receipts'
    BY <1>0, <2>1, <2>3, <2>4, <2>5
  <2>7. \A q, r \in receipts' : q.intent = r.intent /\ q.token = r.token => q = r
    BY <1>0, <2>1, <2>2
  <2>8. ReceiptsTellTheStatus'
    BY <2>6, <2>7 DEF ReceiptsTellTheStatus
  <2>9. ReceiptsOfClaims'
    BY <1>0, <2>1, <2>3 DEF ReceiptsOfClaims
  <2> QED
    BY <2>8, <2>9 DEF ReceiptInv
<1> QED
  BY <1>1, <1>2, <1>3, RowCases

\* An intent has settled if and only if its newest claim left a final receipt,
\* and no claim leaves two, whichever lapse, come back late or are reconciled.
THEOREM ReceiptsAgree == GateSpec => []ReceiptsTellTheStatus
<1>1. GateInit => ReceiptInv
  BY DEF GateInit, ReceiptInv, ReceiptsTellTheStatus, ReceiptsOfClaims
<1>2. GateInv /\ ReceiptInv /\ [GateNext]_gateVars => ReceiptInv'
  BY ReceiptStep
<1>3. ReceiptInv => ReceiptsTellTheStatus
  BY DEF ReceiptInv
<1> QED
  BY <1>1, <1>2, <1>3, GateInvariant, PTL DEF GateSpec

\* An action that has settled or was cancelled stays as it was, whatever comes
\* late: a redelivered message, an expiry, a claim or an answer.
THEOREM SettledStays == GateSpec => SettledActionIsFinal
<1>1. ASSUME GateInv, [GateNext]_gateVars, NEW i \in Intents,
             intents[i].status \in {"SUCCEEDED", "FAILED", "CANCELLED"}
      PROVE  intents'[i] = intents[i]
  BY <1>1, RowCases DEF Moves, Claims, Answers, Over, Leased
<1>2. GateInv /\ [GateNext]_gateVars =>
        [\A i \in Intents : intents[i].status \in {"SUCCEEDED", "FAILED", "CANCELLED"}
            => intents'[i] = intents[i]]_gateVars
  BY <1>1
<1> QED
  BY <1>2, GateInvariant, PTL DEF GateSpec, SettledActionIsFinal

\* Every step that closes an approval looks at the ones that are left before it
\* leaves the Thread asking.
THEOREM RequestsAreLive == GateSpec => []NoStaleRequest
<1>1. GateInit => NoStaleRequest
  BY DEF GateInit, NoStaleRequest
<1>2. ASSUME GateInv, NoStaleRequest, [GateNext]_gateVars
      PROVE  NoStaleRequest'
  <2>0. /\ CallsType /\ approvals \in [Intents -> Approval]
        /\ \A c \in Calls : calls[c] # Idle => calls[c].intent \in Intents
    BY <1>2 DEF GateInv, GateTypeOK, CallsType, Call
  <2>1. ASSUME attention' \in {attention, "NONE", "DELIVERY_READY", "FAILED"},
               approvals' = approvals
        PROVE  NoStaleRequest'
    BY <1>2, <2>1 DEF NoStaleRequest, AnyPending
  <2>2. ASSUME attention' = ClearedUnlessPending(approvals') PROVE NoStaleRequest'
    BY <2>2 DEF NoStaleRequest, ClearedUnlessPending, AnyPending
  <2>3. ASSUME NEW S, CancelActions(S) PROVE NoStaleRequest'
    <3>1. CASE attention = "NEEDS_APPROVAL"
      BY <2>2, <2>3, <3>1 DEF CancelActions
    <3>2. CASE attention # "NEEDS_APPROVAL"
      BY <2>3, <3>2 DEF CancelActions, NoStaleRequest
    <3> QED
      BY <3>1, <3>2
  <2>4. ASSUME NEW now, ExpireApprovals(now) PROVE NoStaleRequest'
    <3> DEFINE lapsed == {i \in Intents : /\ approvals[i].status = "PENDING"
                                          /\ approvals[i].expires <= now}
    <3>1. /\ lapsed = {} => attention' = attention
          /\ lapsed # {} => attention' = ClearedUnlessPending(approvals')
          /\ approvals' = [i \in Intents |-> IF i \in lapsed
                            THEN [approvals[i] EXCEPT !.status = "EXPIRED"] ELSE approvals[i]]
      BY <2>4 DEF ExpireApprovals
    <3>2. CASE lapsed = {}
      <4>1. approvals' = approvals
        BY <2>0, <3>1, <3>2
      <4> QED
        BY <2>1, <3>1, <3>2, <4>1
    <3> QED
      BY <2>2, <3>1, <3>2
  <2>5. ASSUME NEW c \in Calls, NEW now, CreateApproval(c, now) PROVE NoStaleRequest'
    <3> DEFINE i == calls[c].intent
    <3>1. i \in Intents
      BY <2>0, <2>5 DEF CreateApproval, At
    <3>2. CASE approvals[i].status = "ABSENT"
      <4>1. approvals' = [approvals EXCEPT ![i] =
                                [status |-> "PENDING", expires |-> now + ApprovalTTL]]
        BY <2>5, <3>2 DEF CreateApproval
      <4>2. approvals'[i].status = "PENDING"
        BY <2>0, <3>1, <4>1
      <4> QED
        BY <3>1, <4>2 DEF NoStaleRequest, AnyPending
    <3> QED
      BY <2>1, <2>5, <3>2 DEF CreateApproval
  <2>6. ASSUME NEW c \in Calls, DecideApproval(c) PROVE NoStaleRequest'
    <3>1. \/ attention' = ClearedUnlessPending(approvals')
          \/ approvals' = approvals /\ attention' = attention
      BY <2>6 DEF DecideApproval
    <3> QED
      BY <2>1, <2>2, <3>1
  <2>7. ASSUME \/ \E r \in Runs : \E a \in {attention, "DELIVERY_READY", "FAILED"} : EndRun(r, a)
               \/ \E now \in Readings : RecoverIncomplete(now)
               \/ Tick
               \/ UNCHANGED gateVars
        PROVE  NoStaleRequest'
    BY <2>1, <2>7 DEF EndRun, RecoverIncomplete, Tick, gateVars, tables
  <2>8. ASSUME NEW c \in Calls, NEW now \in Readings, CallStep(c, now) PROVE NoStaleRequest'
    <3>1. CASE \/ \E i \in Intents :
                    \/ CreateIntent(c, i) \/ FindMissingApproval(c, i)
                    \/ \E d \in Decisions : Decide(c, i, d)
                    \/ ClaimForReconciliation(c, i, now)
               \/ Resume(c) \/ ClaimAction(c, now) \/ ClaimRefused(c) \/ Invoke(c)
               \/ \E o \in ReceiptOutcome : RecordReceipt(c, o, now)
               \/ Abandon(c)
      <4>1. UNCHANGED <<attention, approvals>>
        BY <3>1 DEF CreateIntent, FindMissingApproval, Decide, ClaimForReconciliation, Grant,
                    Resume, ClaimAction, ClaimRefused, Invoke, RecordReceipt, Abandon, tables
      <4> QED
        BY <2>1, <4>1
    <3> QED
      BY <2>4, <2>5, <2>6, <2>8, <3>1 DEF CallStep, Sweep
  <2> QED
    BY <1>2, <2>3, <2>4, <2>7, <2>8
       DEF GateNext, ThreadStep, StartRun, CancelThread, RowStep, CountApprovals
<1>3. GateInv /\ NoStaleRequest /\ [GateNext]_gateVars => NoStaleRequest'
  BY <1>2
<1> QED
  BY <1>1, <1>3, GateInvariant, PTL DEF GateSpec
=============================================================================
