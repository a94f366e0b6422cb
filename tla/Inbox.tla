------------------------------- MODULE Inbox -------------------------------
(***************************************************************************)
(* The inbox: messages of a chat delivered by a channel, routed, deduped,   *)
(* stored with their effect on a Thread in one transaction, and handed to   *)
(* the Agent; and the user's decisions on routes left open.  A call of the  *)
(* InboxCoordinator reads in several connections of its own and writes in a *)
(* last one, so other calls, Workers and commands come in between.          *)
(*                                                                          *)
(* Ids derived from the message key (uuid5) are the message: Thread m, Run  *)
(* <<m, "task">> or <<m, "update">>, branch m.  There is one chat, actor    *)
(* and project.  A GOAL_CHANGE differs from a SUPPLEMENT in the text of its *)
(* task snapshot only and counts as one; of a snapshot, the messages in its *)
(* context are kept.  The job of a Run and the intents cancelled with it    *)
(* are in modules Execution and ActionGate; whether one of its approvals is *)
(* still pending is left open here.                                         *)
(***************************************************************************)
EXTENDS Journal

CONSTANTS
    Texts,      \* what each message may say
    Kinds,      \* update kinds users put in the place of the router's
    None        \* no record, Thread or kind

ASSUME InboxAssumption ==
    /\ Threads \subseteq Messages       \* bound: the messages that may start a Task
    /\ Branches = Messages \cup {MainBranch}
    /\ Runs = Messages \X {"task", "update"}
    /\ None \notin Messages

UpdateKind == {"SUPPLEMENT", "METHOD_CHANGE", "CANCEL"}
RouteType == {"CHAT", "NEW_TASK", "THREAD_UPDATE", "CONTROL", "AMBIGUOUS"}
RouteState == {"PROPOSED", "CONFIRMED", "CORRECTED", "EXPIRED"}

\* What the router tells apart in a message.
Text == [cue : {"control", "task", "chat"}]
    \cup [cue : {"thread"}, thread : Threads, kind : UpdateKind]
    \cup [cue : {"continue"}, kind : UpdateKind]

InboxRecord == [type : RouteType, state : RouteState,
                thread : Threads \cup {None}, kind : UpdateKind \cup {None}]

ASSUME TextAssumption ==
    /\ Kinds \subseteq UpdateKind
    /\ Texts \in [Messages -> SUBSET Text]
    /\ \A m \in Messages \ Threads : \A text \in Texts[m] : text.cue # "task"
    /\ None \notin UpdateKind \cup InboxRecord

VARIABLES
    inbox,      \* inbox_messages
    handled     \* how often the Agent was handed each message

messageVars == <<events, stored, calls, inbox, handled>>

-----------------------------------------------------------------------------
(* Routing.                                                                 *)

\* list_active_thread_ids_for_chat
ActiveThreads ==
    {t \in Threads :
        /\ \E m \in Messages : /\ inbox[m] # None /\ inbox[m].thread = t
                               /\ inbox[m].state \in {"CONFIRMED", "CORRECTED"}
        /\ Exists(stored[t])
        /\ stored[t].thread.actual \notin {"CANCELLED", "ARCHIVED"}
        /\ stored[t].thread.desired = "RUN"}

\* Mutant of Route: a continuation is confirmed whichever Threads it may mean.
RouteNowhere(m, text, candidates) ==
    IF text.cue = "continue"
    THEN [type |-> "THREAD_UPDATE", state |-> "CONFIRMED", thread |-> None, kind |-> text.kind]
    ELSE [type |-> "NEW_TASK", state |-> "CONFIRMED", thread |-> m, kind |-> None]

\* ConservativeInboxRouter.route; candidates are the Threads a continuation may
\* be meant for: the one the channel names, or the active ones.
Route(m, text, candidates) ==
    LET record(type, state, t, kind) ==
            [type |-> type, state |-> state, thread |-> t, kind |-> kind]
    IN  IF text.cue = "control"     THEN record("CONTROL", "CONFIRMED", None, None)
        ELSE IF text.cue = "thread" THEN record("THREAD_UPDATE", "CONFIRMED", text.thread, text.kind)
        ELSE IF text.cue = "task"   THEN record("NEW_TASK", "CONFIRMED", m, None)
        ELSE IF text.cue = "chat"   THEN record("CHAT", "CONFIRMED", None, None)
        ELSE IF \E t \in candidates : candidates = {t}
             THEN record("THREAD_UPDATE", "CONFIRMED",
                         CHOOSE t \in candidates : TRUE, text.kind)
        ELSE record("AMBIGUOUS", "PROPOSED", None, text.kind)

\* A route with an effect: one that is settled.
Settled(record) == record.state \in {"CONFIRMED", "CORRECTED"}
Updates(record) == Settled(record) /\ record.type = "THREAD_UPDATE"
Submits(record) == Settled(record) /\ record.type = "NEW_TASK"

-----------------------------------------------------------------------------
(* The events of an effect.                                                 *)

\* _submit_task_in_transaction
TaskEvents(m) ==
    LET r == <<m, "task">>
    IN  <<[type |-> "thread.created"],
          [type |-> "run.created", run |-> r, branch |-> MainBranch],
          [type |-> "run.snapshots_bound", run |-> r, context |-> <<m>>],
          RunMoves(r, "CREATED", "QUEUED"),
          ThreadMoves("CREATED", "QUEUED")>>

RunsOf(p) == {r \in Runs : HasRun(p, r)}

\* The Runs of S that were created last.
Newest(a, S) == {r \in S : \A q \in S : a.born[q] <= a.born[r]}

\* Mutant of Basis: the oldest Run.
FirstRun(a) == {r \in RunsOf(a.thread) :
                    \A q \in RunsOf(a.thread) : a.born[r] <= a.born[q]}

\* The Run an update takes over from, in _prepare_thread_update.
Basis(a) ==
    LET newest == Newest(a, {r \in RunsOf(a.thread) :
                                a.thread.runs[r].branch = a.thread.branch})
    IN  IF newest # {} THEN newest ELSE Newest(a, RunsOf(a.thread))

\* What the Runs of S have been told.
Context(a, S) == IF S = {} THEN <<>> ELSE a.context[CHOOSE r \in S : TRUE]

\* Whether an approval of the Thread is pending once its Runs are cancelled.
PendingApprovals(p) == IF p.attention = "NEEDS_APPROVAL" THEN BOOLEAN ELSE {FALSE}

\* _cancel_runs_for_update
CancelEvents(p, S, pending) ==
    LET open == SetToSeq({r \in S : OpenRun(p, r)})
    IN  [i \in DOMAIN open |-> RunMoves(open[i], p.runs[open[i]].state, "CANCELLED")]
        \o (IF p.attention = "NEEDS_APPROVAL" /\ ~pending
            THEN <<AttentionMoves("NEEDS_APPROVAL", "NONE")>> ELSE <<>>)

\* _apply_thread_update_in_transaction for a CANCEL
CancellationEvents(m, p, pending) ==
    <<[type |-> "thread.message_appended", message |-> m]>>
    \o (IF p.desired = "CANCEL" THEN <<>> ELSE <<DesiredMoves(p.desired, "CANCEL")>>)
    \o CancelEvents(p, RunsOf(p), pending)
    \o <<ThreadMoves(p.actual, "CANCELLED")>>

\* ... and for the other kinds.  What is cancelled, the branch and the context
\* come from the projection the submission was prepared from, seen; the states
\* left come from the one the transaction finds, p.
RevisionEvents(m, kind, seen, p, pending) ==
    LET old == seen.thread
        b   == IF kind = "METHOD_CHANGE" THEN m ELSE old.branch
        r   == <<m, "update">>
    IN  <<[type |-> "thread.message_appended", message |-> m]>>
        \o CancelEvents(p, {q \in Runs : OpenRun(old, q) /\ old.runs[q].branch = old.branch}, pending)
        \o (IF kind = "METHOD_CHANGE"
            THEN <<[type |-> "thread.branch_forked", branch |-> b, from |-> old.branch],
                   [type |-> "thread.branch_selected", branch |-> b]>>
            ELSE <<>>)
        \o <<[type |-> "run.created", run |-> r, branch |-> b],
             [type |-> "run.snapshots_bound", run |-> r,
              context |-> Append(Context(seen, Basis(seen)), m)],
             RunMoves(r, "CREATED", "QUEUED")>>
        \o (IF p.actual = "QUEUED" THEN <<>> ELSE <<ThreadMoves(p.actual, "QUEUED")>>)

-----------------------------------------------------------------------------
(* The effects.                                                             *)

SubmitTask(m) ==
    IF Exists(stored[m]) THEN UNCHANGED <<events, stored>> ELSE Commit(m, TaskEvents(m))

UpdateThread(m, record, seen) ==
    LET t == record.thread
        p == stored[t].thread
    IN  /\ Current(t, seen.revision)
        /\ p.actual \notin {"CANCELLED", "ARCHIVED"}
        /\ \E pending \in PendingApprovals(p) :
            IF record.kind = "CANCEL"
            THEN p.actual # "DELIVERED" /\ Commit(t, CancellationEvents(m, p, pending))
            ELSE /\ p.desired = "RUN"
                 /\ Commit(t, RevisionEvents(m, record.kind, seen, p, pending))

Effect(m, record, seen) ==
    CASE Submits(record) -> SubmitTask(m)
      [] Updates(record) -> UpdateThread(m, record, seen)
      [] OTHER           -> UNCHANGED <<events, stored>>

-----------------------------------------------------------------------------
(* Calls.                                                                   *)

At(c, op) == calls[c] # Idle /\ calls[c].op = op

\* A delivery, the first or another: IngressAdapter.receive and accept, up to the
\* route.  Candidates are the Threads the channel names or the active ones.  A
\* message found stored ends the call, returned as a duplicate or, with another
\* text, refused; what is stored after this look is met by the transaction.
Receive(c, m, text, candidates) ==
    /\ calls[c] = Idle
    /\ inbox[m] = None
    /\ Become(c, [op |-> "routed", message |-> m, record |-> Route(m, text, candidates)])
    /\ UNCHANGED <<events, stored, inbox, handled>>

\* _prepare_thread_update reads the Thread.
Prepare(c) ==
    /\ At(c, "routed") /\ Updates(calls[c].record)
    /\ Exists(stored[calls[c].record.thread])
    /\ Become(c, [op |-> "prepared", message |-> calls[c].message,
                  record |-> calls[c].record, seen |-> stored[calls[c].record.thread]])
    /\ UNCHANGED <<events, stored, inbox, handled>>

Ready(c) == \/ At(c, "routed") /\ ~Updates(calls[c].record)
            \/ At(c, "prepared")

Seen(c) == IF At(c, "prepared") THEN calls[c].seen ELSE Empty

\* Mutant of AfterDuplicate: a duplicate is reported as new.
AfterAnyMessage(m) == [op |-> "handle", message |-> m]

AfterDuplicate(m) == Idle

\* Mutant of AcceptInboxRoute: the record is stored apart from its effect.
AcceptRecordOnly(c) ==
    LET m == calls[c].message
    IN  /\ Ready(c) /\ calls[c].record.state \in {"CONFIRMED", "PROPOSED"}
        /\ inbox[m] = None
        /\ inbox' = [inbox EXCEPT ![m] = calls[c].record]
        /\ Become(c, [op |-> "handle", message |-> m])
        /\ UNCHANGED <<events, stored, handled>>

\* accept_inbox_route
AcceptInboxRoute(c) ==
    LET m == calls[c].message
    IN  /\ Ready(c) /\ calls[c].record.state \in {"CONFIRMED", "PROPOSED"}
        /\ IF inbox[m] # None
           THEN UNCHANGED <<inbox, events, stored>> /\ Become(c, AfterDuplicate(m))
           ELSE /\ inbox' = [inbox EXCEPT ![m] = calls[c].record]
                /\ Effect(m, calls[c].record, Seen(c))
                /\ Become(c, [op |-> "handle", message |-> m])
        /\ UNCHANGED handled

\* FeishuWebhookService hands a new message to the Agent.
Handle(c) ==
    /\ At(c, "handle")
    /\ handled' = [handled EXCEPT ![calls[c].message] = @ + 1]
    /\ Become(c, Idle)
    /\ UNCHANGED <<events, stored, inbox>>

Corrected(m, type, t, kind) ==
    [inbox[m] EXCEPT !.type = type, !.state = "CORRECTED", !.thread = t, !.kind = kind]

\* The records resolve_route may make of an open route.
Decisions(m) ==
    {[inbox[m] EXCEPT !.state = "EXPIRED"]}
    \cup {Corrected(m, "THREAD_UPDATE", t, kind) : t \in Threads, kind \in Kinds \cup {inbox[m].kind}}
    \cup {Corrected(m, "NEW_TASK", t, None) : t \in Threads \cap {m}}

\* resolve_route, up to its transaction; a settled route is returned or raises.
DecideRoute(c, m) ==
    /\ calls[c] = Idle
    /\ inbox[m] # None /\ inbox[m].state = "PROPOSED"
    /\ \E record \in Decisions(m) :
            Become(c, [op |-> "routed", message |-> m, record |-> record])
    /\ UNCHANGED <<events, stored, inbox, handled>>

\* Mutant of StillProposed: only the first read of the record is trusted.
EverProposed(m) == TRUE

StillProposed(m) == inbox[m].state = "PROPOSED"

\* resolve_inbox_route
ResolveInboxRoute(c) ==
    LET m == calls[c].message
    IN  /\ Ready(c) /\ calls[c].record.state \in {"CORRECTED", "EXPIRED"}
        /\ IF StillProposed(m)
           THEN /\ inbox' = [inbox EXCEPT ![m] = calls[c].record]
                /\ Effect(m, calls[c].record, Seen(c))
           ELSE UNCHANGED <<inbox, events, stored>>
        /\ Become(c, Idle)
        /\ UNCHANGED handled

-----------------------------------------------------------------------------

InboxInit ==
    /\ JournalInit
    /\ inbox = [m \in Messages |-> None]
    /\ handled = [m \in Messages |-> 0]

CallNext(c) ==
    \/ \E m \in Messages : \E text \in Texts[m] :
        \/ Receive(c, m, text, ActiveThreads)
        \/ text.cue = "continue" /\ \E t \in Threads : Receive(c, m, text, {t})
    \/ Prepare(c)
    \/ AcceptInboxRoute(c)
    \/ Handle(c)
    \/ \E m \in Messages : DecideRoute(c, m)
    \/ ResolveInboxRoute(c)

InboxNext ==
    \/ \E c \in Callers : CallNext(c)
    \/ JournalNext /\ UNCHANGED <<inbox, handled>>

InboxSpec == InboxInit /\ [][InboxNext]_messageVars

-----------------------------------------------------------------------------
(* Properties.                                                              *)

WellRouted(m, record) ==
    /\ record \in InboxRecord
    /\ Updates(record) => record.thread # None /\ record.kind # None
    /\ Submits(record) => record.thread = m

\* The type invariant; a settled route names the Thread it is about, in the
\* table and in the hands of a caller that is about to store it.
InboxTypeOK ==
    /\ events \in [Threads -> Seq(Event)]
    /\ \A t \in Threads : Exists(stored[t]) => stored[t].thread \in ThreadProjection
    /\ \A m \in Messages : inbox[m] # None => WellRouted(m, inbox[m])
    /\ \A c \in Callers : At(c, "routed") \/ At(c, "prepared") =>
            WellRouted(calls[c].message, calls[c].record)
    /\ handled \in [Messages -> Nat]

\* A message has the effect its record says and no other: it started a Task or
\* changed a Thread just when its settled route says which, and never both.
EffectAsRecorded ==
    \A m \in Messages :
        LET settled == inbox[m] # None /\ Settled(inbox[m])
        IN  /\ {t \in Threads : m \in stored[t].updates} =
                    {t \in Threads : settled /\ Updates(inbox[m]) /\ inbox[m].thread = t}
            /\ m \in Threads => (Exists(stored[m]) <=> settled /\ Submits(inbox[m]))

\* However often a message is delivered, the Agent is handed it once at most,
\* and never before it is stored.
HandledOnce ==
    \A m \in Messages : handled[m] > 0 => handled[m] = 1 /\ inbox[m] # None

\* A decision on a route, by the router or the user, is never taken back,
\* though two users' decisions may both have found it open.
SettledRouteIsFinal ==
    [][\A m \in Messages :
        inbox[m] # None /\ inbox[m].state # "PROPOSED" => inbox'[m] = inbox[m]]_messageVars

\* The journal and the inbox together keep the abstract inbox's promises; the
\* newest Run is the one the next update would take over from.
OutcomeOf(record) ==
    IF record = None THEN "none"
    ELSE IF record.state = "PROPOSED" THEN "proposed"
    ELSE IF record.state = "EXPIRED" THEN "dropped"
    ELSE IF Submits(record) THEN "task"
    ELSE IF Updates(record) THEN record.thread
    ELSE "aside"
ToldOf(a) == IF Exists(a) THEN Context(a, Basis(a)) ELSE <<>>

Outcomes == [m \in Messages |-> OutcomeOf(inbox[m])]
ToldContexts == [t \in Threads |-> ToldOf(stored[t])]
ClosedThreads == {t \in Threads : /\ Exists(stored[t])
                                  /\ stored[t].thread.actual \in {"CANCELLED", "ARCHIVED"}}

Promised == INSTANCE DurableInbox WITH
    outcome <- Outcomes, told <- ToldContexts, closed <- ClosedThreads

DurableInboxSpec == Promised!Spec
=============================================================================
