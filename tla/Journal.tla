------------------------------ MODULE Journal ------------------------------
(***************************************************************************)
(* The event journal of the Threads and the projections made from it.  A    *)
(* transaction builds its events from the projection it reads, inserts      *)
(* them, reduces them one by one and stores the result; when the reducer    *)
(* refuses an event all of it rolls back.  Here are the transactions of     *)
(* the library's own commands, which read the Thread in one connection and  *)
(* append in another, those of a Worker, and the replay check; module Inbox *)
(* adds the user's messages.                                                *)
(*                                                                          *)
(* An event is its type and the part of its payload a projection is made    *)
(* of; its place in the stream is its sequence number.  Event ids are drawn *)
(* fresh by every command, so an append never meets its own events again.   *)
(* Leases and jobs are those of module Execution.                           *)
(***************************************************************************)
EXTENDS Integers, SequencesExt

CONSTANTS
    Threads,
    Messages,                               \* user messages, which Runs are told
    Runs, Branches, MainBranch, NoRun, Invalid,     \* see ThreadReducer
    Callers,        \* threads of control that call the repository
    Idle,           \* the state of a Caller with no call
    Commands,       \* the commands callers give, with their targets
    MaxCommanded,   \* bound: commands leave a stream of so many events alone
    MaxWorked       \* bound: and so do Workers and replay checks

INSTANCE ThreadReducer

ASSUME JournalAssumption ==
    /\ MainBranch \in Branches
    /\ NoRun \notin Runs
    /\ Invalid \notin ThreadProjection
    /\ {MaxCommanded, MaxWorked} \subseteq Nat
    /\ Commands \subseteq
            [type : {"thread.state_changed"}, to : ThreadState]
            \cup [type : {"thread.desired_state_changed"}, to : DesiredState]
            \cup [type : {"thread.attention_changed"}, to : AttentionState]
            \cup [type : {"run.state_changed"}, to : RunState]

VARIABLES
    events,     \* runtime_events: the stream of each Thread
    stored,     \* thread_projections
    calls       \* the call each Caller is in, with what it has read

journalVars == <<events, stored, calls>>

-----------------------------------------------------------------------------
(* Events.                                                                  *)

Event == [type : {"thread.created", "delivery.recorded"}]
    \cup [type : {"thread.state_changed"}, from : ThreadState, to : ThreadState]
    \cup [type : {"thread.desired_state_changed"}, from : DesiredState, to : DesiredState]
    \cup [type : {"thread.attention_changed"}, from : AttentionState, to : AttentionState]
    \cup [type : {"thread.message_appended"}, message : Messages]
    \cup [type : {"thread.branch_forked"}, branch : Branches, from : Branches]
    \cup [type : {"thread.branch_selected"}, branch : Branches]
    \cup [type : {"run.created"}, run : Runs, branch : Branches]
    \cup [type : {"run.snapshots_bound"}, run : Runs, context : Seq(Messages)]
    \cup [type : {"run.state_changed"}, run : Runs, from : RunState, to : RunState]
    \cup [type : {"run.checkpoint_recorded"}, run : Runs, sequence : Nat]

ThreadMoves(from, to) == [type |-> "thread.state_changed", from |-> from, to |-> to]
DesiredMoves(from, to) ==
    [type |-> "thread.desired_state_changed", from |-> from, to |-> to]
AttentionMoves(from, to) == [type |-> "thread.attention_changed", from |-> from, to |-> to]
RunMoves(r, from, to) == [type |-> "run.state_changed", run |-> r, from |-> from, to |-> to]

-----------------------------------------------------------------------------
(* Projections: the Thread and its Runs, and what the reducer keeps beside  *)
(* them: the messages appended, the event that created each Run, and the    *)
(* messages in the context its snapshots froze.                             *)

Empty == [thread |-> Invalid, revision |-> 0, updates |-> {},
          born |-> [r \in Runs |-> 0], context |-> [r \in Runs |-> <<>>]]
Refused == [Empty EXCEPT !.revision = -1]

Exists(a) == a.thread # Invalid

\* The Thread and its Runs after e; a change of state names the state it leaves.
ReduceThread(p, e) ==
    CASE e.type = "thread.state_changed" ->
            IF p.actual = e.from THEN ThreadTo(p, e.to) ELSE Invalid
      [] e.type = "thread.desired_state_changed" -> DesiredTo(p, e.to)
      [] e.type = "thread.attention_changed" -> AttentionTo(p, e.to)
      [] e.type = "thread.branch_forked" -> ForkBranch(p, e.branch, e.from)
      [] e.type = "thread.branch_selected" -> SelectBranch(p, e.branch)
      [] e.type = "run.created" -> CreateRun(p, e.run, e.branch)
      [] e.type = "run.snapshots_bound" -> BindSnapshots(p, e.run)
      [] e.type = "run.state_changed" ->
            IF p.runs[e.run].state = e.from THEN RunTo(p, e.run, e.to) ELSE Invalid
      [] e.type = "run.checkpoint_recorded" -> Checkpoint(p, e.run, e.sequence)
      [] e.type \in {"thread.message_appended", "delivery.recorded"} -> p
      [] OTHER -> Invalid

\* reduce_thread, for the n-th event of a stream.
Reduce(a, e, n) ==
    LET p == IF e.type = "thread.created" /\ a = Empty THEN NewThread
             ELSE IF Exists(a) THEN ReduceThread(a.thread, e) ELSE Invalid
    IN  IF p = Invalid \/ (e.type = "thread.message_appended" /\ e.message \in a.updates)
        THEN Refused
        ELSE [thread |-> p,
              revision |-> n,
              updates |-> IF e.type = "thread.message_appended"
                          THEN a.updates \cup {e.message} ELSE a.updates,
              born |-> IF e.type = "run.created"
                       THEN [a.born EXCEPT ![e.run] = n] ELSE a.born,
              context |-> IF e.type = "run.snapshots_bound"
                          THEN [a.context EXCEPT ![e.run] = e.context] ELSE a.context]

\* The projections after each of the drafts that follow n events.
Reductions(a, drafts, n) ==
    LET after[i \in 0..Len(drafts)] ==
            IF i = 0 THEN a ELSE Reduce(after[i - 1], drafts[i], n + i)
    IN  after

\* replay_thread, of the first n events of a stream
Replay(stream, n) == Reductions(Empty, stream, 0)[n]

-----------------------------------------------------------------------------
(* Transactions.                                                            *)

Reduced(t, drafts) == Reductions(stored[t], drafts, Len(events[t]))[Len(drafts)]

\* Mutant of Stored: the revision counts transactions, not events.
StoredPerTransaction(t, drafts) ==
    IF Reduced(t, drafts) = Refused THEN Refused
    ELSE [Reduced(t, drafts) EXCEPT !.revision = stored[t].revision + 1]

\* _upsert_thread_projection
Stored(t, drafts) == Reduced(t, drafts)

Commit(t, drafts) ==
    /\ Stored(t, drafts) # Refused
    /\ events' = [events EXCEPT ![t] = @ \o drafts]
    /\ stored' = [stored EXCEPT ![t] = Stored(t, drafts)]

Become(c, call) == calls' = [calls EXCEPT ![c] = call]

-----------------------------------------------------------------------------
(* Commands.                                                                *)

\* The event a command asks for, when the Thread is as p says.
Drafted(command, r, p) ==
    CASE command.type = "thread.state_changed" -> ThreadMoves(p.actual, command.to)
      [] command.type = "thread.desired_state_changed" -> DesiredMoves(p.desired, command.to)
      [] command.type = "thread.attention_changed" -> AttentionMoves(p.attention, command.to)
      [] command.type = "run.state_changed" -> RunMoves(r, p.runs[r].state, command.to)

\* transition_thread, set_desired_state, set_attention and transition_run, up
\* to their append.  Their caller passes the revision it last saw; revisions
\* only grow, so one older than this read is bound to be refused, and only
\* the newest matters.
Command(c, t, command, r) ==
    /\ calls[c] = Idle
    /\ Exists(stored[t])
    /\ IF command.type = "run.state_changed"
       THEN r \in Runs /\ HasRun(stored[t].thread, r) ELSE r = NoRun
    /\ Len(events[t]) < MaxCommanded
    /\ Become(c, [op |-> "append", thread |-> t, expected |-> stored[t].revision,
                  draft |-> Drafted(command, r, stored[t].thread)])
    /\ UNCHANGED <<events, stored>>

\* Mutant of Current: the caller's revision is not compared.
AnyRevision(t, expected) == TRUE

Current(t, expected) == stored[t].revision = expected

\* append_thread_events
AppendEvents(c) ==
    /\ calls[c] # Idle /\ calls[c].op = "append"
    /\ Current(calls[c].thread, calls[c].expected)
    /\ Commit(calls[c].thread, <<calls[c].draft>>)
    /\ Become(c, Idle)

\* verify_thread_replay: the projection is read in one connection ...
Verify(c, t) ==
    /\ calls[c] = Idle
    /\ Exists(stored[t]) /\ Len(events[t]) < MaxWorked
    /\ Become(c, [op |-> "verify", thread |-> t, seen |-> stored[t]])
    /\ UNCHANGED <<events, stored>>

\* ... and compared with a replay of the events read in another.
Verdict(c) ==
    LET stream == events[calls[c].thread]
    IN  calls[c].seen = Replay(stream, Len(stream))

ReplayVerified(c) ==
    /\ calls[c] # Idle /\ calls[c].op = "verify"
    /\ Become(c, Idle)
    /\ UNCHANGED <<events, stored>>

\* Any call ends early when its process dies, and whatever it is about to do
\* may raise: a conflict, a missing row, an event the reducer refuses.
Fail(c) ==
    /\ calls[c] # Idle
    /\ Become(c, Idle)
    /\ UNCHANGED <<events, stored>>

-----------------------------------------------------------------------------
(* A Worker's transactions on the Thread of Run r.                          *)

Work(t, drafts) ==
    /\ Len(events[t]) < MaxWorked
    /\ Commit(t, drafts)
    /\ UNCHANGED calls

\* start_claimed_run; there is nothing to write when all is RUNNING already.
StartClaimedRun(t, r) ==
    LET p == stored[t].thread
    IN  /\ HasRun(p, r) /\ p.runs[r].bound
        /\ p.desired = "RUN"
        /\ Work(t, (IF p.actual = "RUNNING" THEN <<>>
                    ELSE <<ThreadMoves(p.actual, "RUNNING")>>)
                   \o (IF p.runs[r].state = "RUNNING" THEN <<>>
                       ELSE <<RunMoves(r, p.runs[r].state, "RUNNING")>>))

Active(p, r) == HasRun(p, r) /\ p.runs[r].state = "RUNNING" /\ p.active = r

\* record_claimed_run_checkpoint
RecordCheckpoint(t, r) ==
    LET p == stored[t].thread
    IN  /\ Active(p, r)
        /\ Work(t, <<[type |-> "run.checkpoint_recorded", run |-> r,
                      sequence |-> p.runs[r].checkpoint + 1]>>)

\* finalize_claimed_delivery
FinalizeDelivery(t, r) ==
    LET p == stored[t].thread
    IN  /\ Active(p, r)
        /\ Work(t, <<[type |-> "delivery.recorded"], RunMoves(r, "RUNNING", "COMPLETED"),
                     ThreadMoves(p.actual, "DELIVERED"),
                     AttentionMoves(p.attention, "DELIVERY_READY")>>)

\* finish_claimed_execution; outcome is the Run's next state.
FinishExecution(t, r, outcome) ==
    LET p    == stored[t].thread
        next == CASE outcome = "COMPLETED" -> "DORMANT"
                  [] outcome = "FAILED"    -> "FAILED"
                  [] outcome = "QUEUED"    -> "QUEUED"
    IN  /\ Active(p, r)
        /\ Work(t, <<RunMoves(r, "RUNNING", outcome), ThreadMoves(p.actual, next)>>
                   \o (IF outcome = "FAILED" /\ p.attention # "FAILED"
                       THEN <<AttentionMoves(p.attention, "FAILED")>> ELSE <<>>))

-----------------------------------------------------------------------------

JournalInit ==
    /\ events = [t \in Threads |-> <<>>]
    /\ stored = [t \in Threads |-> Empty]
    /\ calls = [c \in Callers |-> Idle]

JournalNext ==
    \/ \E c \in Callers :
        \/ \E t \in Threads, command \in Commands, r \in Runs \cup {NoRun} : Command(c, t, command, r)
        \/ AppendEvents(c)
        \/ \E t \in Threads : Verify(c, t)
        \/ ReplayVerified(c)
        \/ Fail(c)
    \/ \E t \in Threads, r \in Runs :
        \/ StartClaimedRun(t, r)
        \/ RecordCheckpoint(t, r)
        \/ FinalizeDelivery(t, r)
        \/ \E outcome \in {"COMPLETED", "FAILED", "QUEUED"} : FinishExecution(t, r, outcome)

-----------------------------------------------------------------------------
(* Properties.                                                              *)

\* What is stored is what the events replay to, and a replay check fails only
\* because the Thread moved on between its two reads: a projection read at some
\* revision is the replay of that many events and of no longer stream.
ProjectionsReplay ==
    /\ \A t \in Threads : stored[t] = Replay(events[t], Len(events[t]))
    /\ \A c \in Callers : calls[c] # Idle /\ calls[c].op = "verify" =>
            (Verdict(c) <=> calls[c].seen.revision = Len(events[calls[c].thread]))

\* The reducer takes a change of desired state or of attention whatever state it
\* says it leaves.  The journal is true all the same: that state is the one the
\* Thread had, though a command read it outside the transaction that appends.
EventsTellTheirSource ==
    \A t \in Threads : \A i \in 1..Len(events[t]) :
        LET e      == events[t][i]
            before == Replay(events[t], i - 1).thread
        IN  /\ e.type = "thread.desired_state_changed" => e.from = before.desired
            /\ e.type = "thread.attention_changed" => e.from = before.attention
=============================================================================
