--------------------------- MODULE ThreadReducer ---------------------------
(***************************************************************************)
(* reduce_thread: the pure reducer of the Thread + Run aggregate.  One      *)
(* operator per event type takes a projection to the next one, or to        *)
(* Invalid where the reducer raises InvalidTransition (the transaction that *)
(* inserted the event then rolls back).  Invalid stays Invalid, so a        *)
(* transaction that inserts several events composes the operators.          *)
(*                                                                          *)
(* Timestamps, titles, artifact ids and revisions are left out; a Run's     *)
(* three snapshot ids are one flag, since they are bound together.  NoRun   *)
(* is no Run, Invalid no projection: the modules that use this one say so.  *)
(***************************************************************************)
EXTENDS Integers

CONSTANTS
    Runs, Branches,
    MainBranch,     \* the branch a Thread starts on
    NoRun, Invalid

-----------------------------------------------------------------------------
(* States and the two transition tables.                                    *)

ThreadState == {"CREATED", "DORMANT", "QUEUED", "RUNNING", "WAITING_USER",
    "WAITING_APPROVAL", "WAITING_RECEIPT", "WAITING_DEPENDENCY",
    "WAITING_RESOURCE", "VERIFYING", "DELIVERED", "FAILED", "PAUSED",
    "CANCELLED", "ARCHIVED"}
RunState == {"CREATED", "QUEUED", "RUNNING", "WAITING_USER",
    "WAITING_APPROVAL", "WAITING_RECEIPT", "WAITING_DEPENDENCY",
    "WAITING_RESOURCE", "VERIFYING", "COMPLETED", "PARTIAL", "FAILED",
    "QUARANTINED", "CANCELLED"}
TerminalRunState == {"COMPLETED", "PARTIAL", "FAILED", "QUARANTINED", "CANCELLED"}
DesiredState == {"RUN", "PAUSE", "CANCEL", "ARCHIVE"}
AttentionState == {"NONE", "NEEDS_INPUT", "NEEDS_APPROVAL", "HAS_CONFLICT",
    "DELIVERY_READY", "FAILED"}
BranchStatus == {"ACTIVE", "SELECTED", "REJECTED", "MERGED"}

Waiting == {"WAITING_USER", "WAITING_APPROVAL", "WAITING_RECEIPT",
    "WAITING_DEPENDENCY", "WAITING_RESOURCE"}

\* THREAD_TRANSITIONS
ThreadTransitions == [s \in ThreadState |->
    CASE s = "CREATED"   -> {"DORMANT", "QUEUED", "RUNNING", "CANCELLED"}
      [] s = "DORMANT"   -> {"QUEUED", "RUNNING", "CANCELLED", "ARCHIVED"}
      [] s = "QUEUED"    -> {"RUNNING", "WAITING_RESOURCE", "PAUSED", "FAILED",
                             "CANCELLED"}
      [] s = "RUNNING"   -> {"DORMANT", "QUEUED", "VERIFYING", "DELIVERED",
                             "FAILED", "PAUSED", "CANCELLED"} \cup Waiting
      [] s \in {"WAITING_USER", "WAITING_APPROVAL"} ->
                            {"QUEUED", "RUNNING", "PAUSED", "FAILED", "CANCELLED"}
      [] s = "WAITING_RECEIPT" -> {"QUEUED", "RUNNING", "VERIFYING", "PAUSED",
                                   "FAILED", "CANCELLED"}
      [] s \in {"WAITING_DEPENDENCY", "WAITING_RESOURCE"} ->
                            {"QUEUED", "RUNNING", "FAILED", "CANCELLED"}
      [] s = "VERIFYING" -> {"QUEUED", "RUNNING", "DELIVERED", "FAILED",
                             "PAUSED", "CANCELLED"}
      [] s = "DELIVERED" -> {"QUEUED", "RUNNING", "ARCHIVED"}
      [] s \in {"FAILED", "PAUSED"} -> {"QUEUED", "RUNNING", "CANCELLED", "ARCHIVED"}
      [] s = "CANCELLED" -> {"ARCHIVED"}
      [] s = "ARCHIVED"  -> {}]

\* RUN_TRANSITIONS
RunTransitions == [s \in RunState |->
    CASE s = "CREATED"   -> {"QUEUED", "RUNNING", "CANCELLED"}
      [] s = "QUEUED"    -> {"RUNNING", "WAITING_RESOURCE", "FAILED", "CANCELLED"}
      [] s = "RUNNING"   -> {"QUEUED", "VERIFYING"} \cup Waiting \cup TerminalRunState
      [] s \in {"WAITING_USER", "WAITING_APPROVAL"} ->
                            {"RUNNING", "FAILED", "QUARANTINED", "CANCELLED"}
      [] s = "WAITING_RECEIPT" -> {"RUNNING", "VERIFYING", "FAILED",
                                   "QUARANTINED", "CANCELLED"}
      [] s \in {"WAITING_DEPENDENCY", "WAITING_RESOURCE"} ->
                            {"QUEUED", "RUNNING", "FAILED", "CANCELLED"}
      [] s = "VERIFYING" -> {"RUNNING"} \cup TerminalRunState
      [] s \in TerminalRunState -> {}]

-----------------------------------------------------------------------------
(* Projections.                                                             *)

\* A Run that was never created is "ABSENT"; checkpoint is its sequence.
RunProjection == [state : RunState \cup {"ABSENT"}, branch : Branches,
                  bound : BOOLEAN, checkpoint : Nat]
ThreadProjection ==
    [actual : ThreadState, desired : DesiredState, attention : AttentionState,
     active : Runs \cup {NoRun}, branch : Branches,
     branches : [Branches -> BranchStatus \cup {"ABSENT"}],
     runs : [Runs -> RunProjection]]

AbsentRun == [state |-> "ABSENT", branch |-> MainBranch, bound |-> FALSE,
              checkpoint |-> 0]

HasRun(p, r) == p # Invalid /\ p.runs[r].state # "ABSENT"
HasBranch(p, b) == p # Invalid /\ p.branches[b] # "ABSENT"
OpenRun(p, r) == HasRun(p, r) /\ p.runs[r].state \notin TerminalRunState

-----------------------------------------------------------------------------
(* The events.                                                              *)

\* thread.created
NewThread ==
    [actual |-> "CREATED", desired |-> "RUN", attention |-> "NONE",
     active |-> NoRun, branch |-> MainBranch,
     branches |-> [b \in Branches |-> "ABSENT"],
     runs |-> [r \in Runs |-> AbsentRun]]

\* thread.state_changed
ThreadTo(p, s) ==
    IF p # Invalid /\ s \in ThreadTransitions[p.actual]
    THEN [p EXCEPT !.actual = s] ELSE Invalid

\* thread.desired_state_changed and thread.attention_changed: unchecked
DesiredTo(p, s) == IF p # Invalid THEN [p EXCEPT !.desired = s] ELSE Invalid
AttentionTo(p, s) == IF p # Invalid THEN [p EXCEPT !.attention = s] ELSE Invalid

\* thread.branch_forked: the branch forked from is recorded on its first fork
ForkBranch(p, b, from) ==
    IF p # Invalid /\ ~HasBranch(p, b)
    THEN [p EXCEPT !.branches =
            [c \in Branches |->
                IF c = b THEN "ACTIVE"
                ELSE IF c = from /\ p.branches[c] = "ABSENT" THEN "SELECTED"
                ELSE p.branches[c]]]
    ELSE Invalid

\* thread.branch_selected
SelectBranch(p, b) ==
    IF HasBranch(p, b)
    THEN [p EXCEPT !.branch = b,
                   !.branches = [c \in Branches |->
                        IF c = b THEN "SELECTED"
                        ELSE IF p.branches[c] = "SELECTED" THEN "ACTIVE"
                        ELSE p.branches[c]]]
    ELSE Invalid

\* run.created: the Thread moves to the Run's branch
CreateRun(p, r, b) ==
    IF p # Invalid /\ ~HasRun(p, r)
    THEN [p EXCEPT !.branch = b,
                   !.runs[r] = [AbsentRun EXCEPT !.state = "CREATED", !.branch = b]]
    ELSE Invalid

\* run.state_changed: the Thread runs one Run at a time, its active Run, until
\* that Run ends; a Run that waits or is queued for a retry stays active
RunTo(p, r, s) ==
    IF /\ HasRun(p, r)
       /\ s \in RunTransitions[p.runs[r].state]
       /\ s = "RUNNING" => p.active \in {NoRun, r}
    THEN [p EXCEPT !.runs[r].state = s,
                   !.active = IF s = "RUNNING" THEN r
                              ELSE IF s \in TerminalRunState /\ p.active = r
                              THEN NoRun ELSE p.active]
    ELSE Invalid

\* run.snapshots_bound: once, before the Run starts
BindSnapshots(p, r) ==
    IF HasRun(p, r) /\ p.runs[r].state \in {"CREATED", "QUEUED"} /\ ~p.runs[r].bound
    THEN [p EXCEPT !.runs[r].bound = TRUE] ELSE Invalid

\* run.checkpoint_recorded: the sequence has no gap and ends with the Run
Checkpoint(p, r, sequence) ==
    IF OpenRun(p, r) /\ sequence = p.runs[r].checkpoint + 1
    THEN [p EXCEPT !.runs[r].checkpoint = sequence] ELSE Invalid

-----------------------------------------------------------------------------
(* _cancel_runs_for_update: run.state_changed to CANCELLED for every open   *)
(* Run of S.  Every open state allows it, so it never raises.               *)
CancelOpenRuns(p, S) ==
    LET open == {r \in S : OpenRun(p, r)}
    IN  [p EXCEPT !.runs = [r \in Runs |->
                    IF r \in open THEN [p.runs[r] EXCEPT !.state = "CANCELLED"]
                    ELSE p.runs[r]],
                  !.active = IF p.active \in open THEN NoRun ELSE p.active]
=============================================================================
