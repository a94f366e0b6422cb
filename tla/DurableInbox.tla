---------------------------- MODULE DurableInbox ----------------------------
(***************************************************************************)
(* What the inbox promises for the messages of a chat, however often they   *)
(* are delivered and whoever else writes the Threads: each is set aside,    *)
(* starts one Task, changes one Thread, or waits for a decision that is     *)
(* made once; and the current Run of a Thread has been told every message   *)
(* that changed the Thread, each once, in the order in which they did.      *)
(***************************************************************************)
EXTENDS Sequences

CONSTANTS Messages, Threads

VARIABLES
    outcome,    \* what became of each message
    told,       \* what the newest Run of each Thread has been told
    closed      \* the Threads that take no more messages

inboxVars == <<outcome, told, closed>>

Outcome == {"none", "aside", "proposed", "dropped", "task"} \cup Threads

Init ==
    /\ outcome = [m \in Messages |-> "none"]
    /\ told = [t \in Threads |-> <<>>]
    /\ closed = {}

Undecided == {m \in Messages : outcome[m] \in {"none", "proposed"}}
Decide(m, o) == outcome' = [outcome EXCEPT ![m] = o]

\* A Task is a Thread named after its message.
StartTask(m) ==
    /\ Decide(m, "task")
    /\ m \in Threads /\ told[m] = <<>>
    /\ told' = [told EXCEPT ![m] = <<m>>]
    /\ UNCHANGED closed

ReviseThread(m, t) ==
    /\ Decide(m, t)
    /\ told[t] # <<>> /\ t \notin closed
    /\ told' = [told EXCEPT ![t] = Append(@, m)]
    /\ UNCHANGED closed

CancelThread(m, t) ==
    /\ Decide(m, t)
    /\ told[t] # <<>> /\ t \notin closed
    /\ closed' = closed \cup {t}
    /\ UNCHANGED told

SetAside(m) == outcome[m] = "none" /\ Decide(m, "aside") /\ UNCHANGED <<told, closed>>
Propose(m) == outcome[m] = "none" /\ Decide(m, "proposed") /\ UNCHANGED <<told, closed>>
Drop(m) == outcome[m] = "proposed" /\ Decide(m, "dropped") /\ UNCHANGED <<told, closed>>

\* By a command, not by a message.
Close(t) == closed' = closed \cup {t} /\ UNCHANGED <<outcome, told>>

Next ==
    \/ \E m \in Undecided :
        \/ StartTask(m) \/ SetAside(m) \/ Propose(m) \/ Drop(m)
        \/ \E t \in Threads : ReviseThread(m, t) \/ CancelThread(m, t)
    \/ \E t \in Threads : Close(t)

Spec == Init /\ [][Next]_inboxVars
=============================================================================
