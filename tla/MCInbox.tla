------------------------------ MODULE MCInbox ------------------------------
(* A Task, a message that may belong to it or be a Task of its own, and one  *)
(* that changes or cancels it.                                              *)
EXTENDS Inbox

CONSTANTS m1, m2, m3, c1, c2, main

AllRuns == {m1, m2, m3} \X {"task", "update"}

Continues(kind) == [cue |-> "continue", kind |-> kind]
Names(t, kind) == [cue |-> "thread", thread |-> t, kind |-> kind]

ThreeTexts ==
    (m1 :> {[cue |-> "task"], Continues("SUPPLEMENT")}) @@
    (m2 :> {Continues("SUPPLEMENT"), Continues("CANCEL")}) @@
    (m3 :> {Names(m1, "METHOD_CHANGE")})

SomeCommands ==
    {[type |-> "thread.desired_state_changed", to |-> "PAUSE"],
     [type |-> "thread.attention_changed", to |-> "NEEDS_APPROVAL"],
     [type |-> "thread.state_changed", to |-> "CANCELLED"]}

Alike == Permutations({c1, c2})
=============================================================================
