---------------------------- MODULE MCActionGate ----------------------------
(* One gated intent, two handlers in flight, and the Run that may supersede *)
(* the intent's.                                                            *)
EXTENDS ActionGate, TLC

CONSTANTS r1, r2, i1, c1, c2

FirstRun == i1 :> r1

Alike == Permutations({c1, c2})
=============================================================================
