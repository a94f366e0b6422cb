---------------------------- MODULE MCExecution ----------------------------
(* One Thread whose first Run may be superseded by a second one.            *)
EXTENDS Execution, TLC

CONSTANTS r1, r2, t1, w1, w2, e1, e2, main, fork

OneThread == (r1 :> t1) @@ (r2 :> t1)
OneExecutor == (r1 :> e1) @@ (r2 :> e1)
OneWorker == w1 :> {e1, e2}
AllServing == (w1 :> {e1, e2}) @@ (w2 :> {e1, e2})

\* An update runs with the executor of the Run it takes over from.  e2 has a
\* Verifier, e1 has none.
VerifiedExecutor == (r1 :> e2) @@ (r2 :> e2)

\* A Run with a Verifier and no update.
LoneThread == r2 :> t1
LoneExecutor == r2 :> e2

Alike == Permutations({w1, w2})
=============================================================================
