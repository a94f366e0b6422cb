---------------------------- MODULE MCScheduler ----------------------------
(* Two Runs of one Thread: the smallest instance in which leases contend.   *)
EXTENDS Scheduler, TLC

CONSTANTS r1, r2, t1, w1, w2, e1, e2

OneThread == (r1 :> t1) @@ (r2 :> t1)

\* Any worker takes any Run.
OneExecutor == (r1 :> e1) @@ (r2 :> e1)
AllServing == (w1 :> {e1}) @@ (w2 :> {e1})

\* Worker w2 serves the executor of r2 only.
MixedExecutors == (r1 :> e1) @@ (r2 :> e2)
PartServing == (w1 :> {e1, e2}) @@ (w2 :> {e2})
=============================================================================
