---------------------------- MODULE SharedLease ----------------------------
(***************************************************************************)
(* What a readers/writer lease on a resource promises, with no clock in     *)
(* sight.  A grant is made only beside grants it is compatible with, the    *)
(* n-th grant of a key carries the token n, and a lease that has ended, for *)
(* whatever reason, never comes back: its holder must ask for another.      *)
(***************************************************************************)
EXTENDS Integers

CONSTANTS Leases, Keys

Mode == {"READ", "WRITE", "EXCLUSIVE"}

\* Only readers share a key.
Compatible(m, n) == m = "READ" /\ n = "READ"

VARIABLES
    grants,     \* the grant each lease ever got, <<>> before it
    held,       \* the leases whose holder may still use the resource
    granted     \* how many grants each key has had

sharedVars == <<grants, held, granted>>

Init ==
    /\ grants = [l \in Leases |-> <<>>]
    /\ held = {}
    /\ granted = [k \in Keys |-> 0]

\* Leases that have run out may end in the step that makes room for another.
Give(l, k, m, ended) ==
    /\ grants[l] = <<>>
    /\ \A o \in held \ ended : grants[o].key = k => Compatible(m, grants[o].mode)
    /\ granted' = [granted EXCEPT ![k] = @ + 1]
    /\ grants' = [grants EXCEPT ![l] = [key |-> k, mode |-> m, token |-> granted[k] + 1]]
    /\ held' = (held \ ended) \cup {l}

End(ended) ==
    /\ held' = held \ ended
    /\ UNCHANGED <<grants, granted>>

Next == \E ended \in SUBSET held :
    \/ End(ended)
    \/ \E l \in Leases, k \in Keys, m \in Mode : Give(l, k, m, ended)

Spec == Init /\ [][Next]_sharedVars
=============================================================================
