---------------------------- MODULE FencedLease ----------------------------
(***************************************************************************)
(* What a fenced lease promises, with no clock in sight.  Units are leased  *)
(* one holder at a time, at most one Unit of a Group is held, and every     *)
(* grant of a Unit carries a token one larger than the last, so whatever a  *)
(* former holder still has in hand can be told from the current grant.      *)
(* Leases end for any reason (release, expiry, cancellation), several at    *)
(* once when time passes, and an ended lease comes back only by a grant.    *)
(***************************************************************************)
EXTENDS Integers

CONSTANTS Units, Groups, GroupOf, Holders, Nobody

VARIABLES
    holder,     \* who holds each Unit
    token       \* the token of each Unit's latest grant

Init ==
    /\ holder = [u \in Units |-> Nobody]
    /\ token = [u \in Units |-> 0]

Free(u) == \A o \in Units : GroupOf[o] = GroupOf[u] => holder[o] = Nobody

Grant(u, h) ==
    /\ Free(u)
    /\ holder' = [holder EXCEPT ![u] = h]
    /\ token' = [token EXCEPT ![u] = @ + 1]

End(S) ==
    /\ holder' = [u \in Units |-> IF u \in S THEN Nobody ELSE holder[u]]
    /\ UNCHANGED token

Next ==
    \/ \E u \in Units, h \in Holders : Grant(u, h)
    \/ \E S \in SUBSET Units : End(S)

Spec == Init /\ [][Next]_<<holder, token>>
=============================================================================
