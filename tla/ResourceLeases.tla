--------------------------- MODULE ResourceLeases ---------------------------
(***************************************************************************)
(* Leases on resources: the resource_leases and resource_fences tables and  *)
(* the four operations on them.  Every operation reads the clock before it  *)
(* waits for the database lock, so the reading may be old by LockWait.      *)
(*                                                                          *)
(* A lease id is drawn fresh for every grant, and key, mode, owner and      *)
(* token of a row never change, so the ResourceLease its holder presents    *)
(* names its row: the id stands for the record, and _assert_live_resource_  *)
(* lease comes down to the status and the expiry.  Who holds a lease plays  *)
(* no part in what is granted (an owner conflicts with itself too) and is   *)
(* left out, as are the events of the resource's stream, which no           *)
(* projection is made of.  A call that raises ResourceConflict or           *)
(* StaleLease rolls back, its sweep included, and changes nothing.          *)
(***************************************************************************)
EXTENDS Integers, FiniteSets

CONSTANTS
    Leases,         \* the lease ids acquire_resource may draw
    Keys,           \* resource keys
    Terms,          \* lease_seconds of a call
    LockWait,       \* how old a clock reading may be once the lock is held
    MaxTime         \* bound: the clock stops here

ASSUME ResourceAssumption ==
    /\ Terms \subseteq Nat
    /\ LockWait \in Nat
    /\ MaxTime \in Nat

AccessMode == {"READ", "WRITE", "EXCLUSIVE"}
LeaseStatus == {"ACTIVE", "EXPIRED", "RELEASED"}

Row == [status : LeaseStatus, key : Keys, mode : AccessMode,
        token : Nat, expires : Int]
NoRow == [status |-> "ABSENT"]

VARIABLES
    clock,      \* the wall clock
    leases,     \* the resource_leases rows
    fences      \* last_token of each key in resource_fences

resourceVars == <<clock, leases, fences>>

Readings == {t \in 0..clock : clock <= t + LockWait}

-----------------------------------------------------------------------------
(* Reading the tables.                                                      *)

Active(l) == leases[l].status = "ACTIVE"
ActiveOn(k) == {l \in Leases : Active(l) /\ leases[l].key = k}

\* Mutant of InConflict: a reader is let in beside a writer.
ConflictsWithWriter(mode, l) == mode # "READ"

\* acquire_resource: only two readers do not conflict.
InConflict(mode, l) == mode # "READ" \/ leases[l].mode # "READ"

\* Mutant of NextToken: counted from the leases still active.
TokenAfterActive(k) == Cardinality(ActiveOn(k)) + 1

\* Mutant of NextToken: the last token is used again.
TokenAgain(k) == fences[k]

NextToken(k) == fences[k] + 1

\* Mutant of Swept: what has run out is passed over but left ACTIVE.
SweptNothing(k, now) == leases

\* _expire_resource_leases
Swept(k, now) ==
    [l \in Leases |-> IF l \in ActiveOn(k) /\ leases[l].expires <= now
                      THEN [leases[l] EXCEPT !.status = "EXPIRED"] ELSE leases[l]]

\* _assert_live_resource_lease
LiveLease(l, now) == Active(l) /\ leases[l].expires > now

-----------------------------------------------------------------------------
(* The operations.                                                          *)

Init ==
    /\ clock = 0
    /\ leases = [l \in Leases |-> NoRow]
    /\ fences = [k \in Keys |-> 0]

AcquireResource(l, k, mode, term, now) ==
    /\ leases[l] = NoRow
    /\ term > 0
    /\ \A o \in ActiveOn(k) : leases[o].expires > now => ~InConflict(mode, o)
    /\ leases' = [Swept(k, now) EXCEPT ![l] =
            [status |-> "ACTIVE", key |-> k, mode |-> mode,
             token |-> NextToken(k), expires |-> now + term]]
    /\ fences' = [fences EXCEPT ![k] = NextToken(k)]
    /\ UNCHANGED clock

\* Unlike a grant, a renewal may ask for no time at all.
RenewResource(l, term, now) ==
    /\ LiveLease(l, now)
    /\ leases' = [leases EXCEPT ![l].expires = now + term]
    /\ UNCHANGED <<clock, fences>>

ReleaseResource(l, now) ==
    /\ LiveLease(l, now)
    /\ leases' = [leases EXCEPT ![l].status = "RELEASED"]
    /\ UNCHANGED <<clock, fences>>

\* active_resource_leases: a reading that writes what it finds expired.
ActiveResourceLeases(k, now) ==
    /\ leases' = Swept(k, now)
    /\ UNCHANGED <<clock, fences>>

Tick ==
    /\ clock < MaxTime
    /\ clock' = clock + 1
    /\ UNCHANGED <<leases, fences>>

Next ==
    \/ \E now \in Readings :
        \/ \E l \in Leases, k \in Keys, mode \in AccessMode, term \in Terms :
                AcquireResource(l, k, mode, term, now)
        \/ \E l \in Leases, term \in Terms : RenewResource(l, term, now)
        \/ \E l \in Leases : ReleaseResource(l, now)
        \/ \E k \in Keys : ActiveResourceLeases(k, now)
    \/ Tick

Spec == Init /\ [][Next]_resourceVars

-----------------------------------------------------------------------------
(* Properties.                                                              *)

\* The type invariant, with the range resource_fences gives the tokens.
ResourceTypeOK ==
    /\ clock \in Nat
    /\ leases \in [Leases -> Row \cup {NoRow}]
    /\ fences \in [Keys -> Nat]
    /\ \A l \in Leases : leases[l] # NoRow =>
            leases[l].token \in 1..fences[leases[l].key]

Rivals(l, o) ==
    /\ NoRow \notin {leases[l], leases[o]}
    /\ l # o
    /\ leases[l].key = leases[o].key
    /\ ~(leases[l].mode = "READ" /\ leases[o].mode = "READ")

\* An ACTIVE lease, one its holder can still renew, release or point at, is
\* newer than every lease it conflicts with, ended ones included.  So two
\* conflicting leases are never ACTIVE together, a renewal cannot reach back
\* past a conflicting grant however old its clock reading, and whoever writes
\* a resource holds the largest token ever given out for it.
Uncontested ==
    \A l, o \in Leases : Active(l) /\ Rivals(l, o) =>
        leases[o].token < leases[l].token

\* A lease is granted only once every lease it conflicts with was given back
\* or has run out by the clock: no reading, old or new, takes it early.
NoStolenResource ==
    [][\A l, o \in Leases :
        leases[l] = NoRow /\ Rivals(l, o)' /\ Active(o) => leases[o].expires <= clock
      ]_resourceVars

-----------------------------------------------------------------------------
(* The lease service the tables implement, whatever LockWait is: held are   *)
(* the ACTIVE rows, though the time of some has run out.                    *)

Shared == INSTANCE SharedLease WITH
    grants <- [l \in Leases |->
                IF leases[l] = NoRow THEN <<>>
                ELSE [key |-> leases[l].key, mode |-> leases[l].mode,
                      token |-> leases[l].token]],
    held <- {l \in Leases : Active(l)},
    granted <- fences

SharedLeaseSpec == Shared!Spec
=============================================================================
