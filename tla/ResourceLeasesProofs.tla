------------------------ MODULE ResourceLeasesProofs ------------------------
(***************************************************************************)
(* Resource leases for every set of leases and keys, every term and every   *)
(* LockWait: no lease stands beside a newer one it conflicts with, none is  *)
(* taken early, and the tables implement SharedLease.  ResourceTypeOK and   *)
(* Uncontested are inductive together.                                      *)
(***************************************************************************)
EXTENDS ResourceLeases, TLAPS

ResourceInv == ResourceTypeOK /\ Uncontested

-----------------------------------------------------------------------------
(* What a sweep leaves.                                                     *)

\* A sweep ends leases and changes nothing else of a row.
LEMMA SweptRow ==
    ASSUME ResourceTypeOK, NEW k \in Keys, NEW now \in Int, NEW l \in Leases
    PROVE  /\ Swept(k, now)[l] \in Row \cup {NoRow}
           /\ Swept(k, now)[l] = NoRow <=> leases[l] = NoRow
           /\ leases[l] # NoRow =>
                /\ Swept(k, now)[l].key = leases[l].key
                /\ Swept(k, now)[l].mode = leases[l].mode
                /\ Swept(k, now)[l].token = leases[l].token
                /\ Swept(k, now)[l].expires = leases[l].expires
           /\ Swept(k, now)[l].status = "ACTIVE" <=>
                Active(l) /\ (leases[l].key = k => leases[l].expires > now)
<1>1. leases[l] \in Row \cup {NoRow}
    BY DEF ResourceTypeOK
<1>2. CASE leases[l] = NoRow
    BY <1>2 DEF Swept, ActiveOn, Active, NoRow, Row, LeaseStatus
<1>3. CASE leases[l] \in Row /\ l \in ActiveOn(k) /\ leases[l].expires <= now
    BY <1>3 DEF Swept, ActiveOn, Active, NoRow, Row, LeaseStatus
<1>4. CASE leases[l] \in Row /\ ~(l \in ActiveOn(k) /\ leases[l].expires <= now)
    BY <1>4 DEF Swept, ActiveOn, Active, NoRow, Row, LeaseStatus
<1>5. QED
    BY <1>1, <1>2, <1>3, <1>4

\* The row a grant inserts.
NewRow(k, mode, term, now) ==
    [status |-> "ACTIVE", key |-> k, mode |-> mode, token |-> NextToken(k),
     expires |-> now + term]

\* What a grant does to the rows: a new one for l, a sweep of the others.
LEMMA GrantedRows ==
    ASSUME ResourceTypeOK, NEW now \in Readings, NEW l \in Leases, NEW k \in Keys,
           NEW mode \in AccessMode, NEW term \in Terms,
           AcquireResource(l, k, mode, term, now)
    PROVE  /\ leases'[l] = NewRow(k, mode, term, now)
           /\ \A o \in Leases \ {l} : leases'[o] = Swept(k, now)[o]
           /\ leases' \in [Leases -> Row \cup {NoRow}]
           /\ fences' \in [Keys -> Nat]
           /\ fences'[k] = fences[k] + 1
           /\ \A j \in Keys \ {k} : fences'[j] = fences[j]
           /\ now \in Int
<1>1. now \in Int /\ term \in Nat /\ now + term \in Int
    BY ResourceAssumption DEF Readings, ResourceTypeOK
<1>2. fences[k] \in Nat /\ NextToken(k) = fences[k] + 1
    BY DEF ResourceTypeOK, NextToken
<1>3. NewRow(k, mode, term, now) \in Row
    BY <1>1, <1>2 DEF NewRow, Row, LeaseStatus
<1>4. DOMAIN Swept(k, now) = Leases
    BY DEF Swept
<1>5. leases' = [Swept(k, now) EXCEPT ![l] = NewRow(k, mode, term, now)]
    BY DEF AcquireResource, NewRow
<1>6. /\ leases'[l] = NewRow(k, mode, term, now)
      /\ \A o \in Leases \ {l} : leases'[o] = Swept(k, now)[o]
    BY <1>4, <1>5
<1>7. leases' \in [Leases -> Row \cup {NoRow}]
  <2>1. \A o \in Leases : leases'[o] \in Row \cup {NoRow}
    BY <1>1, <1>3, <1>6, SweptRow
  <2>2. leases' = [o \in Leases |-> leases'[o]]
    BY <1>4, <1>5
  <2>3. QED
    BY <2>1, <2>2
<1>8. QED
    BY <1>1, <1>2, <1>6, <1>7 DEF AcquireResource, ResourceTypeOK

-----------------------------------------------------------------------------
(* The invariant.                                                           *)

LEMMA InitResource == Init => ResourceInv
    BY ResourceAssumption
    DEF Init, ResourceInv, ResourceTypeOK, Uncontested, Active, Rivals, NoRow

\* A step that only ends leases or moves an expiry keeps the invariant.
LEMMA SameGrants ==
    ASSUME ResourceInv,
           clock' \in Nat,
           leases' \in [Leases -> Row \cup {NoRow}],
           fences' = fences,
           \A l \in Leases :
              /\ leases'[l] = NoRow <=> leases[l] = NoRow
              /\ leases[l] # NoRow =>
                    /\ leases'[l].key = leases[l].key
                    /\ leases'[l].mode = leases[l].mode
                    /\ leases'[l].token = leases[l].token
              /\ Active(l)' => Active(l)
    PROVE  ResourceInv'
<1>1. ResourceTypeOK'
    BY DEF ResourceInv, ResourceTypeOK
<1>2. \A l, o \in Leases : Rivals(l, o)' => Rivals(l, o)
    BY DEF Rivals
<1>3. ASSUME NEW l \in Leases, NEW o \in Leases, Active(l)', Rivals(l, o)'
      PROVE  leases'[o].token < leases'[l].token
    BY <1>2, <1>3 DEF ResourceInv, Uncontested, Rivals
<1>4. Uncontested'
    BY <1>3 DEF Uncontested
<1>5. QED
    BY <1>1, <1>4 DEF ResourceInv

LEMMA AcquireKeepsInv ==
    ASSUME ResourceInv, NEW now \in Readings, NEW l \in Leases, NEW k \in Keys,
           NEW mode \in AccessMode, NEW term \in Terms,
           AcquireResource(l, k, mode, term, now)
    PROVE  ResourceInv'
<1>0. ResourceTypeOK
    BY DEF ResourceInv
<1>1. /\ leases'[l] = NewRow(k, mode, term, now)
      /\ \A o \in Leases \ {l} : leases'[o] = Swept(k, now)[o]
      /\ leases' \in [Leases -> Row \cup {NoRow}]
      /\ fences' \in [Keys -> Nat]
      /\ fences'[k] = fences[k] + 1
      /\ \A j \in Keys \ {k} : fences'[j] = fences[j]
      /\ now \in Int
    BY <1>0, GrantedRows
<1>2. /\ leases'[l].key = k
      /\ leases'[l].mode = mode
      /\ leases'[l].token = fences[k] + 1
      /\ fences[k] \in Nat
    BY <1>0, <1>1 DEF NewRow, NextToken, ResourceTypeOK
<1>3. ASSUME NEW o \in Leases, o # l, leases'[o] # NoRow
      PROVE  /\ leases[o] # NoRow /\ leases[o] \in Row
             /\ leases'[o].key = leases[o].key
             /\ leases'[o].mode = leases[o].mode
             /\ leases'[o].token = leases[o].token
             /\ leases'[o].status = "ACTIVE" =>
                    Active(o) /\ (leases[o].key = k => leases[o].expires > now)
             /\ leases[o].token \in 1..fences[leases[o].key]
  <2>1. leases'[o] = Swept(k, now)[o]
    BY <1>1, <1>3
  <2>2. leases[o] # NoRow /\ leases[o] \in Row
    BY <1>0, <1>1, <1>3, <2>1, SweptRow DEF ResourceTypeOK
  <2>3. leases[o].token \in 1..fences[leases[o].key]
    BY <1>0, <2>2 DEF ResourceTypeOK
  <2>4. QED
    BY <1>0, <1>1, <2>1, <2>2, <2>3, SweptRow
<1>4. ResourceTypeOK'
  <2>1. ASSUME NEW o \in Leases, leases'[o] # NoRow
        PROVE  leases'[o].token \in 1..fences'[leases'[o].key]
    <3>1. CASE o = l
      BY <1>1, <1>2, <3>1
    <3>2. CASE o # l
      <4>1. leases'[o].token \in 1..fences[leases'[o].key]
        BY <1>3, <2>1, <3>2
      <4>2. leases'[o].key \in Keys
        BY <1>3, <2>1, <3>2 DEF Row
      <4>3. fences'[leases'[o].key] \in {fences[leases'[o].key], fences[leases'[o].key] + 1}
        BY <1>1, <4>2
      <4>4. fences[leases'[o].key] \in Nat
        BY <1>0, <4>2 DEF ResourceTypeOK
      <4>5. QED
        BY <4>1, <4>3, <4>4
    <3>3. QED
      BY <3>1, <3>2
  <2>2. clock' \in Nat
    BY <1>0 DEF AcquireResource, ResourceTypeOK
  <2>3. QED
    BY <1>1, <2>1, <2>2 DEF ResourceTypeOK
<1>5. Uncontested'
  <2> SUFFICES ASSUME NEW a \in Leases, NEW o \in Leases, Active(a)', Rivals(a, o)'
               PROVE  leases'[o].token < leases'[a].token
    BY DEF Uncontested
  <2>1. /\ leases'[a] # NoRow /\ leases'[o] # NoRow /\ a # o
        /\ leases'[a].key = leases'[o].key
        /\ ~(leases'[a].mode = "READ" /\ leases'[o].mode = "READ")
        /\ leases'[a].status = "ACTIVE"
    BY DEF Rivals, Active
  <2>2. CASE a = l
    \* The new lease has the largest token of its key.
    BY <1>2, <1>3, <2>1, <2>2
  <2>3. CASE o = l
    \* Nothing the new lease conflicts with is left ACTIVE.
    <3>1. /\ Active(a) /\ leases[a].expires > now /\ leases[a].key = k
          /\ leases'[a].mode = leases[a].mode
      BY <1>2, <1>3, <2>1, <2>3
    <3>2. ~InConflict(mode, a)
      BY <3>1 DEF AcquireResource, ActiveOn
    <3>3. QED
      BY <1>2, <2>1, <2>3, <3>1, <3>2 DEF InConflict
  <2>4. CASE a # l /\ o # l
    <3>1. Active(a) /\ Rivals(a, o)
      BY <1>3, <2>1, <2>4 DEF Rivals
    <3>2. leases[o].token < leases[a].token
      BY <3>1 DEF ResourceInv, Uncontested
    <3>3. QED
      BY <1>3, <2>1, <2>4, <3>2
  <2>5. QED
    BY <2>2, <2>3, <2>4
<1>6. QED
    BY <1>4, <1>5 DEF ResourceInv

LEMMA RenewKeepsInv ==
    ASSUME ResourceInv, NEW now \in Readings, NEW l \in Leases, NEW term \in Terms,
           RenewResource(l, term, now)
    PROVE  ResourceInv'
<1>1. leases[l] \in Row /\ now + term \in Int
    BY ResourceAssumption
    DEF ResourceInv, ResourceTypeOK, RenewResource, LiveLease, Active, NoRow, Readings
<1>2. leases' = [leases EXCEPT ![l] = [leases[l] EXCEPT !.expires = now + term]]
    BY DEF RenewResource
<1>3. leases'[l] \in Row /\ leases'[l] # NoRow /\ leases[l] # NoRow
    BY <1>1, <1>2 DEF ResourceInv, ResourceTypeOK, Row, NoRow
<1>4. leases' \in [Leases -> Row \cup {NoRow}]
    BY <1>2, <1>3 DEF ResourceInv, ResourceTypeOK
<1>5. ASSUME NEW o \in Leases
      PROVE  /\ leases'[o] = NoRow <=> leases[o] = NoRow
             /\ leases[o] # NoRow =>
                    /\ leases'[o].key = leases[o].key
                    /\ leases'[o].mode = leases[o].mode
                    /\ leases'[o].token = leases[o].token
             /\ Active(o)' => Active(o)
    BY <1>1, <1>2, <1>3 DEF ResourceInv, ResourceTypeOK, Row, Active
<1>6. QED
    BY <1>4, <1>5, SameGrants DEF RenewResource, ResourceInv, ResourceTypeOK

LEMMA ReleaseKeepsInv ==
    ASSUME ResourceInv, NEW now \in Readings, NEW l \in Leases, ReleaseResource(l, now)
    PROVE  ResourceInv'
<1>1. leases[l] \in Row
    BY DEF ResourceInv, ResourceTypeOK, ReleaseResource, LiveLease, Active, NoRow
<1>2. leases' = [leases EXCEPT ![l] = [leases[l] EXCEPT !.status = "RELEASED"]]
    BY DEF ReleaseResource
<1>3. leases'[l] \in Row /\ leases'[l] # NoRow /\ leases[l] # NoRow
    BY <1>1, <1>2 DEF ResourceInv, ResourceTypeOK, Row, NoRow, LeaseStatus
<1>4. leases' \in [Leases -> Row \cup {NoRow}]
    BY <1>2, <1>3 DEF ResourceInv, ResourceTypeOK
<1>5. ASSUME NEW o \in Leases
      PROVE  /\ leases'[o] = NoRow <=> leases[o] = NoRow
             /\ leases[o] # NoRow =>
                    /\ leases'[o].key = leases[o].key
                    /\ leases'[o].mode = leases[o].mode
                    /\ leases'[o].token = leases[o].token
             /\ Active(o)' => Active(o)
    BY <1>1, <1>2, <1>3 DEF ResourceInv, ResourceTypeOK, Row, Active
<1>6. QED
    BY <1>4, <1>5, SameGrants DEF ReleaseResource, ResourceInv, ResourceTypeOK

LEMMA SweepKeepsInv ==
    ASSUME ResourceInv, NEW now \in Readings, NEW k \in Keys,
           ActiveResourceLeases(k, now)
    PROVE  ResourceInv'
<1>1. ResourceTypeOK /\ now \in Int
    BY DEF ResourceInv, Readings
<1>2. leases' = Swept(k, now)
    BY DEF ActiveResourceLeases
<1>3. \A o \in Leases : leases'[o] \in Row \cup {NoRow}
    BY <1>1, <1>2, SweptRow
<1>4. leases' \in [Leases -> Row \cup {NoRow}]
    BY <1>2, <1>3 DEF Swept
<1>5. ASSUME NEW o \in Leases
      PROVE  /\ leases'[o] = NoRow <=> leases[o] = NoRow
             /\ leases[o] # NoRow =>
                    /\ leases'[o].key = leases[o].key
                    /\ leases'[o].mode = leases[o].mode
                    /\ leases'[o].token = leases[o].token
             /\ Active(o)' => Active(o)
    BY <1>1, <1>2, SweptRow DEF Active
<1>6. QED
    BY <1>4, <1>5, SameGrants DEF ActiveResourceLeases, ResourceInv, ResourceTypeOK

LEMMA IdleKeepsInv ==
    ASSUME ResourceInv, Tick \/ UNCHANGED resourceVars
    PROVE  ResourceInv'
<1>1. clock' \in Nat /\ leases' = leases /\ fences' = fences
    BY DEF Tick, resourceVars, ResourceInv, ResourceTypeOK
<1>2. QED
    BY <1>1 DEF ResourceInv, ResourceTypeOK, Uncontested, Rivals, Active

LEMMA NextResource == ResourceInv /\ [Next]_resourceVars => ResourceInv'
<1> SUFFICES ASSUME ResourceInv, [Next]_resourceVars PROVE ResourceInv'
    OBVIOUS
<1>1. CASE \E now \in Readings, l \in Leases, k \in Keys, mode \in AccessMode, term \in Terms :
               AcquireResource(l, k, mode, term, now)
    BY <1>1, AcquireKeepsInv
<1>2. CASE \E now \in Readings, l \in Leases, term \in Terms : RenewResource(l, term, now)
    BY <1>2, RenewKeepsInv
<1>3. CASE \E now \in Readings, l \in Leases : ReleaseResource(l, now)
    BY <1>3, ReleaseKeepsInv
<1>4. CASE \E now \in Readings, k \in Keys : ActiveResourceLeases(k, now)
    BY <1>4, SweepKeepsInv
<1>5. CASE Tick \/ UNCHANGED resourceVars
    BY <1>5, IdleKeepsInv
<1>6. QED
    BY <1>1, <1>2, <1>3, <1>4, <1>5 DEF Next

LEMMA ResourceInvariant == Spec => []ResourceInv
<1>1. Init => ResourceInv
    BY InitResource
<1>2. ResourceInv /\ [Next]_resourceVars => ResourceInv'
    BY NextResource
<1>3. QED
    BY <1>1, <1>2, PTL DEF Spec

\* acquire_resource, renew_resource, release_resource and the sweep keep the
\* tables well formed, every token within what resource_fences has given out.
THEOREM ResourceTypeCorrect == Spec => []ResourceTypeOK
<1>1. ResourceInv => ResourceTypeOK
    BY DEF ResourceInv
<1>2. QED
    BY <1>1, ResourceInvariant, PTL

\* However late the calls come to the lock, an ACTIVE lease is newer than
\* every lease it conflicts with: _assert_live_resource_lease with the sweep
\* of acquire_resource suffices against a stale renewal.
THEOREM UncontestedAlways == Spec => []Uncontested
<1>1. ResourceInv => Uncontested
    BY DEF ResourceInv
<1>2. QED
    BY <1>1, ResourceInvariant, PTL

-----------------------------------------------------------------------------
(* Steps.                                                                   *)

\* acquire_resource never takes a lease whose time has not run out.
THEOREM NothingStolen == Spec => NoStolenResource
<1> DEFINE Waited == \A l, o \in Leases :
        leases[l] = NoRow /\ Rivals(l, o)' /\ Active(o) => leases[o].expires <= clock
<1>1. ASSUME ResourceInv, Next PROVE Waited
  <2> SUFFICES ASSUME NEW l \in Leases, NEW o \in Leases,
                      leases[l] = NoRow, Rivals(l, o)', Active(o)
               PROVE  leases[o].expires <= clock
    OBVIOUS
  <2>0. ResourceTypeOK /\ leases'[l] # NoRow /\ leases'[o] # NoRow /\ l # o
    BY <1>1 DEF ResourceInv, Rivals
  <2>1. ASSUME NEW now \in Readings, NEW c \in Leases, NEW k \in Keys,
               NEW mode \in AccessMode, NEW term \in Terms,
               AcquireResource(c, k, mode, term, now)
        PROVE  leases[o].expires <= clock
    <3>1. /\ leases'[c] = NewRow(k, mode, term, now)
          /\ \A d \in Leases \ {c} : leases'[d] = Swept(k, now)[d]
          /\ now \in Int
      BY <2>0, <2>1, GrantedRows
    <3>2. l = c
      BY <2>0, <3>1, SweptRow
    <3>3. leases[o] # NoRow /\ leases[o] \in Row
      BY <2>0 DEF ResourceTypeOK, Active, NoRow
    <3>4. leases'[l].key = k /\ leases'[l].mode = mode
      BY <3>1, <3>2 DEF NewRow
    <3>5. leases'[o].key = leases[o].key /\ leases'[o].mode = leases[o].mode
      BY <2>0, <3>1, <3>2, <3>3, SweptRow
    <3>6. o \in ActiveOn(k) /\ InConflict(mode, o)
      BY <3>4, <3>5 DEF Rivals, ActiveOn, InConflict
    <3>7. ~(leases[o].expires > now)
      BY <2>1, <3>6 DEF AcquireResource
    <3>8. now <= clock /\ clock \in Int
      BY <2>0 DEF Readings, ResourceTypeOK
    <3>9. QED
      BY <3>1, <3>3, <3>7, <3>8 DEF Row
  <2>2. ASSUME leases'[l] = NoRow PROVE FALSE
    BY <2>0, <2>2
  <2>3. CASE \E now \in Readings, c \in Leases, term \in Terms : RenewResource(c, term, now)
    BY <2>0, <2>3 DEF RenewResource, LiveLease, Active, ResourceTypeOK, NoRow
  <2>4. CASE \E now \in Readings, c \in Leases : ReleaseResource(c, now)
    BY <2>0, <2>4 DEF ReleaseResource, LiveLease, Active, ResourceTypeOK, NoRow
  <2>5. CASE \E now \in Readings, k \in Keys : ActiveResourceLeases(k, now)
    BY <2>0, <2>5, SweptRow DEF ActiveResourceLeases, Readings
  <2>6. CASE Tick
    BY <2>0, <2>6 DEF Tick
  <2>7. QED
    BY <1>1, <2>1, <2>3, <2>4, <2>5, <2>6 DEF Next
<1>2. ASSUME ResourceInv, [Next]_resourceVars PROVE [Waited]_resourceVars
    BY <1>1, <1>2
<1>3. QED
    BY <1>2, ResourceInvariant, PTL DEF Spec, NoStolenResource

-----------------------------------------------------------------------------
(* The refinement.                                                          *)

\* What SharedLease sees of a row, and which leases it sees held.
GrantOf(l) == IF leases[l] = NoRow THEN <<>>
              ELSE [key |-> leases[l].key, mode |-> leases[l].mode,
                    token |-> leases[l].token]
HeldLeases == {l \in Leases : Active(l)}

\* Rows that keep their grant and do not become ACTIVE: leases only ended.
LEMMA EndsOnly ==
    ASSUME fences' = fences,
           \A l \in Leases : GrantOf(l)' = GrantOf(l) /\ (Active(l)' => Active(l))
    PROVE  Shared!Next
<1> DEFINE ended == HeldLeases \ HeldLeases'
<1>1. HeldLeases' = HeldLeases \ ended
    BY DEF HeldLeases
<1>2. ended \in SUBSET HeldLeases
    OBVIOUS
<1>3. [l \in Leases |-> GrantOf(l)]' = [l \in Leases |-> GrantOf(l)]
    OBVIOUS
<1>4. Shared!End(ended)
    BY <1>1, <1>3 DEF Shared!End, HeldLeases, GrantOf
<1>5. QED
    BY <1>2, <1>4 DEF Shared!Next, HeldLeases

LEMMA GiveIsNext ==
    ASSUME NEW l \in Leases, NEW k \in Keys, NEW m \in Shared!Mode,
           NEW ended \in SUBSET HeldLeases, Shared!Give(l, k, m, ended)
    PROVE  Shared!Next
<1>1. \E c \in Leases, j \in Keys, n \in Shared!Mode : Shared!Give(c, j, n, ended)
    OBVIOUS
<1>2. QED
    BY <1>1, Zenon DEF Shared!Next, HeldLeases

LEMMA AcquireGives ==
    ASSUME ResourceInv, NEW now \in Readings, NEW l \in Leases, NEW k \in Keys,
           NEW mode \in AccessMode, NEW term \in Terms,
           AcquireResource(l, k, mode, term, now)
    PROVE  Shared!Next
<1> PICK ended \in SUBSET Leases :
        ended = {o \in Leases \ {l} : Active(o) /\ leases'[o].status # "ACTIVE"}
    OBVIOUS
<1>0. ResourceTypeOK
    BY DEF ResourceInv
<1>1. /\ leases'[l] = NewRow(k, mode, term, now)
      /\ \A o \in Leases \ {l} : leases'[o] = Swept(k, now)[o]
      /\ leases[l] = NoRow
      /\ fences' = [fences EXCEPT ![k] = fences[k] + 1]
      /\ now \in Int
  <2>1. leases[l] = NoRow /\ fences' = [fences EXCEPT ![k] = fences[k] + 1]
    BY DEF AcquireResource, NextToken
  <2>2. /\ leases'[l] = NewRow(k, mode, term, now)
        /\ \A o \in Leases \ {l} : leases'[o] = Swept(k, now)[o]
        /\ now \in Int
    BY <1>0, GrantedRows
  <2>3. QED
    BY <2>1, <2>2
<1>2. GrantOf(l)' = [key |-> k, mode |-> mode, token |-> fences[k] + 1]
    BY <1>1 DEF GrantOf, NewRow, NoRow, NextToken
<1>3. \A o \in Leases \ {l} : GrantOf(o)' = GrantOf(o) /\ (Active(o)' => Active(o))
    BY <1>0, <1>1, SweptRow DEF GrantOf, Active
<1>4. Active(l)' /\ ~Active(l) /\ GrantOf(l) = <<>>
    BY <1>1 DEF Active, NewRow, NoRow, GrantOf
<1>5. HeldLeases' = (HeldLeases \ ended) \cup {l} /\ ended \in SUBSET HeldLeases
    BY <1>3, <1>4 DEF HeldLeases, Active
<1>6. ASSUME NEW o \in HeldLeases \ ended, GrantOf(o).key = k
      PROVE  Shared!Compatible(mode, GrantOf(o).mode)
  <2>1. o \in Leases /\ o # l /\ Active(o) /\ Active(o)'
    BY <1>4, <1>6 DEF HeldLeases, Active
  <2>2. leases[o] # NoRow /\ leases[o].key = k /\ GrantOf(o).mode = leases[o].mode
    BY <1>6, <2>1 DEF GrantOf, Active, NoRow
  <2>3. leases[o].expires > now /\ o \in ActiveOn(k)
    BY <1>0, <1>1, <2>1, <2>2, SweptRow DEF Active, ActiveOn
  <2>4. ~InConflict(mode, o)
    BY <2>3 DEF AcquireResource
  <2>5. QED
    BY <2>2, <2>4 DEF InConflict, Shared!Compatible
<1>7. [o \in Leases |-> GrantOf(o)]' =
        [[o \in Leases |-> GrantOf(o)] EXCEPT ![l] =
            [key |-> k, mode |-> mode, token |-> fences[k] + 1]]
    BY <1>2, <1>3
<1>8. Shared!Give(l, k, mode, ended)
    BY <1>1, <1>4, <1>5, <1>6, <1>7 DEF Shared!Give, GrantOf, HeldLeases
<1>9. mode \in Shared!Mode
    BY DEF AccessMode, Shared!Mode
<1>10. QED
    BY <1>5, <1>8, <1>9, GiveIsNext

LEMMA OthersEnd ==
    ASSUME ResourceInv,
           \/ \E now \in Readings, l \in Leases, term \in Terms : RenewResource(l, term, now)
           \/ \E now \in Readings, l \in Leases : ReleaseResource(l, now)
           \/ \E now \in Readings, k \in Keys : ActiveResourceLeases(k, now)
           \/ Tick
           \/ UNCHANGED resourceVars
    PROVE  Shared!Next
<1>0. ResourceTypeOK
    BY DEF ResourceInv
<1>1. CASE \E now \in Readings, l \in Leases, term \in Terms : RenewResource(l, term, now)
  <2>1. PICK now \in Readings, l \in Leases, term \in Terms : RenewResource(l, term, now)
    BY <1>1
  <2>2. leases[l] \in Row /\ leases[l] # NoRow
    BY <1>0, <2>1 DEF RenewResource, LiveLease, Active, ResourceTypeOK, NoRow
  <2>3. leases' = [leases EXCEPT ![l] = [leases[l] EXCEPT !.expires = now + term]]
    BY <2>1 DEF RenewResource
  <2>4. /\ leases'[l].key = leases[l].key
        /\ leases'[l].mode = leases[l].mode
        /\ leases'[l].token = leases[l].token
        /\ leases'[l].status = leases[l].status
    BY <1>0, <2>2, <2>3 DEF ResourceTypeOK, Row
  <2>5. leases'[l] # NoRow
    BY <2>1, <2>4 DEF RenewResource, LiveLease, Active, NoRow
  <2>6. \A o \in Leases : GrantOf(o)' = GrantOf(o) /\ (Active(o)' => Active(o))
    BY <1>0, <2>2, <2>3, <2>4, <2>5 DEF GrantOf, Active, ResourceTypeOK
  <2>7. QED
    BY <2>1, <2>6, EndsOnly DEF RenewResource
<1>2. CASE \E now \in Readings, l \in Leases : ReleaseResource(l, now)
  <2>1. PICK now \in Readings, l \in Leases : ReleaseResource(l, now)
    BY <1>2
  <2>2. leases[l] \in Row /\ leases[l] # NoRow
    BY <1>0, <2>1 DEF ReleaseResource, LiveLease, Active, ResourceTypeOK, NoRow
  <2>3. leases' = [leases EXCEPT ![l] = [leases[l] EXCEPT !.status = "RELEASED"]]
    BY <2>1 DEF ReleaseResource
  <2>4. /\ leases'[l].key = leases[l].key
        /\ leases'[l].mode = leases[l].mode
        /\ leases'[l].token = leases[l].token
        /\ leases'[l].status = "RELEASED"
    BY <1>0, <2>2, <2>3 DEF ResourceTypeOK, Row
  <2>5. leases'[l] # NoRow
    BY <2>4 DEF NoRow
  <2>6. \A o \in Leases : GrantOf(o)' = GrantOf(o) /\ (Active(o)' => Active(o))
    BY <1>0, <2>2, <2>3, <2>4, <2>5 DEF GrantOf, Active, ResourceTypeOK
  <2>7. QED
    BY <2>1, <2>6, EndsOnly DEF ReleaseResource
<1>3. CASE \E now \in Readings, k \in Keys : ActiveResourceLeases(k, now)
  <2>1. PICK now \in Readings, k \in Keys : ActiveResourceLeases(k, now)
    BY <1>3
  <2>2. leases' = Swept(k, now) /\ now \in Int
    BY <2>1 DEF ActiveResourceLeases, Readings
  <2>3. \A o \in Leases : GrantOf(o)' = GrantOf(o) /\ (Active(o)' => Active(o))
    BY <1>0, <2>2, SweptRow DEF GrantOf, Active
  <2>4. QED
    BY <2>1, <2>3, EndsOnly DEF ActiveResourceLeases
<1>4. CASE Tick \/ UNCHANGED resourceVars
  <2>1. leases' = leases /\ fences' = fences
    BY <1>4 DEF Tick, resourceVars
  <2>2. \A o \in Leases : GrantOf(o)' = GrantOf(o) /\ (Active(o)' => Active(o))
    BY <2>1 DEF GrantOf, Active
  <2>3. QED
    BY <2>1, <2>2, EndsOnly
<1>5. QED
    BY <1>1, <1>2, <1>3, <1>4

\* The four operations implement the shared lease, with ACTIVE rows as the
\* held leases: a swept or released one never comes back, and the tokens of a
\* key count its grants.
THEOREM ImplementsSharedLease == Spec => SharedLeaseSpec
<1>1. Init => Shared!Init
    BY DEF Init, Shared!Init, Active, NoRow
<1>2. ASSUME ResourceInv, [Next]_resourceVars PROVE [Shared!Next]_(Shared!sharedVars)
  <2>1. CASE \E now \in Readings, l \in Leases, k \in Keys, mode \in AccessMode, term \in Terms :
                 AcquireResource(l, k, mode, term, now)
    BY <1>2, <2>1, AcquireGives
  <2>2. CASE \/ \E now \in Readings, l \in Leases, term \in Terms : RenewResource(l, term, now)
             \/ \E now \in Readings, l \in Leases : ReleaseResource(l, now)
             \/ \E now \in Readings, k \in Keys : ActiveResourceLeases(k, now)
             \/ Tick
             \/ UNCHANGED resourceVars
    BY <1>2, <2>2, OthersEnd
  <2>3. QED
    BY <1>2, <2>1, <2>2 DEF Next
<1>3. QED
    BY <1>1, <1>2, ResourceInvariant, PTL DEF Spec, SharedLeaseSpec, Shared!Spec
=============================================================================
