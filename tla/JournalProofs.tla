---------------------------- MODULE JournalProofs ----------------------------
(***************************************************************************)
(* Lemmas about the journal, for streams of any length: what a replay is    *)
(* made of, what the reducer keeps of a projection, and what a transaction  *)
(* does to a Thread.  InboxProofs draws the theorems from them.             *)
(***************************************************************************)
EXTENDS Journal, FiniteSetTheorems, SequenceTheorems, TLAPS

-----------------------------------------------------------------------------
(* Replays.                                                                 *)

\* Induction, on a set of numbers: its complement has no least element.
LEMMA SetInduction ==
    ASSUME NEW S, 0 \in S, \A n \in Nat : n \in S => n + 1 \in S
    PROVE  Nat \subseteq S
<1> SUFFICES ASSUME Nat \ S # {} PROVE FALSE
  OBVIOUS
<1> DEFINE R == OpToRel(<, Nat)
           T == Nat \ S
<1>1. IsWellFoundedOn(R, Nat)
  BY NatLessThanWellFounded
<1>2. T \subseteq Nat /\ T # {}
  OBVIOUS
<1>3. \A x, y \in Nat : <<y, x>> \in R <=> y < x
  BY DEF OpToRel
<1> HIDE DEF R, T
<1>4. PICK x \in T : \A y \in T : ~(<<y, x>> \in R)
  BY <1>1, <1>2, WFMin
<1>5. x \in Nat /\ x \notin S
  BY <1>4 DEF T
<1>6. x # 0 /\ x - 1 \in Nat /\ x - 1 < x /\ (x - 1) + 1 = x
  BY <1>5
<1>7. x - 1 \in S
  BY <1>3, <1>4, <1>5, <1>6 DEF T
<1> QED
  BY <1>5, <1>6, <1>7

\* The table that Reductions names, and the recursion that defines it.
IsTable(g, a, drafts, n, k) ==
    g = [i \in 0..k |-> IF i = 0 THEN a ELSE Reduce(g[i - 1], drafts[i], n + i)]

LEMMA TablesExist ==
    ASSUME NEW a, NEW drafts, NEW n
    PROVE  \A k \in Nat : \E g : IsTable(g, a, drafts, n, k)
<1> DEFINE S == {k \in Nat : \E g : IsTable(g, a, drafts, n, k)}
<1>1. 0 \in S
  <2> DEFINE g == [i \in 0..0 |-> a]
  <2>1. IsTable(g, a, drafts, n, 0)
    BY DEF IsTable
  <2> QED
    BY <2>1
<1>2. ASSUME NEW k \in Nat, k \in S PROVE k + 1 \in S
  <2>1. PICK g : IsTable(g, a, drafts, n, k)
    BY <1>2
  <2> DEFINE h == [i \in 0..(k + 1) |-> IF i = k + 1 THEN Reduce(g[k], drafts[i], n + i) ELSE g[i]]
  <2>2. \A i \in 0..k : h[i] = g[i]
    OBVIOUS
  <2>3. \A i \in 0..k : g[i] = IF i = 0 THEN a ELSE Reduce(g[i - 1], drafts[i], n + i)
    BY <2>1 DEF IsTable
  <2>4. ASSUME NEW i \in 0..(k + 1)
        PROVE  h[i] = IF i = 0 THEN a ELSE Reduce(h[i - 1], drafts[i], n + i)
    <3>1. CASE i = k + 1
      <4>1. i - 1 = k /\ i # 0 /\ k \in 0..k
        BY <3>1
      <4> QED
        BY <2>2, <3>1, <4>1
    <3>2. CASE i # k + 1
      <4>1. i \in 0..k /\ (i # 0 => i - 1 \in 0..k)
        BY <3>2
      <4> QED
        BY <2>2, <2>3, <4>1
    <3> QED
      BY <3>1, <3>2
  <2>5. h = [i \in 0..(k + 1) |-> h[i]]
    OBVIOUS
  <2> HIDE DEF h
  <2>6. IsTable(h, a, drafts, n, k + 1)
    BY <2>4, <2>5 DEF IsTable
  <2> QED
    BY <2>6
<1> HIDE DEF S
<1>3. Nat \subseteq S
  BY <1>1, <1>2, SetInduction
<1> QED
  BY <1>3 DEF S

LEMMA ReductionsTable ==
    ASSUME NEW a, NEW drafts, Len(drafts) \in Nat, NEW n
    PROVE  LET table == Reductions(a, drafts, n)
           IN  /\ table[0] = a
               /\ \A i \in 1..Len(drafts) : table[i] = Reduce(table[i - 1], drafts[i], n + i)
<1> DEFINE table == Reductions(a, drafts, n)
<1>1. table = CHOOSE g : IsTable(g, a, drafts, n, Len(drafts))
  BY DEF Reductions, IsTable
<1>2. \E g : IsTable(g, a, drafts, n, Len(drafts))
  BY TablesExist
<1>3. IsTable(table, a, drafts, n, Len(drafts))
  BY <1>1, <1>2
<1> HIDE DEF table
<1>4. \A i \in 0..Len(drafts) :
          table[i] = IF i = 0 THEN a ELSE Reduce(table[i - 1], drafts[i], n + i)
  BY <1>3 DEF IsTable
<1> QED
  BY <1>4 DEF table
LEMMA EmptyFields ==
    /\ Empty.thread = Invalid /\ Empty.revision = 0 /\ Empty.updates = {}
    /\ Empty.born = [r \in Runs |-> 0] /\ Empty.context = [r \in Runs |-> <<>>]
    /\ Refused.thread = Invalid /\ Refused.revision = -1 /\ Refused # Empty
  BY DEF Empty, Refused

\* What has been refused stays refused; what has not been, has a Thread.
LEMMA ReduceFacts ==
    ASSUME NEW a, NEW e, NEW n
    PROVE  LET b == Reduce(a, e, n)
           IN  /\ a = Refused => b = Refused
               /\ b # Refused => Exists(b) /\ b.revision = n
<1> DEFINE p == IF e.type = "thread.created" /\ a = Empty THEN NewThread
                ELSE IF Exists(a) THEN ReduceThread(a.thread, e) ELSE Invalid
           refused == p = Invalid \/ (e.type = "thread.message_appended" /\ e.message \in a.updates)
           b == [thread |-> p,
                 revision |-> n,
                 updates |-> IF e.type = "thread.message_appended"
                             THEN a.updates \cup {e.message} ELSE a.updates,
                 born |-> IF e.type = "run.created"
                          THEN [a.born EXCEPT ![e.run] = n] ELSE a.born,
                 context |-> IF e.type = "run.snapshots_bound"
                             THEN [a.context EXCEPT ![e.run] = e.context] ELSE a.context]
<1>1. Reduce(a, e, n) = IF refused THEN Refused ELSE b
  BY DEF Reduce
<1>2. a = Refused => p = Invalid
  BY EmptyFields DEF Exists
<1>3. b.thread = p /\ b.revision = n
  OBVIOUS
<1>4. ~refused => p # Invalid
  OBVIOUS
<1> HIDE DEF p, b
<1> QED
  BY <1>1, <1>2, <1>3, <1>4 DEF Exists

LEMMA ReplayStep ==
    ASSUME NEW E, NEW s \in Seq(E)
    PROVE  /\ Replay(s, 0) = Empty
           /\ \A i \in 1..Len(s) : Replay(s, i) = Reduce(Replay(s, i - 1), s[i], i)
<1>1. \A i \in 1..Len(s) : 0 + i = i
  OBVIOUS
<1> QED
  BY <1>1, ReductionsTable DEF Replay

\* The replay of a longer stream goes on from that of the shorter one.
LEMMA ReplayOfConcat ==
    ASSUME NEW E, NEW s \in Seq(E), NEW d \in Seq(E)
    PROVE  /\ \A i \in 0..Len(s) : Replay(s \o d, i) = Replay(s, i)
           /\ \A j \in 0..Len(d) :
                  Replay(s \o d, Len(s) + j) = Reductions(Replay(s, Len(s)), d, Len(s))[j]
<1> DEFINE whole == s \o d
           rest == Reductions(Replay(s, Len(s)), d, Len(s))
           S == {i \in Nat : i <= Len(s) => Replay(whole, i) = Replay(s, i)}
           T == {j \in Nat : j <= Len(d) => Replay(whole, Len(s) + j) = rest[j]}
<1>0. /\ whole \in Seq(E) /\ Len(whole) = Len(s) + Len(d)
      /\ Len(s) \in Nat /\ Len(d) \in Nat
      /\ \A i \in 1..Len(s) : whole[i] = s[i]
      /\ \A j \in 1..Len(d) : whole[Len(s) + j] = d[j]
  OBVIOUS
<1> HIDE DEF whole
<1>1. \A i \in 1..Len(s) : Replay(s, i) = Reduce(Replay(s, i - 1), s[i], i)
  BY ReplayStep
<1>2. /\ Replay(whole, 0) = Empty /\ Replay(s, 0) = Empty
      /\ \A i \in 1..(Len(s) + Len(d)) :
            Replay(whole, i) = Reduce(Replay(whole, i - 1), whole[i], i)
  BY <1>0, ReplayStep
<1>3. /\ rest[0] = Replay(s, Len(s))
      /\ \A j \in 1..Len(d) : rest[j] = Reduce(rest[j - 1], d[j], Len(s) + j)
  BY <1>0, ReductionsTable
<1>4. 0 \in S
  BY <1>2
<1>5. ASSUME NEW i \in Nat, i \in S PROVE i + 1 \in S
  <2>1. SUFFICES ASSUME i + 1 <= Len(s) PROVE Replay(whole, i + 1) = Replay(s, i + 1)
    OBVIOUS
  <2>2. i + 1 \in 1..Len(s) /\ i + 1 \in 1..(Len(s) + Len(d)) /\ (i + 1) - 1 = i
    BY <1>0, <2>1
  <2>3. Replay(whole, i) = Replay(s, i)
    BY <1>0, <1>5, <2>1
  <2> QED
    BY <1>0, <1>1, <1>2, <2>2, <2>3
<1>6. \A i \in 0..Len(s) : Replay(whole, i) = Replay(s, i)
  <2> HIDE DEF S
  <2>1. Nat \subseteq S
    BY <1>4, <1>5, SetInduction
  <2> QED
    BY <1>0, <2>1 DEF S
<1>7. 0 \in T
  BY <1>0, <1>3, <1>6
<1>8. ASSUME NEW j \in Nat, j \in T PROVE j + 1 \in T
  <2>1. SUFFICES ASSUME j + 1 <= Len(d) PROVE Replay(whole, Len(s) + (j + 1)) = rest[j + 1]
    OBVIOUS
  <2>2. /\ j + 1 \in 1..Len(d) /\ (j + 1) - 1 = j
        /\ Len(s) + (j + 1) \in 1..(Len(s) + Len(d))
        /\ Len(s) + (j + 1) - 1 = Len(s) + j
    BY <1>0, <2>1
  <2>3. Replay(whole, Len(s) + j) = rest[j]
    BY <1>0, <1>8, <2>1
  <2>4. rest[j + 1] = Reduce(rest[j], d[j + 1], Len(s) + (j + 1))
    BY <1>3, <2>2
  <2>5. Replay(whole, Len(s) + (j + 1)) =
            Reduce(Replay(whole, Len(s) + j), whole[Len(s) + (j + 1)], Len(s) + (j + 1))
    BY <1>2, <2>2
  <2>6. whole[Len(s) + (j + 1)] = d[j + 1]
    BY <1>0, <2>2
  <2> QED
    BY <2>3, <2>4, <2>5, <2>6
<1>9. \A j \in 0..Len(d) : Replay(whole, Len(s) + j) = rest[j]
  <2> HIDE DEF T
  <2>1. Nat \subseteq T
    BY <1>7, <1>8, SetInduction
  <2> QED
    BY <1>0, <2>1 DEF T
<1> QED
  BY <1>6, <1>9 DEF whole

\* A stream that replays has replayed at every event, to the revision that
\* counts them.
LEMMA ReplayCounts ==
    ASSUME NEW E, NEW s \in Seq(E), Replay(s, Len(s)) # Refused
    PROVE  \A i \in 0..Len(s) :
                /\ Replay(s, i) # Refused
                /\ Replay(s, i).revision = i
                /\ i > 0 => Exists(Replay(s, i))
<1> DEFINE S == {k \in Nat : k <= Len(s) => Replay(s, Len(s) - k) # Refused}
<1>0. Len(s) \in Nat
  OBVIOUS
<1>1. /\ Replay(s, 0) = Empty
      /\ \A i \in 1..Len(s) : Replay(s, i) = Reduce(Replay(s, i - 1), s[i], i)
  BY ReplayStep
<1>2. 0 \in S
  BY <1>0
<1>3. ASSUME NEW k \in Nat, k \in S PROVE k + 1 \in S
  <2>1. SUFFICES ASSUME k + 1 <= Len(s) PROVE Replay(s, Len(s) - (k + 1)) # Refused
    OBVIOUS
  <2>2. Len(s) - k \in 1..Len(s) /\ Len(s) - (k + 1) = (Len(s) - k) - 1
    BY <1>0, <2>1
  <2>3. Replay(s, Len(s) - k) # Refused
    BY <1>0, <1>3, <2>1
  <2> QED
    BY <1>1, <2>2, <2>3, ReduceFacts
<1>4. \A i \in 0..Len(s) : Replay(s, i) # Refused
  <2> HIDE DEF S
  <2>1. Nat \subseteq S
    BY <1>2, <1>3, SetInduction
  <2>2. ASSUME NEW i \in 0..Len(s) PROVE Replay(s, i) # Refused
    <3>1. Len(s) - i \in Nat /\ Len(s) - i <= Len(s) /\ Len(s) - (Len(s) - i) = i
      BY <1>0
    <3> QED
      BY <2>1, <3>1 DEF S
  <2> QED
    BY <2>2
<1>5. ASSUME NEW i \in 0..Len(s)
      PROVE  Replay(s, i).revision = i /\ (i > 0 => Exists(Replay(s, i)))
  <2>1. CASE i = 0
    BY <1>1, <2>1, EmptyFields
  <2>2. CASE i # 0
    <3>1. i \in 1..Len(s)
      BY <1>0, <2>2
    <3> QED
      BY <1>1, <1>4, <3>1, ReduceFacts
  <2> QED
    BY <2>1, <2>2
<1> QED
  BY <1>4, <1>5
-----------------------------------------------------------------------------
(* The reducer.                                                             *)

EventType == {"thread.created", "delivery.recorded", "thread.state_changed",
    "thread.desired_state_changed", "thread.attention_changed", "thread.message_appended",
    "thread.branch_forked", "thread.branch_selected", "run.created", "run.snapshots_bound",
    "run.state_changed", "run.checkpoint_recorded"}

LEMMA EventFields ==
    ASSUME NEW e \in Event
    PROVE  /\ e.type \in EventType
           /\ e.type = "thread.state_changed" => e.from \in ThreadState /\ e.to \in ThreadState
           /\ e.type = "thread.desired_state_changed" => e.to \in DesiredState
           /\ e.type = "thread.attention_changed" => e.to \in AttentionState
           /\ e.type = "thread.message_appended" => e.message \in Messages
           /\ e.type = "thread.branch_forked" => e.branch \in Branches /\ e.from \in Branches
           /\ e.type = "thread.branch_selected" => e.branch \in Branches
           /\ e.type = "run.created" => e.run \in Runs /\ e.branch \in Branches
           /\ e.type = "run.snapshots_bound" => e.run \in Runs /\ e.context \in Seq(Messages)
           /\ e.type = "run.state_changed" => e.run \in Runs /\ e.from \in RunState /\ e.to \in RunState
           /\ e.type = "run.checkpoint_recorded" => e.run \in Runs /\ e.sequence \in Nat
  BY DEF Event, EventType

LEMMA ProjectionFields ==
    ASSUME NEW p \in ThreadProjection
    PROVE  /\ p # Invalid
           /\ p.actual \in ThreadState /\ p.desired \in DesiredState
           /\ p.attention \in AttentionState /\ p.active \in Runs \cup {NoRun}
           /\ p.branch \in Branches
           /\ p.branches \in [Branches -> BranchStatus \cup {"ABSENT"}]
           /\ p.runs \in [Runs -> RunProjection]
  BY JournalAssumption DEF ThreadProjection

\* What event e makes of projection p.
Follows(p, e, q) ==
    /\ q \in ThreadProjection
    /\ q.actual = IF e.type = "thread.state_changed" THEN e.to ELSE p.actual
    /\ q.desired = IF e.type = "thread.desired_state_changed" THEN e.to ELSE p.desired
    /\ q.attention = IF e.type = "thread.attention_changed" THEN e.to ELSE p.attention
    /\ q.branch = IF e.type \in {"thread.branch_selected", "run.created"} THEN e.branch
                  ELSE p.branch
    /\ \A r \in Runs :
        IF e.type = "run.created" /\ e.run = r
        THEN p.runs[r].state = "ABSENT" /\ q.runs[r].state # "ABSENT" /\ q.runs[r].branch = e.branch
        ELSE /\ q.runs[r].branch = p.runs[r].branch
             /\ q.runs[r].state = "ABSENT" <=> p.runs[r].state = "ABSENT"

\* A Run that exists goes on existing, on its branch.
LEMMA RunReplaced ==
    ASSUME NEW p \in ThreadProjection, NEW r \in Runs, p.runs[r].state # "ABSENT",
           NEW new \in RunProjection, new.state # "ABSENT", new.branch = p.runs[r].branch
    PROVE  LET runs == [p.runs EXCEPT ![r] = new]
           IN  /\ runs \in [Runs -> RunProjection]
               /\ \A o \in Runs : /\ runs[o].branch = p.runs[o].branch
                                  /\ runs[o].state = "ABSENT" <=> p.runs[o].state = "ABSENT"
  BY ProjectionFields

LEMMA ThreadEvents ==
    ASSUME NEW p \in ThreadProjection, NEW e \in Event, ReduceThread(p, e) # Invalid,
           e.type \in {"thread.state_changed", "thread.desired_state_changed",
                       "thread.attention_changed", "thread.message_appended",
                       "delivery.recorded"}
    PROVE  Follows(p, e, ReduceThread(p, e))
<1> DEFINE q == ReduceThread(p, e)
<1>1. CASE e.type = "thread.state_changed"
  <2>1. q = [p EXCEPT !.actual = e.to] /\ e.to \in ThreadState
    BY <1>1, EventFields DEF ReduceThread, ThreadTo
  <2> QED
    BY <1>1, <2>1 DEF Follows, ThreadProjection
<1>2. CASE e.type = "thread.desired_state_changed"
  <2>1. q = [p EXCEPT !.desired = e.to] /\ e.to \in DesiredState
    BY <1>2, EventFields DEF ReduceThread, DesiredTo
  <2> QED
    BY <1>2, <2>1 DEF Follows, ThreadProjection
<1>3. CASE e.type = "thread.attention_changed"
  <2>1. q = [p EXCEPT !.attention = e.to] /\ e.to \in AttentionState
    BY <1>3, EventFields DEF ReduceThread, AttentionTo
  <2> QED
    BY <1>3, <2>1 DEF Follows, ThreadProjection
<1>4. CASE e.type \in {"thread.message_appended", "delivery.recorded"}
  <2>1. q = p
    BY <1>4 DEF ReduceThread
  <2> QED
    BY <1>4, <2>1 DEF Follows
<1> QED
  BY <1>1, <1>2, <1>3, <1>4

LEMMA BranchEvents ==
    ASSUME NEW p \in ThreadProjection, NEW e \in Event, ReduceThread(p, e) # Invalid,
           e.type \in {"thread.branch_forked", "thread.branch_selected"}
    PROVE  Follows(p, e, ReduceThread(p, e))
<1> DEFINE q == ReduceThread(p, e)
           forked == [c \in Branches |->
                IF c = e.branch THEN "ACTIVE"
                ELSE IF c = e.from /\ p.branches[c] = "ABSENT" THEN "SELECTED"
                ELSE p.branches[c]]
           selected == [c \in Branches |->
                IF c = e.branch THEN "SELECTED"
                ELSE IF p.branches[c] = "SELECTED" THEN "ACTIVE"
                ELSE p.branches[c]]
<1>0. {forked, selected} \subseteq [Branches -> BranchStatus \cup {"ABSENT"}]
  BY ProjectionFields DEF BranchStatus
<1>1. CASE e.type = "thread.branch_forked"
  <2>1. q = [p EXCEPT !.branches = forked]
    BY <1>1 DEF ReduceThread, ForkBranch
  <2> HIDE DEF forked, q
  <2> QED
    BY <1>0, <1>1, <2>1 DEF Follows, ThreadProjection, q
<1>2. CASE e.type = "thread.branch_selected"
  <2>1. q = [p EXCEPT !.branch = e.branch, !.branches = selected] /\ e.branch \in Branches
    BY <1>2, EventFields DEF ReduceThread, SelectBranch
  <2> HIDE DEF selected, q
  <2> QED
    BY <1>0, <1>2, <2>1 DEF Follows, ThreadProjection, q
<1> QED
  BY <1>1, <1>2

LEMMA RunEvents ==
    ASSUME NEW p \in ThreadProjection, NEW e \in Event, ReduceThread(p, e) # Invalid,
           e.type \in {"run.snapshots_bound", "run.state_changed", "run.checkpoint_recorded"}
    PROVE  Follows(p, e, ReduceThread(p, e))
<1> DEFINE q == ReduceThread(p, e)
           r == e.run
           old == p.runs[r]
<1>0. r \in Runs /\ old \in RunProjection /\ p.runs \in [Runs -> RunProjection]
  BY EventFields, ProjectionFields
<1>a. ASSUME NEW new \in RunProjection, NEW active \in Runs \cup {NoRun},
             old.state # "ABSENT", new.state # "ABSENT", new.branch = old.branch,
             q = [p EXCEPT !.runs = [p.runs EXCEPT ![r] = new], !.active = active]
      PROVE  Follows(p, e, q)
  <2> DEFINE runs == [p.runs EXCEPT ![r] = new]
  <2>1. /\ runs \in [Runs -> RunProjection]
        /\ \A o \in Runs : /\ runs[o].branch = p.runs[o].branch
                           /\ runs[o].state = "ABSENT" <=> p.runs[o].state = "ABSENT"
    BY <1>0, <1>a, RunReplaced
  <2>2. q = [p EXCEPT !.runs = runs, !.active = active]
    BY <1>a
  <2> HIDE DEF runs, q
  <2> QED
    BY <2>1, <2>2 DEF Follows, ThreadProjection
<1>1. CASE e.type = "run.snapshots_bound"
  <2> DEFINE new == [old EXCEPT !.bound = TRUE]
  <2>1. HasRun(p, r) /\ q = [p EXCEPT !.runs[r].bound = TRUE]
    BY <1>1 DEF ReduceThread, BindSnapshots
  <2>2. old.state # "ABSENT"
    BY <2>1 DEF HasRun
  <2>3. new \in RunProjection /\ new.state # "ABSENT" /\ new.branch = old.branch
    BY <1>0, <2>2 DEF RunProjection
  <2>4. q = [p EXCEPT !.runs = [p.runs EXCEPT ![r] = new], !.active = p.active]
    BY <1>0, <2>1 DEF ThreadProjection, RunProjection
  <2> HIDE DEF new
  <2> QED
    BY <1>a, <2>2, <2>3, <2>4, ProjectionFields
<1>2. CASE e.type = "run.state_changed"
  <2> DEFINE new == [old EXCEPT !.state = e.to]
             active == IF e.to = "RUNNING" THEN r
                       ELSE IF e.to \in TerminalRunState /\ p.active = r THEN NoRun ELSE p.active
  <2>1. HasRun(p, r) /\ q = [p EXCEPT !.runs[r].state = e.to, !.active = active]
    BY <1>2 DEF ReduceThread, RunTo
  <2>2. old.state # "ABSENT" /\ e.to \in RunState /\ "ABSENT" \notin RunState
    BY <1>2, <2>1, EventFields DEF HasRun, RunState
  <2>3. /\ new \in RunProjection /\ new.state # "ABSENT" /\ new.branch = old.branch
        /\ active \in Runs \cup {NoRun}
    BY <1>0, <2>2, ProjectionFields DEF RunProjection
  <2>4. q = [p EXCEPT !.runs = [p.runs EXCEPT ![r] = new], !.active = active]
    BY <1>0, <2>1 DEF ThreadProjection, RunProjection
  <2> HIDE DEF new, active
  <2> QED
    BY <1>a, <2>2, <2>3, <2>4
<1>3. CASE e.type = "run.checkpoint_recorded"
  <2> DEFINE new == [old EXCEPT !.checkpoint = e.sequence]
  <2>1. HasRun(p, r) /\ q = [p EXCEPT !.runs[r].checkpoint = e.sequence]
    BY <1>3 DEF ReduceThread, Checkpoint, OpenRun
  <2>2. old.state # "ABSENT" /\ e.sequence \in Nat
    BY <1>3, <2>1, EventFields DEF HasRun
  <2>3. new \in RunProjection /\ new.state # "ABSENT" /\ new.branch = old.branch
    BY <1>0, <2>2 DEF RunProjection
  <2>4. q = [p EXCEPT !.runs = [p.runs EXCEPT ![r] = new], !.active = p.active]
    BY <1>0, <2>1 DEF ThreadProjection, RunProjection
  <2> HIDE DEF new
  <2> QED
    BY <1>a, <2>2, <2>3, <2>4, ProjectionFields
<1> QED
  BY <1>1, <1>2, <1>3

LEMMA RunCreated ==
    ASSUME NEW p \in ThreadProjection, NEW e \in Event, ReduceThread(p, e) # Invalid,
           e.type = "run.created"
    PROVE  Follows(p, e, ReduceThread(p, e))
<1> DEFINE q == ReduceThread(p, e)
           r == e.run
           new == [AbsentRun EXCEPT !.state = "CREATED", !.branch = e.branch]
           runs == [p.runs EXCEPT ![r] = new]
<1>1. /\ r \in Runs /\ e.branch \in Branches /\ p.runs \in [Runs -> RunProjection]
      /\ p # Invalid
  BY EventFields, ProjectionFields
<1>2. ~HasRun(p, r) /\ q = [p EXCEPT !.branch = e.branch, !.runs[r] = new]
  BY DEF ReduceThread, CreateRun
<1>3. p.runs[r].state = "ABSENT"
  BY <1>1, <1>2 DEF HasRun
<1>4. new \in RunProjection /\ new.state = "CREATED" /\ new.branch = e.branch
  BY <1>1 DEF AbsentRun, RunProjection, RunState
<1>5. q = [p EXCEPT !.branch = e.branch, !.runs = runs]
  BY <1>2 DEF ThreadProjection
<1> HIDE DEF new
<1>6. /\ runs \in [Runs -> RunProjection] /\ runs[r] = new
      /\ \A o \in Runs \ {r} : runs[o] = p.runs[o]
  BY <1>1, <1>4
<1> HIDE DEF runs
<1>7. /\ q \in ThreadProjection /\ q.runs = runs /\ q.branch = e.branch
      /\ q.actual = p.actual /\ q.desired = p.desired /\ q.attention = p.attention
  BY <1>1, <1>5, <1>6 DEF ThreadProjection
<1> HIDE DEF q
<1>8. Follows(p, e, q)
  BY <1>3, <1>4, <1>6, <1>7 DEF Follows
<1> QED
  BY <1>8 DEF q

LEMMA ReduceThreadFollows ==
    ASSUME NEW p \in ThreadProjection, NEW e \in Event, ReduceThread(p, e) # Invalid
    PROVE  Follows(p, e, ReduceThread(p, e))
<1>1. e.type # "thread.created"
  BY DEF ReduceThread
<1> QED
  BY <1>1, EventFields, ThreadEvents, BranchEvents, RunEvents, RunCreated DEF EventType
LEMMA NewThreadFields ==
    /\ NewThread \in ThreadProjection
    /\ NewThread.runs = [r \in Runs |-> AbsentRun]
    /\ NewThread.actual = "CREATED" /\ NewThread.desired = "RUN"
    /\ NewThread.attention = "NONE" /\ NewThread.branch = MainBranch
<1>1. AbsentRun \in RunProjection
  BY JournalAssumption DEF AbsentRun, RunProjection
<1> QED
  BY <1>1, JournalAssumption
     DEF NewThread, ThreadProjection, ThreadState, DesiredState, AttentionState, BranchStatus

\* What an event that is taken makes of a projection and of what goes with it.
Advances(a, e, n, b) ==
    /\ IF e.type = "thread.created" /\ a = Empty THEN b.thread = NewThread
       ELSE Exists(a) /\ b.thread = ReduceThread(a.thread, e)
    /\ Exists(b) /\ b.revision = n
    /\ e.type = "thread.message_appended" => e.message \notin a.updates
    /\ b.updates = IF e.type = "thread.message_appended"
                   THEN a.updates \cup {e.message} ELSE a.updates
    /\ b.born = IF e.type = "run.created" THEN [a.born EXCEPT ![e.run] = n] ELSE a.born
    /\ b.context = IF e.type = "run.snapshots_bound"
                   THEN [a.context EXCEPT ![e.run] = e.context] ELSE a.context

LEMMA ReduceAdvances ==
    ASSUME NEW a, NEW e, NEW n, Reduce(a, e, n) # Refused
    PROVE  Advances(a, e, n, Reduce(a, e, n))
<1> DEFINE p == IF e.type = "thread.created" /\ a = Empty THEN NewThread
                ELSE IF Exists(a) THEN ReduceThread(a.thread, e) ELSE Invalid
           updates == IF e.type = "thread.message_appended"
                      THEN a.updates \cup {e.message} ELSE a.updates
           born == IF e.type = "run.created" THEN [a.born EXCEPT ![e.run] = n] ELSE a.born
           context == IF e.type = "run.snapshots_bound"
                      THEN [a.context EXCEPT ![e.run] = e.context] ELSE a.context
           b == [thread |-> p, revision |-> n, updates |-> updates,
                 born |-> born, context |-> context]
<1>1. Reduce(a, e, n) =
        IF p = Invalid \/ (e.type = "thread.message_appended" /\ e.message \in a.updates)
        THEN Refused ELSE b
  BY DEF Reduce
<1>2. /\ p # Invalid
      /\ e.type = "thread.message_appended" => e.message \notin a.updates
      /\ Reduce(a, e, n) = b
  BY <1>1
<1>3. /\ b.thread = p /\ b.revision = n /\ b.updates = updates /\ b.born = born
      /\ b.context = context
  OBVIOUS
<1>4. IF e.type = "thread.created" /\ a = Empty THEN p = NewThread
      ELSE Exists(a) /\ p = ReduceThread(a.thread, e)
  BY <1>2
<1> HIDE DEF p, updates, born, context, b
<1>5. Exists(b)
  BY <1>2, <1>3 DEF Exists
<1> QED
  BY <1>2, <1>3, <1>4, <1>5 DEF Advances, updates, born, context

RunsIn(p) == {r \in Runs : p.runs[r].state # "ABSENT"}

\* A projection and what goes with it are well formed.
AggregateOK(a) ==
    /\ Exists(a) => a.thread \in ThreadProjection /\ IsFiniteSet(RunsIn(a.thread))
    /\ a.updates \subseteq Messages
    /\ a.revision \in Nat
    /\ a.born \in [Runs -> Nat] /\ \A r \in Runs : a.born[r] <= a.revision
    /\ a.context \in [Runs -> Seq(Messages)]

LEMMA EmptyIsOK == AggregateOK(Empty)
<1>1. << >> \in Seq(Messages)
  OBVIOUS
<1> QED
  BY <1>1, EmptyFields DEF AggregateOK, Exists

LEMMA ReduceKeepsOK ==
    ASSUME NEW a, AggregateOK(a), NEW e \in Event, NEW n \in Nat, a.revision <= n,
           Reduce(a, e, n) # Refused
    PROVE  AggregateOK(Reduce(a, e, n))
<1> DEFINE b == Reduce(a, e, n)
<1>1. Advances(a, e, n, b)
  BY ReduceAdvances
<1> HIDE DEF b
<1>2. b.thread \in ThreadProjection /\ IsFiniteSet(RunsIn(b.thread))
  <2>1. CASE b.thread = NewThread
    <3>1. RunsIn(NewThread) = {}
      BY NewThreadFields DEF RunsIn, AbsentRun
    <3> QED
      BY <2>1, <3>1, NewThreadFields, FS_EmptySet
  <2>2. CASE Exists(a) /\ b.thread = ReduceThread(a.thread, e)
    <3>1. /\ a.thread \in ThreadProjection /\ IsFiniteSet(RunsIn(a.thread))
          /\ ReduceThread(a.thread, e) # Invalid
      BY <1>1, <2>2 DEF Advances, AggregateOK, Exists
    <3>2. Follows(a.thread, e, b.thread)
      BY <2>2, <3>1, ReduceThreadFollows
    <3>3. RunsIn(b.thread) \subseteq RunsIn(a.thread) \cup {e.run}
      BY <3>2 DEF Follows, RunsIn
    <3>4. IsFiniteSet(RunsIn(a.thread) \cup {e.run})
      BY <3>1, FS_AddElement
    <3> QED
      BY <3>2, <3>3, <3>4, FS_Subset DEF Follows
  <2> QED
    BY <1>1, <2>1, <2>2 DEF Advances
<1>3. b.updates \subseteq Messages
  BY <1>1, EventFields DEF Advances, AggregateOK
<1>4. b.revision = n /\ b.born \in [Runs -> Nat] /\ \A r \in Runs : b.born[r] <= n
  <2>1. b.born = IF e.type = "run.created" THEN [a.born EXCEPT ![e.run] = n] ELSE a.born
    BY <1>1 DEF Advances
  <2>2. /\ a.revision \in Nat /\ a.born \in [Runs -> Nat]
        /\ \A r \in Runs : a.born[r] <= a.revision
    BY DEF AggregateOK
  <2>3. e.type = "run.created" => e.run \in Runs
    BY EventFields
  <2>4. \A r \in Runs : b.born[r] = n \/ b.born[r] = a.born[r]
    BY <2>1, <2>2, <2>3
  <2>5. b.born \in [Runs -> Nat]
    BY <2>1, <2>2, <2>3
  <2> QED
    BY <1>1, <2>2, <2>4, <2>5 DEF Advances
<1>5. b.context \in [Runs -> Seq(Messages)]
  BY <1>1, EventFields DEF Advances, AggregateOK
<1>6. AggregateOK(b)
  BY <1>2, <1>3, <1>4, <1>5 DEF AggregateOK
<1> QED
  BY <1>6 DEF b

\* Every projection a transaction goes through is well formed.
LEMMA ReplayIsOK ==
    ASSUME NEW s \in Seq(Event), Replay(s, Len(s)) # Refused
    PROVE  \A i \in 0..Len(s) : AggregateOK(Replay(s, i))
<1> DEFINE S == {k \in Nat : k <= Len(s) => AggregateOK(Replay(s, k))}
<1>0. Len(s) \in Nat /\ \A i \in 1..Len(s) : s[i] \in Event
  OBVIOUS
<1>1. /\ Replay(s, 0) = Empty
      /\ \A i \in 1..Len(s) : Replay(s, i) = Reduce(Replay(s, i - 1), s[i], i)
  BY ReplayStep
<1>2. \A i \in 0..Len(s) : Replay(s, i) # Refused
  BY ReplayCounts
<1>3. 0 \in S
  BY <1>1, EmptyIsOK
<1>4. ASSUME NEW k \in Nat, k \in S PROVE k + 1 \in S
  <2>1. SUFFICES ASSUME k + 1 <= Len(s) PROVE AggregateOK(Replay(s, k + 1))
    OBVIOUS
  <2>2. k + 1 \in 1..Len(s) /\ k + 1 \in 0..Len(s) /\ (k + 1) - 1 = k /\ k + 1 \in Nat
    BY <1>0, <2>1
  <2>3. AggregateOK(Replay(s, k)) /\ s[k + 1] \in Event /\ Replay(s, k).revision <= k + 1
    <3>1. k \in 0..Len(s)
      BY <1>0, <2>1
    <3>2. Replay(s, k).revision = k
      BY <3>1, ReplayCounts
    <3> QED
      BY <1>0, <1>4, <2>1, <2>2, <3>2
  <2>4. Replay(s, k + 1) = Reduce(Replay(s, k), s[k + 1], k + 1) /\ Replay(s, k + 1) # Refused
    BY <1>1, <1>2, <2>2
  <2> QED
    BY <2>2, <2>3, <2>4, ReduceKeepsOK
<1> HIDE DEF S
<1>5. Nat \subseteq S
  BY <1>3, <1>4, SetInduction
<1> QED
  BY <1>0, <1>5 DEF S
-----------------------------------------------------------------------------
(* Transactions.  What is stored is what the events replay to; so a          *)
(* transaction's projections are replays of the stream it leaves.            *)

Replayed ==
    /\ events \in [Threads -> Seq(Event)]
    /\ DOMAIN stored = Threads
    /\ \A t \in Threads : stored[t] # Refused /\ stored[t] = Replay(events[t], Len(events[t]))

Projected(t, drafts, j) == Reductions(stored[t], drafts, Len(events[t]))[j]

LEMMA StoredIsOK ==
    ASSUME Replayed, NEW t \in Threads
    PROVE  /\ AggregateOK(stored[t])
           /\ stored[t].revision = Len(events[t]) /\ Len(events[t]) \in Nat
           /\ ~Exists(stored[t]) => stored[t] = Empty /\ events[t] = << >>
<1>1. /\ events[t] \in Seq(Event) /\ Len(events[t]) \in Nat
      /\ stored[t] = Replay(events[t], Len(events[t])) /\ stored[t] # Refused
  BY DEF Replayed
<1>2. Len(events[t]) \in 0..Len(events[t])
  BY <1>1
<1>3. AggregateOK(stored[t]) /\ stored[t].revision = Len(events[t])
  BY <1>1, <1>2, ReplayIsOK, ReplayCounts
<1>4. ASSUME ~Exists(stored[t]) PROVE stored[t] = Empty /\ events[t] = << >>
  <2>1. Len(events[t]) = 0
    BY <1>1, <1>2, <1>4, ReplayCounts
  <2> QED
    BY <1>1, <2>1, ReplayStep
<1> QED
  BY <1>1, <1>3, <1>4

LEMMA CommitReplays ==
    ASSUME Replayed, NEW t \in Threads, NEW d \in Seq(Event), Commit(t, d)
    PROVE  /\ Replayed'
           /\ events' = [events EXCEPT ![t] = events[t] \o d]
           /\ stored' = [stored EXCEPT ![t] = Projected(t, d, Len(d))]
           /\ \A i \in 0..Len(events[t]) : Replay(events'[t], i) = Replay(events[t], i)
           /\ \A j \in 0..Len(d) :
                Replay(events'[t], Len(events[t]) + j) = Projected(t, d, j)
<1> DEFINE s == events[t]
<1>1. /\ s \in Seq(Event) /\ s \o d \in Seq(Event) /\ Len(s) \in Nat /\ Len(d) \in Nat
      /\ Len(s \o d) = Len(s) + Len(d)
      /\ stored[t] = Replay(s, Len(s))
  BY DEF Replayed
<1>2. /\ events' = [events EXCEPT ![t] = s \o d]
      /\ stored' = [stored EXCEPT ![t] = Projected(t, d, Len(d))]
      /\ Projected(t, d, Len(d)) # Refused
  BY DEF Commit, Stored, Reduced, Projected
<1>3. /\ \A i \in 0..Len(s) : Replay(s \o d, i) = Replay(s, i)
      /\ \A j \in 0..Len(d) : Replay(s \o d, Len(s) + j) = Projected(t, d, j)
  <2>1. stored[t] = Replay(s, Len(s))
    BY <1>1
  <2> HIDE DEF s
  <2>2. /\ \A i \in 0..Len(s) : Replay(s \o d, i) = Replay(s, i)
        /\ \A j \in 0..Len(d) :
              Replay(s \o d, Len(s) + j) = Reductions(stored[t], d, Len(s))[j]
    <3>1. s \in Seq(Event) /\ d \in Seq(Event)
      BY <1>1
    <3> QED
      BY <2>1, <3>1, ReplayOfConcat
  <2> QED
    BY <2>2 DEF Projected, s
<1>4. /\ events'[t] = s \o d /\ stored'[t] = Projected(t, d, Len(d))
      /\ events' \in [Threads -> Seq(Event)] /\ DOMAIN stored' = Threads
      /\ \A o \in Threads \ {t} : events'[o] = events[o] /\ stored'[o] = stored[o]
  BY <1>1, <1>2 DEF Replayed
<1>5. stored'[t] = Replay(events'[t], Len(events'[t])) /\ stored'[t] # Refused
  <2>1. Len(d) \in 0..Len(d)
    BY <1>1
  <2> QED
    BY <1>1, <1>2, <1>3, <1>4, <2>1
<1>6. Replayed'
  BY <1>4, <1>5 DEF Replayed
<1> QED
  BY <1>2, <1>3, <1>4, <1>6

\* The projections a transaction goes through.
LEMMA ProjectedStep ==
    ASSUME Replayed, NEW t \in Threads, NEW d \in Seq(Event), Commit(t, d)
    PROVE  /\ Projected(t, d, 0) = stored[t]
           /\ \A j \in 0..Len(d) :
                /\ AggregateOK(Projected(t, d, j))
                /\ j > 0 => Exists(Projected(t, d, j))
           /\ \A j \in 1..Len(d) :
                Advances(Projected(t, d, j - 1), d[j], Len(events[t]) + j, Projected(t, d, j))
<1> DEFINE s == events[t]
           n == Len(s)
           whole == events'[t]
<1>1. /\ Replayed'
      /\ events' = [events EXCEPT ![t] = s \o d]
      /\ \A j \in 0..Len(d) : Replay(whole, n + j) = Projected(t, d, j)
  BY CommitReplays
<1>2. whole = s \o d /\ whole \in Seq(Event) /\ Len(whole) = n + Len(d) /\ n \in Nat /\ Len(d) \in Nat
  BY <1>1 DEF Replayed
<1>3. Replay(whole, Len(whole)) # Refused
  BY <1>1 DEF Replayed
<1>4. /\ \A i \in 0..(n + Len(d)) :
            /\ AggregateOK(Replay(whole, i)) /\ Replay(whole, i) # Refused
            /\ i > 0 => Exists(Replay(whole, i))
  BY <1>2, <1>3, ReplayIsOK, ReplayCounts
<1>5. \A j \in 0..Len(d) : n + j \in 0..(n + Len(d)) /\ (j > 0 => n + j > 0)
  BY <1>2
<1>6. /\ Projected(t, d, 0) = stored[t]
      /\ \A j \in 1..Len(d) :
            Projected(t, d, j) = Reduce(Projected(t, d, j - 1), d[j], n + j)
  BY <1>2, ReductionsTable DEF Projected
<1>7. ASSUME NEW j \in 1..Len(d)
      PROVE  Advances(Projected(t, d, j - 1), d[j], n + j, Projected(t, d, j))
  <2>1. j \in 0..Len(d) /\ Projected(t, d, j) # Refused
    BY <1>1, <1>2, <1>4, <1>5
  <2> QED
    BY <1>6, <2>1, ReduceAdvances
<1> HIDE DEF whole
<1>8. \A j \in 0..Len(d) :
            /\ AggregateOK(Projected(t, d, j))
            /\ j > 0 => Exists(Projected(t, d, j))
  BY <1>1, <1>4, <1>5
<1> QED
  BY <1>6, <1>7, <1>8
-----------------------------------------------------------------------------
(* Drafts: what the events of a transaction say, put together part by part.  *)

\* Events whose source the reducer does not check, and those that change which Run
\* of the Thread is the newest and what it has been told.
Sourced == {"thread.desired_state_changed", "thread.attention_changed"}
Shaping == {"thread.branch_selected", "run.created", "run.snapshots_bound"}
Marked == Sourced \cup Shaping

\* The drafts append the messages of M and no other; of the marked types, only
\* those of K occur, and where the source is not checked it is that of a and the
\* type occurs once.
Draws(d, a, M, K) ==
    /\ d \in Seq(Event) /\ K \subseteq Marked
    /\ \A j \in 1..Len(d) : d[j].type = "thread.message_appended" => d[j].message \in M
    /\ \A m \in M : \E j \in 1..Len(d) : d[j].type = "thread.message_appended" /\ d[j].message = m
    /\ \A j \in 1..Len(d) :
        /\ d[j].type \in Marked => d[j].type \in K
        /\ d[j].type \in Sourced => Exists(a)
        /\ d[j].type = "thread.desired_state_changed" => d[j].from = a.thread.desired
        /\ d[j].type = "thread.attention_changed" => d[j].from = a.thread.attention
    /\ \A j, k \in 1..Len(d) : d[j].type = d[k].type /\ d[j].type \in Sourced => j = k

LEMMA DrawsNothing ==
    ASSUME NEW a
    PROVE  Draws(<< >>, a, {}, {})
  BY DEF Draws

LEMMA DrawsOne ==
    ASSUME NEW a, NEW e \in Event, NEW M, NEW K \in SUBSET Marked,
           IF e.type = "thread.message_appended" THEN M = {e.message} ELSE M = {},
           e.type \in Marked => e.type \in K,
           e.type \in Sourced => Exists(a),
           e.type = "thread.desired_state_changed" => e.from = a.thread.desired,
           e.type = "thread.attention_changed" => e.from = a.thread.attention
    PROVE  Draws(<<e>>, a, M, K)
<1> DEFINE d == <<e>>
<1>1. d \in Seq(Event) /\ Len(d) = 1 /\ d[1] = e /\ 1..1 = {1}
  OBVIOUS
<1> HIDE DEF d
<1> QED
  BY <1>1 DEF Draws, d

LEMMA DrawsBoth ==
    ASSUME NEW a, NEW c, NEW d, NEW M, NEW N, NEW K, NEW L,
           Draws(c, a, M, K), Draws(d, a, N, L), K \cap L = {}
    PROVE  Draws(c \o d, a, M \cup N, K \cup L)
<1> DEFINE w == c \o d
           n == Len(c)
<1>1. c \in Seq(Event) /\ d \in Seq(Event)
  BY DEF Draws
<1>2. /\ w \in Seq(Event) /\ n \in Nat /\ Len(d) \in Nat /\ Len(w) = n + Len(d)
      /\ \A j \in 1..n : w[j] = c[j]
      /\ \A j \in 1..Len(d) : w[n + j] = d[j]
  BY <1>1
<1>3. \A j \in 1..Len(w) : \/ j \in 1..n /\ w[j] = c[j]
                           \/ j - n \in 1..Len(d) /\ w[j] = d[j - n]
  <2> SUFFICES ASSUME NEW j \in 1..Len(w), j \notin 1..n
               PROVE  j - n \in 1..Len(d) /\ w[j] = d[j - n]
    BY <1>2
  <2>1. j - n \in 1..Len(d) /\ n + (j - n) = j
    BY <1>2
  <2> QED
    BY <1>2, <2>1
<1> HIDE DEF w
<1>4. \A j \in 1..Len(w) : w[j].type = "thread.message_appended" => w[j].message \in M \cup N
  BY <1>3 DEF Draws
<1>5. \A m \in M \cup N : \E j \in 1..Len(w) :
            w[j].type = "thread.message_appended" /\ w[j].message = m
  <2>1. \A j \in 1..n : j \in 1..Len(w)
    BY <1>2
  <2>2. \A j \in 1..Len(d) : n + j \in 1..Len(w)
    BY <1>2
  <2>3. ASSUME NEW m \in M
        PROVE  \E j \in 1..Len(w) : w[j].type = "thread.message_appended" /\ w[j].message = m
    BY <1>2, <2>1 DEF Draws
  <2>4. ASSUME NEW m \in N
        PROVE  \E j \in 1..Len(w) : w[j].type = "thread.message_appended" /\ w[j].message = m
    <3>1. PICK i \in 1..Len(d) : d[i].type = "thread.message_appended" /\ d[i].message = m
      BY DEF Draws
    <3>2. n + i \in 1..Len(w) /\ w[n + i] = d[i]
      BY <1>2, <2>2
    <3> QED
      BY <3>1, <3>2
  <2> QED
    BY <2>3, <2>4
<1>6. \A j \in 1..Len(w) :
        /\ w[j].type \in Marked => w[j].type \in K \cup L
        /\ w[j].type \in Sourced => Exists(a)
        /\ w[j].type = "thread.desired_state_changed" => w[j].from = a.thread.desired
        /\ w[j].type = "thread.attention_changed" => w[j].from = a.thread.attention
  BY <1>3 DEF Draws
<1>7. ASSUME NEW j \in 1..Len(w), NEW k \in 1..Len(w), w[j].type = w[k].type, w[j].type \in Sourced
      PROVE  j = k
  <2>1. CASE j \in 1..n /\ k \in 1..n /\ w[j] = c[j] /\ w[k] = c[k]
    BY <1>7, <2>1 DEF Draws
  <2>2. CASE j - n \in 1..Len(d) /\ k - n \in 1..Len(d) /\ w[j] = d[j - n] /\ w[k] = d[k - n]
    <3>1. j - n = k - n
      BY <1>7, <2>2 DEF Draws
    <3> QED
      BY <1>2, <3>1
  <2>3. CASE j \in 1..n /\ k - n \in 1..Len(d) /\ w[j] = c[j] /\ w[k] = d[k - n]
    <3>1. c[j].type \in K /\ d[k - n].type \in L
      BY <1>7, <2>3 DEF Draws, Marked
    <3> QED
      BY <1>7, <2>3, <3>1
  <2>4. CASE k \in 1..n /\ j - n \in 1..Len(d) /\ w[k] = c[k] /\ w[j] = d[j - n]
    <3>1. c[k].type \in K /\ d[j - n].type \in L
      BY <1>7, <2>4 DEF Draws, Marked
    <3> QED
      BY <1>7, <2>4, <3>1
  <2> QED
    BY <1>3, <2>1, <2>2, <2>3, <2>4
<1>8. K \cup L \subseteq Marked
  BY DEF Draws
<1>9. Draws(w, a, M \cup N, K \cup L)
  BY <1>2, <1>4, <1>5, <1>6, <1>7, <1>8 DEF Draws
<1> QED
  BY <1>9 DEF w

\* Desired state and attention stay until a draft changes them.
LEMMA SourcesStay ==
    ASSUME Replayed, NEW t \in Threads, NEW d \in Seq(Event), Commit(t, d), Exists(stored[t])
    PROVE  \A j \in 0..Len(d) :
        LET p == Projected(t, d, j)
        IN  /\ Exists(p)
            /\ (\A k \in 1..j : d[k].type # "thread.desired_state_changed") =>
                    p.thread.desired = stored[t].thread.desired
            /\ (\A k \in 1..j : d[k].type # "thread.attention_changed") =>
                    p.thread.attention = stored[t].thread.attention
<1> DEFINE Kept(j) ==
        LET p == Projected(t, d, j)
        IN  /\ Exists(p)
            /\ (\A k \in 1..j : d[k].type # "thread.desired_state_changed") =>
                    p.thread.desired = stored[t].thread.desired
            /\ (\A k \in 1..j : d[k].type # "thread.attention_changed") =>
                    p.thread.attention = stored[t].thread.attention
           S == {j \in Nat : j <= Len(d) => Kept(j)}
<1>0. Len(d) \in Nat /\ \A j \in 1..Len(d) : d[j] \in Event
  OBVIOUS
<1>1. /\ Projected(t, d, 0) = stored[t]
      /\ \A j \in 0..Len(d) : AggregateOK(Projected(t, d, j))
      /\ \A j \in 1..Len(d) :
            Advances(Projected(t, d, j - 1), d[j], Len(events[t]) + j, Projected(t, d, j))
  BY ProjectedStep
<1>2. 0 \in S
  BY <1>1
<1>3. ASSUME NEW i \in Nat, i \in S PROVE i + 1 \in S
  <2>1. SUFFICES ASSUME i + 1 <= Len(d) PROVE Kept(i + 1)
    OBVIOUS
  <2> DEFINE j == i + 1
             a == Projected(t, d, i)
             b == Projected(t, d, j)
             e == d[j]
  <2>2. j \in 1..Len(d) /\ j \in 0..Len(d) /\ i \in 0..Len(d) /\ j - 1 = i
        /\ j \in 1..j /\ \A k \in 1..i : k \in 1..j
    BY <1>0, <2>1
  <2>3. Kept(i)
    BY <1>3, <2>1, <1>0
  <2>4. Advances(a, e, Len(events[t]) + j, b) /\ AggregateOK(a) /\ e \in Event
    BY <1>0, <1>1, <2>2
  <2>5. Exists(a) /\ a # Empty
    BY <2>3, EmptyFields DEF Exists
  <2>6. Exists(b) /\ b.thread = ReduceThread(a.thread, e)
    BY <2>4, <2>5 DEF Advances
  <2>7. Follows(a.thread, e, b.thread)
    BY <2>4, <2>5, <2>6, ReduceThreadFollows DEF AggregateOK, Exists
  <2> HIDE DEF a, b, e
  <2>8. /\ e.type # "thread.desired_state_changed" => b.thread.desired = a.thread.desired
        /\ e.type # "thread.attention_changed" => b.thread.attention = a.thread.attention
    BY <2>7 DEF Follows
  <2>9. (\A k \in 1..j : d[k].type # "thread.desired_state_changed") =>
             b.thread.desired = stored[t].thread.desired
    BY <2>2, <2>3, <2>8 DEF a, b, e
  <2>10. (\A k \in 1..j : d[k].type # "thread.attention_changed") =>
             b.thread.attention = stored[t].thread.attention
    BY <2>2, <2>3, <2>8 DEF a, b, e
  <2> QED
    BY <2>6, <2>9, <2>10 DEF b
<1> HIDE DEF S, Kept
<1>4. Nat \subseteq S
  BY <1>2, <1>3, SetInduction
<1>5. \A j \in 0..Len(d) : Kept(j)
  BY <1>0, <1>4 DEF S
<1> QED
  BY <1>5 DEF Kept
\* Each draft is followed by what it says, in the projection it finds.
LEMMA DraftsTellTheirSource ==
    ASSUME Replayed, NEW t \in Threads, NEW d, NEW M, NEW K, Draws(d, stored[t], M, K),
           Commit(t, d), NEW j \in 1..Len(d)
    PROVE  LET before == Projected(t, d, j - 1).thread
           IN  /\ d[j].type = "thread.desired_state_changed" => d[j].from = before.desired
               /\ d[j].type = "thread.attention_changed" => d[j].from = before.attention
<1>1. /\ d \in Seq(Event) /\ Len(d) \in Nat
      /\ j - 1 \in 0..Len(d) /\ \A k \in 1..(j - 1) : k \in 1..Len(d) /\ k # j
  BY DEF Draws
<1>2. SUFFICES ASSUME d[j].type \in Sourced
      PROVE  LET before == Projected(t, d, j - 1).thread
             IN  /\ d[j].type = "thread.desired_state_changed" => d[j].from = before.desired
                 /\ d[j].type = "thread.attention_changed" => d[j].from = before.attention
  BY DEF Sourced
<1>3. Exists(stored[t]) /\ \A k \in 1..(j - 1) : d[k].type # d[j].type
  BY <1>1, <1>2 DEF Draws
<1>4. LET p == Projected(t, d, j - 1)
      IN  /\ (\A k \in 1..(j - 1) : d[k].type # "thread.desired_state_changed") =>
                    p.thread.desired = stored[t].thread.desired
          /\ (\A k \in 1..(j - 1) : d[k].type # "thread.attention_changed") =>
                    p.thread.attention = stored[t].thread.attention
  BY <1>1, <1>3, SourcesStay
<1> QED
  BY <1>3, <1>4 DEF Draws

\* A transaction adds the messages its drafts append, and no other.
LEMMA UpdatesGrow ==
    ASSUME Replayed, NEW t \in Threads, NEW d, NEW M, NEW K, Draws(d, stored[t], M, K),
           Commit(t, d)
    PROVE  Projected(t, d, Len(d)).updates = stored[t].updates \cup M
<1> DEFINE U(j) == Projected(t, d, j).updates
           Said(j) == {d[k].message : k \in {i \in 1..j : d[i].type = "thread.message_appended"}}
           S == {j \in Nat : j <= Len(d) => U(j) = stored[t].updates \cup Said(j)}
<1>0. d \in Seq(Event) /\ Len(d) \in Nat
  BY DEF Draws
<1>1. /\ Projected(t, d, 0) = stored[t]
      /\ \A j \in 1..Len(d) :
            Advances(Projected(t, d, j - 1), d[j], Len(events[t]) + j, Projected(t, d, j))
  BY <1>0, ProjectedStep
<1>2. 0 \in S
  BY <1>1
<1>3. ASSUME NEW i \in Nat, i \in S PROVE i + 1 \in S
  <2>1. SUFFICES ASSUME i + 1 <= Len(d) PROVE U(i + 1) = stored[t].updates \cup Said(i + 1)
    OBVIOUS
  <2> DEFINE j == i + 1
  <2>2. j \in 1..Len(d) /\ j - 1 = i /\ 1..j = (1..i) \cup {j}
    BY <1>0, <2>1
  <2>3. U(i) = stored[t].updates \cup Said(i)
    BY <1>0, <1>3, <2>1
  <2>4. U(j) = IF d[j].type = "thread.message_appended" THEN U(i) \cup {d[j].message} ELSE U(i)
    BY <1>1, <2>2 DEF Advances
  <2>5. Said(j) = IF d[j].type = "thread.message_appended" THEN Said(i) \cup {d[j].message}
                  ELSE Said(i)
    BY <2>2
  <2> HIDE DEF U, Said
  <2> QED
    BY <2>3, <2>4, <2>5
<1>4. Said(Len(d)) = M
  BY <1>0 DEF Draws
<1> HIDE DEF S, Said
<1>5. Nat \subseteq S
  BY <1>2, <1>3, SetInduction
<1> QED
  BY <1>0, <1>4, <1>5 DEF S

\* A projection read at some time is the replay of that many events.
Past(stream, a) == \E k \in 0..Len(stream) : a = Replay(stream, k)

LEMMA StoredIsPast ==
    ASSUME Replayed, NEW t \in Threads
    PROVE  Past(events[t], stored[t])
<1>1. Len(events[t]) \in 0..Len(events[t]) /\ stored[t] = Replay(events[t], Len(events[t]))
  BY DEF Replayed
<1> QED
  BY <1>1 DEF Past

\* What is read is still there if the revision is.
LEMMA PastAtRevision ==
    ASSUME Replayed, NEW t \in Threads, NEW a, Past(events[t], a)
    PROVE  /\ a.revision = Len(events[t]) <=> a = stored[t]
           /\ stored[t].revision = a.revision => a = stored[t]
<1>1. PICK k \in 0..Len(events[t]) : a = Replay(events[t], k)
  BY DEF Past
<1>2. /\ events[t] \in Seq(Event) /\ stored[t] # Refused
      /\ stored[t] = Replay(events[t], Len(events[t]))
      /\ Len(events[t]) \in 0..Len(events[t])
  BY DEF Replayed
<1>3. a.revision = k /\ stored[t].revision = Len(events[t])
  BY <1>1, <1>2, ReplayCounts
<1> QED
  BY <1>1, <1>2, <1>3

TellTheirSource(t) == \A i \in 1..Len(events[t]) :
    LET e      == events[t][i]
        before == Replay(events[t], i - 1).thread
    IN  /\ e.type = "thread.desired_state_changed" => e.from = before.desired
        /\ e.type = "thread.attention_changed" => e.from = before.attention

\* Streams only grow, and what they replayed to they replay to.
Grows == \A t \in Threads :
    /\ Len(events[t]) \in Nat /\ Len(events'[t]) \in Nat /\ Len(events[t]) <= Len(events'[t])
    /\ \A k \in 0..Len(events[t]) : Replay(events'[t], k) = Replay(events[t], k)

\* What every transaction keeps and what it changes.
LEMMA CommitKeeps ==
    ASSUME Replayed, EventsTellTheirSource, NEW t \in Threads, NEW d, NEW M, NEW K,
           Draws(d, stored[t], M, K), Commit(t, d)
    PROVE  /\ Replayed' /\ EventsTellTheirSource'
           /\ stored'[t].updates = stored[t].updates \cup M
           /\ d # << >> => Exists(stored'[t])
           /\ Exists(stored[t]) => Exists(stored'[t])
           /\ \A o \in Threads : o # t => stored'[o] = stored[o]
           /\ Grows
<1> DEFINE s == events[t]
           n == Len(s)
<1>1. d \in Seq(Event) /\ Len(d) \in Nat /\ n \in Nat /\ s \in Seq(Event)
  BY DEF Draws, Replayed
<1>2. /\ Replayed'
      /\ events' = [events EXCEPT ![t] = s \o d]
      /\ stored' = [stored EXCEPT ![t] = Projected(t, d, Len(d))]
      /\ \A i \in 0..n : Replay(events'[t], i) = Replay(s, i)
      /\ \A j \in 0..Len(d) : Replay(events'[t], n + j) = Projected(t, d, j)
  BY <1>1, CommitReplays
<1>3. /\ events'[t] = s \o d /\ stored'[t] = Projected(t, d, Len(d))
      /\ \A o \in Threads : o # t => events'[o] = events[o] /\ stored'[o] = stored[o]
  BY <1>2 DEF Replayed
<1>4. stored'[t].updates = stored[t].updates \cup M
  BY <1>3, UpdatesGrow
<1>5. /\ d # << >> => Exists(stored'[t])
      /\ Exists(stored[t]) => Exists(stored'[t])
  <2>1. Len(d) \in 0..Len(d) /\ (d # << >> => Len(d) > 0)
    BY <1>1
  <2>2. Len(d) > 0 => Exists(stored'[t])
    BY <1>1, <1>3, <2>1, ProjectedStep
  <2>3. d = << >> => stored'[t] = stored[t]
    BY <1>1, <1>3, ProjectedStep
  <2> QED
    BY <2>1, <2>2, <2>3
<1>6. /\ Len(events'[t]) = n + Len(d)
      /\ \A j \in 1..Len(d) : events'[t][n + j] = d[j]
      /\ \A i \in 1..n : events'[t][i] = s[i]
  BY <1>1, <1>3
<1>7. TellTheirSource(t)'
  <2> DEFINE w == events'[t]
  <2>1. ASSUME NEW i \in 1..n
        PROVE  /\ w[i].type = "thread.desired_state_changed" =>
                        w[i].from = Replay(w, i - 1).thread.desired
               /\ w[i].type = "thread.attention_changed" =>
                        w[i].from = Replay(w, i - 1).thread.attention
    <3>1. i - 1 \in 0..n /\ w[i] = s[i]
      BY <1>1, <1>6
    <3>2. Replay(w, i - 1) = Replay(s, i - 1)
      BY <1>2, <3>1
    <3> QED
      BY <3>1, <3>2 DEF EventsTellTheirSource
  <2>2. ASSUME NEW j \in 1..Len(d)
        PROVE  /\ w[n + j].type = "thread.desired_state_changed" =>
                        w[n + j].from = Replay(w, (n + j) - 1).thread.desired
               /\ w[n + j].type = "thread.attention_changed" =>
                        w[n + j].from = Replay(w, (n + j) - 1).thread.attention
    <3>1. j - 1 \in 0..Len(d) /\ (n + j) - 1 = n + (j - 1) /\ w[n + j] = d[j]
      BY <1>1, <1>6
    <3>2. Replay(w, (n + j) - 1) = Projected(t, d, j - 1)
      BY <1>2, <3>1
    <3> QED
      <4>1. LET before == Projected(t, d, j - 1).thread
            IN  /\ d[j].type = "thread.desired_state_changed" => d[j].from = before.desired
                /\ d[j].type = "thread.attention_changed" => d[j].from = before.attention
        BY DraftsTellTheirSource
      <4> HIDE DEF w
      <4> QED
        BY <3>1, <3>2, <4>1
  <2>3. \A i \in 1..Len(w) : i \in 1..n \/ \E j \in 1..Len(d) : i = n + j
    <3> SUFFICES ASSUME NEW i \in 1..Len(w), i \notin 1..n
                 PROVE  \E j \in 1..Len(d) : i = n + j
      OBVIOUS
    <3>1. i - n \in 1..Len(d) /\ i = n + (i - n)
      BY <1>1, <1>6
    <3> QED
      BY <3>1
  <2> HIDE DEF w
  <2>4. \A i \in 1..Len(w) :
            /\ w[i].type = "thread.desired_state_changed" =>
                        w[i].from = Replay(w, i - 1).thread.desired
            /\ w[i].type = "thread.attention_changed" =>
                        w[i].from = Replay(w, i - 1).thread.attention
    BY <2>1, <2>2, <2>3
  <2> QED
    BY <2>4 DEF TellTheirSource, w
<1>8. EventsTellTheirSource'
  <2>1. ASSUME NEW o \in Threads, o # t
        PROVE  TellTheirSource(o)'
    <3>1. events'[o] = events[o] /\ TellTheirSource(o)
      BY <1>3, <2>1 DEF EventsTellTheirSource, TellTheirSource
    <3> QED
      BY <3>1 DEF TellTheirSource
  <2>2. \A o \in Threads : TellTheirSource(o)'
    BY <1>7, <2>1
  <2> QED
    BY <2>2 DEF EventsTellTheirSource, TellTheirSource
<1>9. \A o \in Threads : /\ Len(events[o]) \in Nat /\ Len(events'[o]) \in Nat
                         /\ Len(events[o]) <= Len(events'[o])
  BY <1>1, <1>3, <1>6 DEF Replayed
<1>10. \A o \in Threads : \A k \in 0..Len(events[o]) : Replay(events'[o], k) = Replay(events[o], k)
  BY <1>2, <1>3
<1> QED
  BY <1>2, <1>3, <1>4, <1>5, <1>8, <1>9, <1>10 DEF Grows
-----------------------------------------------------------------------------
(* The events of the transactions.                                          *)

Plain(e) == e \in Event /\ e.type \notin Marked \cup {"thread.message_appended"}

LEMMA DrawsPlain ==
    ASSUME NEW a, NEW e, Plain(e)
    PROVE  Draws(<<e>>, a, {}, {})
  BY DrawsOne DEF Plain, Marked, Sourced

LEMMA DrawsWithin ==
    ASSUME NEW a, NEW d \in Seq(Event), NEW K \in SUBSET Shaping,
           \A j \in 1..Len(d) : Plain(d[j]) \/ d[j].type \in K
    PROVE  Draws(d, a, {}, K)
<1>1. \A j \in 1..Len(d) : /\ d[j].type \notin Sourced \cup {"thread.message_appended"}
                           /\ d[j].type \in Marked => d[j].type \in K
  BY DEF Plain, Marked, Sourced, Shaping
<1> QED
  BY <1>1 DEF Draws, Marked, Sourced

LEMMA DrawsPlainly ==
    ASSUME NEW a, NEW d \in Seq(Event), \A j \in 1..Len(d) : Plain(d[j])
    PROVE  Draws(d, a, {}, {})
  BY DrawsWithin

LEMMA PlainMoves ==
    /\ \A from, to \in ThreadState : Plain(ThreadMoves(from, to))
    /\ \A r \in Runs : \A from, to \in RunState : Plain(RunMoves(r, from, to))
<1>1. ASSUME NEW from \in ThreadState, NEW to \in ThreadState PROVE Plain(ThreadMoves(from, to))
  <2> DEFINE e == ThreadMoves(from, to)
  <2>1. e \in Event /\ e.type = "thread.state_changed"
    BY DEF Event, ThreadMoves
  <2> HIDE DEF e
  <2>2. Plain(e)
    BY <2>1 DEF Plain, Marked, Sourced, Shaping
  <2> QED
    BY <2>2 DEF e
<1>2. ASSUME NEW r \in Runs, NEW from \in RunState, NEW to \in RunState
      PROVE  Plain(RunMoves(r, from, to))
  <2> DEFINE e == RunMoves(r, from, to)
  <2>1. e \in Event /\ e.type = "run.state_changed"
    BY DEF Event, RunMoves
  <2> HIDE DEF e
  <2>2. Plain(e)
    BY <2>1 DEF Plain, Marked, Sourced, Shaping
  <2> QED
    BY <2>2 DEF e
<1> QED
  BY <1>1, <1>2

LEMMA DrawsDesired ==
    ASSUME NEW a, AggregateOK(a), Exists(a), NEW to \in DesiredState
    PROVE  Draws(<<DesiredMoves(a.thread.desired, to)>>, a, {}, {"thread.desired_state_changed"})
<1> DEFINE e == DesiredMoves(a.thread.desired, to)
<1>1. a.thread.desired \in DesiredState
  BY ProjectionFields DEF AggregateOK
<1>2. e \in Event /\ e.type = "thread.desired_state_changed" /\ e.from = a.thread.desired
  BY <1>1 DEF Event, DesiredMoves
<1> HIDE DEF e
<1>3. Draws(<<e>>, a, {}, {"thread.desired_state_changed"})
  BY <1>2, DrawsOne DEF Marked, Sourced, Shaping
<1> QED
  BY <1>3 DEF e

LEMMA DrawsAttention ==
    ASSUME NEW a, AggregateOK(a), Exists(a), NEW to \in AttentionState
    PROVE  Draws(<<AttentionMoves(a.thread.attention, to)>>, a, {}, {"thread.attention_changed"})
<1> DEFINE e == AttentionMoves(a.thread.attention, to)
<1>1. a.thread.attention \in AttentionState
  BY ProjectionFields DEF AggregateOK
<1>2. e \in Event /\ e.type = "thread.attention_changed" /\ e.from = a.thread.attention
  BY <1>1 DEF Event, AttentionMoves
<1> HIDE DEF e
<1>3. Draws(<<e>>, a, {}, {"thread.attention_changed"})
  BY <1>2, DrawsOne DEF Marked, Sourced, Shaping
<1> QED
  BY <1>3 DEF e

LEMMA DrawsMessage ==
    ASSUME NEW a, NEW m \in Messages
    PROVE  Draws(<<[type |-> "thread.message_appended", message |-> m]>>, a, {m}, {})
<1> DEFINE e == [type |-> "thread.message_appended", message |-> m]
<1>1. e \in Event /\ e.type = "thread.message_appended" /\ e.message = m
  BY DEF Event
<1> HIDE DEF e
<1>2. Draws(<<e>>, a, {m}, {})
  BY <1>1, DrawsOne DEF Marked, Sourced, Shaping
<1> QED
  BY <1>2 DEF e

-----------------------------------------------------------------------------
(* Which Run of a Thread is the newest and what it was told.                *)

Closed == {"CANCELLED", "ARCHIVED"}

SameShape(a, b) ==
    /\ b.born = a.born /\ b.context = a.context
    /\ b.thread.branch = a.thread.branch
    /\ \A r \in Runs :
        /\ b.thread.runs[r].branch = a.thread.runs[r].branch
        /\ b.thread.runs[r].state = "ABSENT" <=> a.thread.runs[r].state = "ABSENT"

LEMMA EventShapes ==
    ASSUME NEW a, AggregateOK(a), Exists(a), NEW e \in Event, NEW n, NEW b, Advances(a, e, n, b)
    PROVE  /\ Follows(a.thread, e, b.thread)
           /\ a.thread.actual \in Closed => b.thread.actual \in Closed
           /\ e.type \notin Shaping => SameShape(a, b)
<1> DEFINE p == a.thread
<1>1. p \in ThreadProjection /\ Exists(b) /\ b.thread = ReduceThread(p, e) /\ a # Empty
  BY EmptyFields DEF Advances, AggregateOK, Exists
<1>2. Follows(p, e, b.thread)
  BY <1>1, ReduceThreadFollows DEF Exists
<1>3. ASSUME p.actual \in Closed PROVE b.thread.actual \in Closed
  <2>1. CASE e.type = "thread.state_changed"
    <3>1. e.to \in ThreadTransitions[p.actual]
      BY <1>1, <2>1 DEF Exists, ReduceThread, ThreadTo
    <3>2. e.to \in Closed
      BY <1>3, <3>1 DEF ThreadTransitions, ThreadState, Closed
    <3> QED
      BY <1>2, <2>1, <3>2 DEF Follows
  <2>2. CASE e.type # "thread.state_changed"
    BY <1>2, <1>3, <2>2 DEF Follows
  <2> QED
    BY <2>1, <2>2
<1>4. ASSUME e.type \notin Shaping PROVE SameShape(a, b)
  <2>1. b.born = a.born /\ b.context = a.context
    BY <1>4 DEF Advances, Shaping
  <2>2. b.thread.branch = p.branch
    BY <1>2, <1>4 DEF Follows, Shaping
  <2>3. \A r \in Runs : /\ b.thread.runs[r].branch = p.runs[r].branch
                        /\ b.thread.runs[r].state = "ABSENT" <=> p.runs[r].state = "ABSENT"
    BY <1>2, <1>4 DEF Follows, Shaping
  <2> QED
    BY <2>1, <2>2, <2>3 DEF SameShape
<1> QED
  BY <1>2, <1>3, <1>4

\* Along a transaction, from its i-th draft on.
LEMMA StretchShapes ==
    ASSUME Replayed, NEW t \in Threads, NEW d \in Seq(Event), Commit(t, d),
           NEW i \in 0..Len(d), Exists(Projected(t, d, i))
    PROVE  LET first == Projected(t, d, i)
               last  == Projected(t, d, Len(d))
           IN  /\ first.thread.actual \in Closed => last.thread.actual \in Closed
               /\ (\A k \in (i + 1)..Len(d) : d[k].type \notin Shaping) => SameShape(first, last)
               /\ (\A k \in (i + 1)..Len(d) : d[k].type # "thread.state_changed") =>
                        last.thread.actual = first.thread.actual
<1> DEFINE first == Projected(t, d, i)
           at(j) == Projected(t, d, j)
           Holds(j) ==
             /\ first.thread.actual \in Closed => at(j).thread.actual \in Closed
             /\ (\A k \in (i + 1)..j : d[k].type \notin Shaping) => SameShape(first, at(j))
             /\ (\A k \in (i + 1)..j : d[k].type # "thread.state_changed") =>
                        at(j).thread.actual = first.thread.actual
           S == {j \in Nat : i + j <= Len(d) => Holds(i + j)}
<1>0. Len(d) \in Nat /\ i \in Nat /\ \A j \in 1..Len(d) : d[j] \in Event
  OBVIOUS
<1>1. /\ \A j \in 0..Len(d) : AggregateOK(at(j)) /\ (j > 0 => Exists(at(j)))
      /\ \A j \in 1..Len(d) : Advances(at(j - 1), d[j], Len(events[t]) + j, at(j))
  BY ProjectedStep
<1>2. 0 \in S
  <2>1. SameShape(first, first) /\ i + 0 = i
    BY <1>0 DEF SameShape
  <2> HIDE DEF first
  <2> QED
    BY <2>1 DEF first
<1>3. ASSUME NEW l \in Nat, l \in S PROVE l + 1 \in S
  <2>1. SUFFICES ASSUME i + (l + 1) <= Len(d) PROVE Holds(i + (l + 1))
    OBVIOUS
  <2> DEFINE j == i + l
             e == d[j + 1]
             a == at(j)
             b == at(j + 1)
  <2>2. /\ j \in 0..Len(d) /\ j + 1 \in 1..Len(d) /\ (j + 1) - 1 = j /\ i + (l + 1) = j + 1
        /\ j + 1 \in (i + 1)..(j + 1)
        /\ \A k \in (i + 1)..j : k \in (i + 1)..(j + 1)
        /\ i + l <= Len(d)
    BY <1>0, <2>1
  <2>3. Holds(j)
    BY <1>3, <2>2
  <2>4. AggregateOK(a) /\ Exists(a) /\ e \in Event /\ Advances(a, e, Len(events[t]) + (j + 1), b)
    <3>1. j = i \/ j > 0
      BY <1>0
    <3>2. Exists(a)
      BY <1>1, <2>2, <3>1
    <3> QED
      BY <1>0, <1>1, <2>2, <3>2
  <2> HIDE DEF j, e
  <2>5. /\ a.thread.actual \in Closed => b.thread.actual \in Closed
        /\ e.type \notin Shaping => SameShape(a, b)
        /\ e.type # "thread.state_changed" => b.thread.actual = a.thread.actual
    BY <2>4, EventShapes DEF Follows
  <2> HIDE DEF a, b
  <2>6. first.thread.actual \in Closed => b.thread.actual \in Closed
    BY <2>3, <2>5 DEF a
  <2>7. ASSUME \A k \in (i + 1)..(j + 1) : d[k].type \notin Shaping
        PROVE  SameShape(first, b)
    <3>1. e.type \notin Shaping
      BY <2>2, <2>7 DEF e
    <3>2. SameShape(first, a)
      BY <2>2, <2>3, <2>7 DEF a
    <3> QED
      BY <2>5, <3>1, <3>2 DEF SameShape
  <2>8. ASSUME \A k \in (i + 1)..(j + 1) : d[k].type # "thread.state_changed"
        PROVE  b.thread.actual = first.thread.actual
    <3>1. e.type # "thread.state_changed"
      BY <2>2, <2>8 DEF e
    <3>2. a.thread.actual = first.thread.actual
      BY <2>2, <2>3, <2>8 DEF a
    <3> QED
      BY <2>5, <3>1, <3>2
  <2> QED
    BY <2>2, <2>6, <2>7, <2>8 DEF b
<1> HIDE DEF S, Holds
<1>4. Nat \subseteq S
  BY <1>2, <1>3, SetInduction
<1>5. Len(d) - i \in Nat /\ i + (Len(d) - i) = Len(d)
  BY <1>0
<1>6. Holds(Len(d))
  BY <1>0, <1>4, <1>5 DEF S
<1> QED
  BY <1>6 DEF Holds

LEMMA CommitShapes ==
    ASSUME Replayed, NEW t \in Threads, NEW d, NEW M, NEW K,
           Draws(d, stored[t], M, K), Exists(stored[t]), Commit(t, d)
    PROVE  /\ stored[t].thread.actual \in Closed => stored'[t].thread.actual \in Closed
           /\ K \subseteq Sourced => SameShape(stored[t], stored'[t])
<1>1. d \in Seq(Event) /\ Len(d) \in Nat /\ 0 \in 0..Len(d)
  BY DEF Draws
<1>2. Projected(t, d, 0) = stored[t] /\ stored'[t] = Projected(t, d, Len(d))
  BY <1>1, ProjectedStep, CommitReplays DEF Replayed
<1>3. K \subseteq Sourced => \A k \in (0 + 1)..Len(d) : d[k].type \notin Shaping
  <2> SUFFICES ASSUME K \subseteq Sourced, NEW k \in (0 + 1)..Len(d), d[k].type \in Shaping
               PROVE  FALSE
    OBVIOUS
  <2>1. d[k].type \in Sourced
    BY <1>1 DEF Draws, Marked
  <2> QED
    BY <2>1 DEF Sourced, Shaping
<1> QED
  BY <1>1, <1>2, <1>3, StretchShapes

\* A transaction that ends with a move of the Thread leaves it there; one without
\* a move leaves it where it was.
LEMMA CommitMoves ==
    ASSUME Replayed, NEW t \in Threads, NEW d \in Seq(Event), Commit(t, d)
    PROVE  /\ d # << >> /\ d[Len(d)].type = "thread.state_changed" =>
                    stored'[t].thread.actual = d[Len(d)].to
           /\ Exists(stored[t]) /\ (\A k \in 1..Len(d) : d[k].type # "thread.state_changed") =>
                    stored'[t].thread.actual = stored[t].thread.actual
<1>1. /\ Len(d) \in Nat /\ 0 \in 0..Len(d) /\ \A k \in 1..Len(d) : d[k] \in Event
      /\ \A k \in (0 + 1)..Len(d) : k \in 1..Len(d)
  OBVIOUS
<1>2. Projected(t, d, 0) = stored[t] /\ stored'[t] = Projected(t, d, Len(d))
  BY <1>1, ProjectedStep, CommitReplays DEF Replayed
<1>3. ASSUME d # << >>, d[Len(d)].type = "thread.state_changed"
      PROVE  stored'[t].thread.actual = d[Len(d)].to
  <2> DEFINE e == d[Len(d)]
             a == Projected(t, d, Len(d) - 1)
             b == Projected(t, d, Len(d))
  <2>1. Len(d) \in 1..Len(d) /\ Len(d) - 1 \in 0..Len(d)
    BY <1>1, <1>3
  <2>2. AggregateOK(a) /\ Advances(a, e, Len(events[t]) + Len(d), b) /\ e \in Event
    BY <1>1, <2>1, ProjectedStep
  <2>3. Exists(a)
    BY <1>3, <2>2 DEF Advances
  <2>4. Follows(a.thread, e, b.thread)
    BY <2>2, <2>3, EventShapes
  <2> QED
    BY <1>2, <1>3, <2>4 DEF Follows
<1>4. ASSUME Exists(stored[t]), \A k \in 1..Len(d) : d[k].type # "thread.state_changed"
      PROVE  stored'[t].thread.actual = stored[t].thread.actual
  BY <1>1, <1>2, <1>4, StretchShapes
<1> QED
  BY <1>3, <1>4

\* A transaction of a Worker or a command: it appends no message, starts no
\* Thread or Run, opens none that is closed, and keeps the journal true.
Steady ==
    /\ Replayed' /\ EventsTellTheirSource' /\ Grows
    /\ \A t \in Threads :
        /\ stored'[t].updates = stored[t].updates
        /\ Exists(stored'[t]) <=> Exists(stored[t])
        /\ Exists(stored[t]) =>
            /\ SameShape(stored[t], stored'[t])
            /\ stored[t].thread.actual \in Closed => stored'[t].thread.actual \in Closed
    /\ \A t, o \in Threads : stored'[t] # stored[t] /\ stored'[o] # stored[o] => t = o

LEMMA CommitIsSteady ==
    ASSUME Replayed, EventsTellTheirSource, NEW t \in Threads, NEW d, NEW K \in SUBSET Sourced,
           Draws(d, stored[t], {}, K), Exists(stored[t]), Commit(t, d)
    PROVE  Steady
<1>1. /\ Replayed' /\ EventsTellTheirSource' /\ Grows
      /\ stored'[t].updates = stored[t].updates \cup {}
      /\ Exists(stored'[t])
      /\ \A o \in Threads : o # t => stored'[o] = stored[o]
  BY CommitKeeps
<1>2. /\ stored[t].thread.actual \in Closed => stored'[t].thread.actual \in Closed
      /\ SameShape(stored[t], stored'[t])
  BY CommitShapes
<1>3. \A o \in Threads : SameShape(stored[o], stored[o])
  BY DEF SameShape
<1> QED
  BY <1>1, <1>2, <1>3 DEF Steady

LEMMA StillIsSteady ==
    ASSUME Replayed, EventsTellTheirSource, UNCHANGED <<events, stored>>
    PROVE  Steady
<1>1. Replayed' /\ EventsTellTheirSource'
  BY DEF Replayed, EventsTellTheirSource
<1>2. Grows
  BY DEF Replayed, Grows
<1>3. \A t \in Threads : SameShape(stored[t], stored[t])
  BY DEF SameShape
<1> QED
  BY <1>1, <1>2, <1>3 DEF Steady

\* The Thread a Worker's transaction is about.
LEMMA RunOfThread ==
    ASSUME Replayed, NEW t \in Threads, NEW r \in Runs, HasRun(stored[t].thread, r)
    PROVE  /\ Exists(stored[t]) /\ AggregateOK(stored[t])
           /\ stored[t].thread.actual \in ThreadState
           /\ stored[t].thread.attention \in AttentionState
           /\ stored[t].thread.runs[r].state \in RunState
           /\ stored[t].thread.runs[r].checkpoint \in Nat
<1>1. stored[t].thread \in ThreadProjection /\ Exists(stored[t]) /\ AggregateOK(stored[t])
  BY StoredIsOK DEF HasRun, Exists, AggregateOK
<1>2. stored[t].thread.runs[r] \in RunProjection
  BY <1>1, ProjectionFields
<1> QED
  BY <1>1, <1>2, ProjectionFields DEF HasRun, RunProjection

LEMMA StartClaimedRunIsSteady ==
    ASSUME Replayed, EventsTellTheirSource, NEW t \in Threads, NEW r \in Runs,
           StartClaimedRun(t, r)
    PROVE  Steady
<1> DEFINE a == stored[t]
           p == a.thread
           c == IF p.actual = "RUNNING" THEN << >> ELSE <<ThreadMoves(p.actual, "RUNNING")>>
           d == IF p.runs[r].state = "RUNNING" THEN << >>
                ELSE <<RunMoves(r, p.runs[r].state, "RUNNING")>>
<1>1. HasRun(p, r) /\ Commit(t, c \o d)
  BY DEF StartClaimedRun, Work
<1>2. Exists(a) /\ p.actual \in ThreadState /\ p.runs[r].state \in RunState
  BY <1>1, RunOfThread
<1>3. Draws(c, a, {}, {})
  BY <1>2, DrawsNothing, DrawsPlain, PlainMoves DEF ThreadState
<1>4. Draws(d, a, {}, {})
  BY <1>2, DrawsNothing, DrawsPlain, PlainMoves DEF RunState
<1> HIDE DEF a, c, d
<1>5. Draws(c \o d, a, {} \cup {}, {} \cup {})
  BY <1>3, <1>4, DrawsBoth
<1>6. Draws(c \o d, a, {}, {})
  BY <1>5
<1> QED
  BY <1>1, <1>2, <1>6, CommitIsSteady DEF a, Sourced

LEMMA RecordCheckpointIsSteady ==
    ASSUME Replayed, EventsTellTheirSource, NEW t \in Threads, NEW r \in Runs,
           RecordCheckpoint(t, r)
    PROVE  Steady
<1> DEFINE e == [type |-> "run.checkpoint_recorded", run |-> r,
                 sequence |-> stored[t].thread.runs[r].checkpoint + 1]
<1>1. HasRun(stored[t].thread, r) /\ Commit(t, <<e>>)
  BY DEF RecordCheckpoint, Active, Work
<1>2. Exists(stored[t]) /\ stored[t].thread.runs[r].checkpoint \in Nat
  BY <1>1, RunOfThread
<1>3. e \in Event /\ e.type = "run.checkpoint_recorded"
  BY <1>2 DEF Event
<1> HIDE DEF e
<1>4. Draws(<<e>>, stored[t], {}, {})
  BY <1>3, DrawsPlain DEF Plain, Marked, Sourced, Shaping
<1> QED
  BY <1>1, <1>2, <1>4, CommitIsSteady DEF Sourced

LEMMA FinalizeDeliveryIsSteady ==
    ASSUME Replayed, EventsTellTheirSource, NEW t \in Threads, NEW r \in Runs,
           FinalizeDelivery(t, r)
    PROVE  Steady
<1> DEFINE a == stored[t]
           p == a.thread
           e == [type |-> "delivery.recorded"]
           f == RunMoves(r, "RUNNING", "COMPLETED")
           g == ThreadMoves(p.actual, "DELIVERED")
           h == AttentionMoves(p.attention, "DELIVERY_READY")
<1>1. HasRun(p, r) /\ Commit(t, <<e, f, g, h>>)
  BY DEF FinalizeDelivery, Active, Work
<1>2. Exists(a) /\ AggregateOK(a) /\ p.actual \in ThreadState
  BY <1>1, RunOfThread
<1>3. e \in Event /\ e.type = "delivery.recorded" /\ Plain(f) /\ Plain(g)
  BY <1>2, PlainMoves DEF Event, ThreadState, RunState
<1>4. Draws(<<h>>, a, {}, {"thread.attention_changed"}) /\ h \in Event
  BY <1>2, DrawsAttention, ProjectionFields
     DEF AttentionState, AggregateOK, Event, AttentionMoves
<1> HIDE DEF a, e, f, g, h
<1>5. Plain(e)
  BY <1>3 DEF Plain, Marked, Sourced, Shaping
<1>6. Draws(<<e, f, g>>, a, {}, {})
  <2> DEFINE d == <<e, f, g>>
  <2>1. d \in Seq(Event) /\ Len(d) = 3 /\ d[1] = e /\ d[2] = f /\ d[3] = g /\ 1..3 = {1, 2, 3}
    BY <1>3 DEF Plain
  <2> HIDE DEF d
  <2>2. Draws(d, a, {}, {})
    BY <1>3, <1>5, <2>1, DrawsPlainly
  <2> QED
    BY <2>2 DEF d
<1>7. Draws(<<e, f, g>> \o <<h>>, a, {} \cup {}, {} \cup {"thread.attention_changed"})
  BY <1>4, <1>6, DrawsBoth
<1>8. <<e, f, g>> \o <<h>> = <<e, f, g, h>>
  <2> DEFINE c == <<e, f, g>> \o <<h>>
             d == <<e, f, g, h>>
  <2>1. c \in Seq(Event) /\ d \in Seq(Event) /\ Len(c) = 4 /\ Len(d) = 4
    BY <1>3, <1>4 DEF Plain
  <2>2. c[1] = e /\ c[2] = f /\ c[3] = g /\ c[4] = h
    BY <1>3, <1>4 DEF Plain
  <2>3. d[1] = e /\ d[2] = f /\ d[3] = g /\ d[4] = h /\ 1..4 = {1, 2, 3, 4}
    OBVIOUS
  <2> HIDE DEF c, d
  <2>4. \A i \in 1..Len(c) : c[i] = d[i]
    BY <2>1, <2>2, <2>3
  <2>5. c = d
    BY <2>1, <2>4
  <2> QED
    BY <2>5 DEF c, d
<1>9. Draws(<<e, f, g, h>>, a, {}, {"thread.attention_changed"})
  BY <1>7, <1>8
<1> QED
  BY <1>1, <1>2, <1>9, CommitIsSteady DEF a, Sourced
LEMMA FinishExecutionIsSteady ==
    ASSUME Replayed, EventsTellTheirSource, NEW t \in Threads, NEW r \in Runs,
           NEW outcome \in {"COMPLETED", "FAILED", "QUEUED"}, FinishExecution(t, r, outcome)
    PROVE  Steady
<1> DEFINE a == stored[t]
           p == a.thread
           next == CASE outcome = "COMPLETED" -> "DORMANT"
                     [] outcome = "FAILED"    -> "FAILED"
                     [] outcome = "QUEUED"    -> "QUEUED"
           f == RunMoves(r, "RUNNING", outcome)
           g == ThreadMoves(p.actual, next)
           h == IF outcome = "FAILED" /\ p.attention # "FAILED"
                THEN <<AttentionMoves(p.attention, "FAILED")>> ELSE << >>
           K == {"thread.attention_changed"}
<1>1. HasRun(p, r) /\ Commit(t, <<f, g>> \o h)
  BY DEF FinishExecution, Active, Work
<1>2. Exists(a) /\ AggregateOK(a) /\ p.actual \in ThreadState
  BY <1>1, RunOfThread
<1>3. Plain(f) /\ Plain(g)
  <2>1. next \in ThreadState /\ outcome \in RunState /\ "RUNNING" \in RunState
    BY DEF ThreadState, RunState
  <2> HIDE DEF next
  <2> QED
    BY <1>2, <2>1, PlainMoves
<1>4. Draws(h, a, {}, K)
  <2>1. Draws(<<AttentionMoves(p.attention, "FAILED")>>, a, {}, K)
    BY <1>2, DrawsAttention DEF AttentionState
  <2>2. Draws(<< >>, a, {}, K)
    BY DrawsNothing DEF Draws, Marked, Sourced
  <2> QED
    BY <2>1, <2>2
<1> HIDE DEF a, f, g, h, K
<1>5. Draws(<<f, g>>, a, {}, {})
  <2> DEFINE d == <<f, g>>
  <2>1. d \in Seq(Event) /\ Len(d) = 2 /\ d[1] = f /\ d[2] = g /\ 1..2 = {1, 2}
    BY <1>3 DEF Plain
  <2> HIDE DEF d
  <2>2. Draws(d, a, {}, {})
    BY <1>3, <2>1, DrawsPlainly
  <2> QED
    BY <2>2 DEF d
<1>6. Draws(<<f, g>> \o h, a, {} \cup {}, {} \cup K)
  BY <1>4, <1>5, DrawsBoth
<1>7. Draws(<<f, g>> \o h, a, {}, K)
  BY <1>6
<1> QED
  BY <1>1, <1>2, <1>7, CommitIsSteady DEF a, K, Sourced

-----------------------------------------------------------------------------
(* Calls: what they have read stays true of the stream they read it from.   *)

TrueCall(call, streams) ==
    /\ call.op = "verify" =>
            call.thread \in Threads /\ Past(streams[call.thread], call.seen)
    /\ call.op = "append" =>
            /\ call.thread \in Threads
            /\ \E a : /\ Past(streams[call.thread], a) /\ Exists(a)
                      /\ call.expected = a.revision
                      /\ Draws(<<call.draft>>, a, {}, Sourced)

Reads ==
    /\ DOMAIN calls = Callers
    /\ \A c \in Callers : calls[c] # Idle => TrueCall(calls[c], events)

JournalInv == Replayed /\ EventsTellTheirSource /\ Reads

LEMMA PastStays ==
    ASSUME Grows, NEW t \in Threads, NEW a, Past(events[t], a)
    PROVE  Past(events'[t], a)
<1>1. PICK k \in 0..Len(events[t]) : a = Replay(events[t], k)
  BY DEF Past
<1>2. k \in 0..Len(events'[t]) /\ a = Replay(events'[t], k)
  BY <1>1 DEF Grows
<1> QED
  BY <1>2 DEF Past

LEMMA TrueCallStays ==
    ASSUME Grows, NEW call, TrueCall(call, events)
    PROVE  TrueCall(call, events')
<1>1. CASE call.op = "verify"
  BY <1>1, PastStays DEF TrueCall
<1>2. CASE call.op = "append"
  <2>1. PICK a : /\ Past(events[call.thread], a) /\ Exists(a)
                 /\ call.expected = a.revision
                 /\ Draws(<<call.draft>>, a, {}, Sourced)
    BY <1>2 DEF TrueCall
  <2>2. call.thread \in Threads
    BY <1>2 DEF TrueCall
  <2>3. Past(events'[call.thread], a)
    BY <2>1, <2>2, PastStays
  <2> QED
    BY <1>2, <2>1, <2>2, <2>3 DEF TrueCall
<1> QED
  BY <1>1, <1>2 DEF TrueCall

LEMMA ReadsMove ==
    ASSUME Reads, Grows, NEW c \in Callers, NEW call, Become(c, call),
           call # Idle => TrueCall(call, events')
    PROVE  Reads'
<1>1. /\ DOMAIN calls' = Callers /\ calls'[c] = call
      /\ \A d \in Callers : d # c => calls'[d] = calls[d]
  BY DEF Reads, Become
<1>2. ASSUME NEW d \in Callers, calls'[d] # Idle
      PROVE  TrueCall(calls'[d], events')
  <2>1. CASE d = c
    BY <1>1, <1>2, <2>1
  <2>2. CASE d # c
    <3>1. calls'[d] = calls[d] /\ TrueCall(calls[d], events)
      BY <1>1, <1>2, <2>2 DEF Reads
    <3> QED
      BY <3>1, TrueCallStays
  <2> QED
    BY <2>1, <2>2
<1> QED
  BY <1>1, <1>2 DEF Reads

LEMMA ReadsKept ==
    ASSUME Reads, Grows, UNCHANGED calls
    PROVE  Reads'
<1>1. \A d \in Callers : calls'[d] # Idle => TrueCall(calls'[d], events')
  BY TrueCallStays DEF Reads
<1> QED
  BY <1>1 DEF Reads

\* A command drafts what is true of the projection it reads.
LEMMA DraftedIsTrue ==
    ASSUME NEW a, AggregateOK(a), Exists(a), NEW command \in Commands, NEW r \in Runs \cup {NoRun},
           command.type = "run.state_changed" => r \in Runs /\ HasRun(a.thread, r)
    PROVE  Draws(<<Drafted(command, r, a.thread)>>, a, {}, Sourced)
<1> DEFINE p == a.thread
           e == Drafted(command, r, p)
<1>1. p \in ThreadProjection /\ p.actual \in ThreadState /\ p.runs \in [Runs -> RunProjection]
  BY ProjectionFields DEF AggregateOK
<1>2. ASSUME NEW K \in SUBSET Sourced, Draws(<<e>>, a, {}, K) PROVE Draws(<<e>>, a, {}, Sourced)
  BY <1>2 DEF Draws, Marked
<1>3. CASE command.type = "thread.state_changed"
  <2>1. command.to \in ThreadState /\ e = ThreadMoves(p.actual, command.to)
    BY <1>3, JournalAssumption DEF Drafted
  <2> QED
    BY <1>1, <1>2, <2>1, PlainMoves, DrawsPlain DEF Sourced
<1>4. CASE command.type = "thread.desired_state_changed"
  <2>1. command.to \in DesiredState /\ e = DesiredMoves(p.desired, command.to)
    BY <1>4, JournalAssumption DEF Drafted
  <2> QED
    BY <1>1, <1>2, <2>1, DrawsDesired DEF Sourced
<1>5. CASE command.type = "thread.attention_changed"
  <2>1. command.to \in AttentionState /\ e = AttentionMoves(p.attention, command.to)
    BY <1>5, JournalAssumption DEF Drafted
  <2> QED
    BY <1>1, <1>2, <2>1, DrawsAttention DEF Sourced
<1>6. CASE command.type = "run.state_changed"
  <2>1. command.to \in RunState /\ e = RunMoves(r, p.runs[r].state, command.to)
    BY <1>6, JournalAssumption DEF Drafted
  <2>2. r \in Runs /\ p.runs[r].state \in RunState
    BY <1>1, <1>6 DEF HasRun, RunProjection
  <2> QED
    BY <1>2, <2>1, <2>2, PlainMoves, DrawsPlain DEF Sourced
<1> QED
  BY <1>3, <1>4, <1>5, <1>6, JournalAssumption
-----------------------------------------------------------------------------
(* The journal's steps.                                                     *)

LEMMA JournalInitially == JournalInit => JournalInv
<1> SUFFICES ASSUME JournalInit PROVE JournalInv
  OBVIOUS
<1>1. << >> \in Seq(Event) /\ Len(<< >>) = 0 /\ 1..0 = {}
  OBVIOUS
<1>2. Replay(<< >>, Len(<< >>)) = Empty
  BY <1>1, ReplayStep
<1>3. Replayed
  BY <1>1, <1>2, EmptyFields DEF JournalInit, Replayed
<1>4. EventsTellTheirSource
  BY <1>1 DEF JournalInit, EventsTellTheirSource
<1>5. Reads
  BY DEF JournalInit, Reads
<1> QED
  BY <1>3, <1>4, <1>5 DEF JournalInv

\* What a step of the journal leaves in the hands of a caller.
Hands == \A c \in Callers :
    calls'[c] = calls[c] \/ calls'[c] = Idle \/ calls'[c].op \in {"append", "verify"}

LEMMA HandsMove ==
    ASSUME Reads, NEW c \in Callers, NEW call, Become(c, call),
           call # Idle => call.op \in {"append", "verify"}
    PROVE  Hands
  BY DEF Reads, Become, Hands

LEMMA CommandKeeps ==
    ASSUME JournalInv, NEW c \in Callers, NEW t \in Threads, NEW command \in Commands,
           NEW r \in Runs \cup {NoRun}, Command(c, t, command, r)
    PROVE  Steady /\ Reads' /\ Hands
<1> DEFINE a == stored[t]
           call == [op |-> "append", thread |-> t, expected |-> a.revision,
                    draft |-> Drafted(command, r, a.thread)]
<1>1. /\ Become(c, call) /\ Exists(a) /\ UNCHANGED <<events, stored>>
      /\ command.type = "run.state_changed" => r \in Runs /\ HasRun(a.thread, r)
  BY DEF Command
<1>2. Steady /\ Grows /\ Reads
  BY <1>1, StillIsSteady DEF JournalInv, Steady
<1>3. AggregateOK(a) /\ Past(events[t], a)
  BY StoredIsOK, StoredIsPast DEF JournalInv
<1>4. Draws(<<Drafted(command, r, a.thread)>>, a, {}, Sourced)
  BY <1>1, <1>3, DraftedIsTrue
<1>5. /\ call.op = "append" /\ call.thread = t /\ call.expected = a.revision
      /\ call.draft = Drafted(command, r, a.thread)
  OBVIOUS
<1> HIDE DEF call
<1>6. TrueCall(call, events)
  BY <1>1, <1>3, <1>4, <1>5 DEF TrueCall
<1>7. Reads' /\ Hands
  BY <1>1, <1>2, <1>5, <1>6, ReadsMove, HandsMove
<1> QED
  BY <1>2, <1>7

LEMMA AppendEventsKeeps ==
    ASSUME JournalInv, NEW c \in Callers, AppendEvents(c)
    PROVE  Steady /\ Reads' /\ Hands
<1> DEFINE t == calls[c].thread
           d == <<calls[c].draft>>
<1>1. /\ TrueCall(calls[c], events) /\ calls[c].op = "append"
      /\ stored[t].revision = calls[c].expected /\ Commit(t, d) /\ Become(c, Idle)
  BY DEF AppendEvents, Current, JournalInv, Reads
<1>2. PICK a : /\ Past(events[t], a) /\ Exists(a) /\ calls[c].expected = a.revision
               /\ Draws(d, a, {}, Sourced)
  BY <1>1 DEF TrueCall
<1>3. t \in Threads
  BY <1>1 DEF TrueCall
<1> HIDE DEF t, d
<1>4. a = stored[t]
  BY <1>1, <1>2, <1>3, PastAtRevision DEF JournalInv
<1>5. Steady
  BY <1>1, <1>2, <1>3, <1>4, CommitIsSteady DEF JournalInv
<1> QED
  BY <1>1, <1>5, ReadsMove, HandsMove DEF JournalInv, Steady

LEMMA VerifyKeeps ==
    ASSUME JournalInv, NEW c \in Callers, NEW t \in Threads, Verify(c, t)
    PROVE  Steady /\ Reads' /\ Hands
<1> DEFINE call == [op |-> "verify", thread |-> t, seen |-> stored[t]]
<1>1. Become(c, call) /\ UNCHANGED <<events, stored>>
  BY DEF Verify
<1>2. Steady /\ Grows /\ Reads
  BY <1>1, StillIsSteady DEF JournalInv, Steady
<1>3. Past(events[t], stored[t])
  BY StoredIsPast DEF JournalInv
<1>4. call.op = "verify" /\ call.thread = t /\ call.seen = stored[t]
  OBVIOUS
<1> HIDE DEF call
<1>5. TrueCall(call, events)
  BY <1>3, <1>4 DEF TrueCall
<1>6. Reads' /\ Hands
  BY <1>1, <1>2, <1>4, <1>5, ReadsMove, HandsMove
<1> QED
  BY <1>2, <1>6

\* Whatever the journal does it stays true, and changes no Thread's messages.
LEMMA JournalStep ==
    ASSUME JournalInv, JournalNext
    PROVE  JournalInv' /\ Steady /\ Hands
<1>1. ASSUME NEW c \in Callers, ReplayVerified(c) \/ Fail(c)
      PROVE  Steady /\ Reads' /\ Hands
  <2>1. Become(c, Idle) /\ UNCHANGED <<events, stored>>
    BY <1>1 DEF ReplayVerified, Fail
  <2>2. Steady /\ Grows /\ Reads
    BY <2>1, StillIsSteady DEF JournalInv, Steady
  <2> QED
    BY <2>1, <2>2, ReadsMove, HandsMove
<1>2. ASSUME NEW t \in Threads, NEW r \in Runs,
             \/ StartClaimedRun(t, r) \/ RecordCheckpoint(t, r) \/ FinalizeDelivery(t, r)
             \/ \E outcome \in {"COMPLETED", "FAILED", "QUEUED"} : FinishExecution(t, r, outcome)
      PROVE  Steady /\ Reads' /\ Hands
  <2>1. Steady
    BY <1>2, StartClaimedRunIsSteady, RecordCheckpointIsSteady, FinalizeDeliveryIsSteady,
       FinishExecutionIsSteady DEF JournalInv
  <2>2. UNCHANGED calls
    BY <1>2 DEF StartClaimedRun, RecordCheckpoint, FinalizeDelivery, FinishExecution, Work
  <2> QED
    BY <2>1, <2>2, ReadsKept DEF JournalInv, Steady, Hands
<1>3. Steady /\ Reads' /\ Hands
  BY <1>1, <1>2, CommandKeeps, AppendEventsKeeps, VerifyKeeps DEF JournalNext
<1> QED
  BY <1>3 DEF Steady, JournalInv

\* A replay check is wrong about a Thread only if the Thread has moved on.
LEMMA ReplaysAgree == JournalInv => ProjectionsReplay
<1> SUFFICES ASSUME JournalInv PROVE ProjectionsReplay
  OBVIOUS
<1>1. \A t \in Threads : stored[t] = Replay(events[t], Len(events[t]))
  BY DEF JournalInv, Replayed
<1>2. ASSUME NEW c \in Callers, calls[c] # Idle, calls[c].op = "verify"
      PROVE  Verdict(c) <=> calls[c].seen.revision = Len(events[calls[c].thread])
  <2>1. calls[c].thread \in Threads /\ Past(events[calls[c].thread], calls[c].seen)
    BY <1>2 DEF JournalInv, Reads, TrueCall
  <2>2. calls[c].seen.revision = Len(events[calls[c].thread])
            <=> calls[c].seen = stored[calls[c].thread]
    BY <2>1, PastAtRevision DEF JournalInv
  <2> QED
    BY <1>1, <2>1, <2>2 DEF Verdict
<1> QED
  BY <1>1, <1>2 DEF ProjectionsReplay
\* A transaction that creates a Run and binds what it is told, and then leaves
\* branches and Runs alone, makes that Run the newest of the Thread's branch.
LEMMA CommitCreatesRun ==
    ASSUME Replayed, NEW t \in Threads, NEW d \in Seq(Event), Commit(t, d),
           NEW i \in Nat, i + 2 <= Len(d), NEW r \in Runs,
           d[i + 1].type = "run.created", d[i + 1].run = r,
           d[i + 2].type = "run.snapshots_bound", d[i + 2].run = r,
           \A k \in (i + 3)..Len(d) : d[k].type \notin Shaping
    PROVE  LET a == stored'[t]
           IN  /\ Exists(a) /\ HasRun(a.thread, r)
               /\ a.thread.runs[r].branch = a.thread.branch
               /\ \A q \in Runs \ {r} : a.born[q] < a.born[r]
               /\ a.born \in [Runs -> Nat]
               /\ a.context[r] = d[i + 2].context
<1> DEFINE n == Len(events[t])
           e == d[i + 1]
           f == d[i + 2]
           a0 == Projected(t, d, i)
           a1 == Projected(t, d, i + 1)
           a2 == Projected(t, d, i + 2)
           a3 == Projected(t, d, Len(d))
<1>1. /\ Len(d) \in Nat /\ \A k \in 1..Len(d) : d[k] \in Event
      /\ i \in 0..Len(d) /\ i + 1 \in 0..Len(d) /\ i + 2 \in 0..Len(d) /\ Len(d) \in 0..Len(d)
      /\ i + 1 \in 1..Len(d) /\ i + 2 \in 1..Len(d) /\ Len(d) > 0
      /\ (i + 1) - 1 = i /\ (i + 2) - 1 = i + 1 /\ (i + 2) + 1 = i + 3
  OBVIOUS
<1>2. n \in Nat /\ stored'[t] = a3 /\ stored[t].revision = n /\ Projected(t, d, 0) = stored[t]
  BY <1>1, CommitReplays, StoredIsOK, ProjectedStep DEF Replayed
<1>3. /\ AggregateOK(a0) /\ AggregateOK(a1) /\ AggregateOK(a2) /\ AggregateOK(a3)
      /\ Exists(a1) /\ Exists(a2) /\ Exists(a3)
      /\ Advances(a0, e, n + (i + 1), a1) /\ Advances(a1, f, n + (i + 2), a2)
  <2>1. /\ \A j \in 0..Len(d) : /\ AggregateOK(Projected(t, d, j))
                                /\ j > 0 => Exists(Projected(t, d, j))
        /\ \A j \in 1..Len(d) :
                Advances(Projected(t, d, j - 1), d[j], Len(events[t]) + j, Projected(t, d, j))
    BY ProjectedStep
  <2>2. i + 1 > 0 /\ i + 2 > 0
    OBVIOUS
  <2> QED
    BY <1>1, <2>1, <2>2
<1>4. e \in Event /\ f \in Event /\ e.type = "run.created" /\ f.type = "run.snapshots_bound"
  BY <1>1
<1>5. a0.revision = n + i
  <2>1. CASE i = 0
    BY <1>2, <2>1
  <2>2. CASE i # 0
    <3>1. i \in 1..Len(d)
      BY <1>1, <2>2
    <3> QED
      BY <3>1, ProjectedStep DEF Advances
  <2> QED
    BY <2>1, <2>2
<1>6. SameShape(a2, a3)
  BY <1>1, <1>3, StretchShapes
<1>7. e.run = r /\ f.run = r
  OBVIOUS
<1> HIDE DEF a0, a1, a2, a3, e, f
<1>8. Exists(a0)
  BY <1>3, <1>4 DEF Advances
<1>9. Follows(a0.thread, e, a1.thread) /\ Follows(a1.thread, f, a2.thread)
  BY <1>3, <1>4, <1>8, EventShapes
<1>10. /\ a1.thread.branch = e.branch /\ a1.thread.runs[r].branch = e.branch
       /\ a1.thread.runs[r].state # "ABSENT"
  BY <1>4, <1>7, <1>9 DEF Follows
<1>11. /\ a2.thread.branch = e.branch /\ a2.thread.runs[r].branch = e.branch
       /\ a2.thread.runs[r].state # "ABSENT"
  BY <1>4, <1>9, <1>10 DEF Follows
<1>12. /\ a2.born = a1.born /\ a1.born = [a0.born EXCEPT ![r] = n + (i + 1)]
       /\ a2.context = [a1.context EXCEPT ![r] = f.context]
  BY <1>3, <1>4, <1>7 DEF Advances
<1>13. /\ a0.born \in [Runs -> Nat] /\ \A q \in Runs : a0.born[q] <= n + i
       /\ a1.context \in [Runs -> Seq(Messages)] /\ a3.born \in [Runs -> Nat]
  BY <1>3, <1>5 DEF AggregateOK
<1>14. \A q \in Runs \ {r} : a2.born[q] < a2.born[r]
  <2> HIDE DEF n
  <2>1. a2.born = [a0.born EXCEPT ![r] = n + (i + 1)]
    BY <1>12
  <2>2. a2.born[r] = n + (i + 1)
    BY <1>13, <2>1
  <2>3. ASSUME NEW q \in Runs \ {r} PROVE a2.born[q] = a0.born[q]
    BY <1>13, <2>1, <2>3
  <2>4. ASSUME NEW q \in Runs \ {r} PROVE a2.born[q] < a2.born[r]
    <3>1. a0.born[q] \in Nat /\ a0.born[q] <= n + i /\ n \in Nat
      BY <1>2, <1>13
    <3>2. a0.born[q] < n + (i + 1)
      BY <3>1
    <3> QED
      BY <2>2, <2>3, <3>2
  <2> QED
    BY <2>4
<1>15. a2.context[r] = f.context
  BY <1>12, <1>13
<1>16. /\ a3.born = a2.born /\ a3.context = a2.context
       /\ a3.thread.branch = a2.thread.branch
       /\ a3.thread.runs[r].branch = a2.thread.runs[r].branch
       /\ a3.thread.runs[r].state # "ABSENT"
  BY <1>6, <1>11 DEF SameShape
<1>17. /\ Exists(a3) /\ HasRun(a3.thread, r)
       /\ a3.thread.runs[r].branch = a3.thread.branch
       /\ \A q \in Runs \ {r} : a3.born[q] < a3.born[r]
       /\ a3.born \in [Runs -> Nat]
       /\ a3.context[r] = f.context
  BY <1>3, <1>11, <1>13, <1>14, <1>15, <1>16 DEF HasRun, Exists
<1> QED
  BY <1>2, <1>17 DEF f
=============================================================================
