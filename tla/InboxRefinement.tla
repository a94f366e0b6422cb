-------------------------- MODULE InboxRefinement --------------------------
(***************************************************************************)
(* Inbox and journal keep what DurableInbox promises: whatever Workers,     *)
(* commands and other calls do in between, the newest Run of a Thread was   *)
(* told every message that changed the Thread, each once, in the order in   *)
(* which they did, and a closed Thread takes no more.                       *)
(***************************************************************************)
EXTENDS InboxProofs

-----------------------------------------------------------------------------
(* What the newest Run was told.                                            *)

\* Projections of one shape have the same newest Run, told the same.
LEMMA ShapeTells ==
    ASSUME NEW a, NEW b, SameShape(a, b), Exists(a), Exists(b)
    PROVE  ToldOf(b) = ToldOf(a)
<1>1. RunsOf(b.thread) = RunsOf(a.thread)
  BY DEF SameShape, Exists, RunsOf, HasRun
<1>2. \A r \in Runs : b.thread.runs[r].branch = b.thread.branch
                        <=> a.thread.runs[r].branch = a.thread.branch
  BY DEF SameShape
<1>3. \A S : Newest(b, S) = Newest(a, S)
  BY DEF SameShape, Newest
<1>4. Basis(b) = Basis(a)
  <2> DEFINE S(x) == {r \in RunsOf(x.thread) : x.thread.runs[r].branch = x.thread.branch}
  <2>1. S(b) = S(a)
    BY <1>1, <1>2 DEF RunsOf
  <2> QED
    BY <1>1, <1>3, <2>1 DEF Basis
<1>5. b.context = a.context
  BY DEF SameShape
<1> QED
  BY <1>4, <1>5 DEF ToldOf, Context

\* A Run created after all others on the branch of its Thread is the one the
\* next update will take over from.
LEMMA NewestTells ==
    ASSUME NEW a, NEW r \in Runs, Exists(a), HasRun(a.thread, r),
           a.thread.runs[r].branch = a.thread.branch,
           \A q \in Runs \ {r} : a.born[q] < a.born[r], a.born \in [Runs -> Nat]
    PROVE  ToldOf(a) = a.context[r]
<1> DEFINE S == {q \in RunsOf(a.thread) : a.thread.runs[q].branch = a.thread.branch}
<1>1. r \in S /\ S \subseteq Runs
  BY DEF RunsOf
<1> HIDE DEF S
<1>2. \A q \in Runs : a.born[q] \in Nat
  OBVIOUS
<1>3. r \in Newest(a, S)
  <2>1. \A q \in S : a.born[q] <= a.born[r]
    BY <1>1, <1>2
  <2> QED
    BY <1>1, <2>1 DEF Newest
<1>4. \A q \in Newest(a, S) : q = r
  <2> SUFFICES ASSUME NEW q \in Newest(a, S), q # r
               PROVE  FALSE
    OBVIOUS
  <2>1. q \in Runs \ {r} /\ a.born[r] <= a.born[q]
    BY <1>1 DEF Newest
  <2>2. a.born[q] < a.born[r] /\ a.born[q] \in Nat /\ a.born[r] \in Nat
    BY <1>2, <2>1
  <2> QED
    BY <2>1, <2>2
<1>5. Basis(a) = {r}
  <2>1. Newest(a, S) = {r}
    BY <1>3, <1>4
  <2> QED
    BY <2>1 DEF Basis, S
<1>6. (CHOOSE q \in {r} : TRUE) = r
  OBVIOUS
<1> QED
  BY <1>5, <1>6 DEF ToldOf, Context

\* A Task's Run was told its message.
LEMMA TaskTells ==
    ASSUME Replayed, NEW m \in Threads, Commit(m, TaskEvents(m))
    PROVE  /\ ToldOf(stored'[m]) = <<m>>
           /\ stored'[m].thread.actual = "QUEUED"
<1> DEFINE r == <<m, "task">>
           e1 == [type |-> "thread.created"]
           e2 == [type |-> "run.created", run |-> r, branch |-> MainBranch]
           e3 == [type |-> "run.snapshots_bound", run |-> r, context |-> <<m>>]
           e4 == RunMoves(r, "CREATED", "QUEUED")
           e5 == ThreadMoves("CREATED", "QUEUED")
           d == <<e1, e2, e3, e4, e5>>
<1>1. r \in Runs /\ m \in Messages
  BY InboxAssumption
<1>2. TaskEvents(m) \in Seq(Event)
  BY <1>1, TaskDraws DEF Draws
<1>3. TaskEvents(m) = d
  BY DEF TaskEvents
<1>4. /\ e2.type = "run.created" /\ e2.run = r
      /\ e3.type = "run.snapshots_bound" /\ e3.run = r /\ e3.context = <<m>>
      /\ e4.type \notin Shaping /\ e5.type \notin Shaping
      /\ e5.type = "thread.state_changed" /\ e5.to = "QUEUED"
  BY DEF RunMoves, ThreadMoves, Shaping
<1> HIDE DEF e1, e2, e3, e4, e5, r
<1>5. Len(d) = 5 /\ d[2] = e2 /\ d[3] = e3 /\ d[4] = e4 /\ d[5] = e5 /\ 4..5 = {4, 5}
  OBVIOUS
<1> HIDE DEF d
<1>6. d \in Seq(Event) /\ Commit(m, d)
  <2>1. Commit(m, d)
    BY DEF TaskEvents, d, e1, e2, e3, e4, e5, r
  <2> QED
    BY <1>2, <1>3, <2>1
<1>7. d # << >> /\ stored'[m].thread.actual = d[Len(d)].to
  <2>1. d # << >> /\ d[Len(d)].type = "thread.state_changed"
    BY <1>4, <1>5
  <2> QED
    BY <1>6, <2>1, CommitMoves
<1>8. \A k \in (1 + 3)..Len(d) : d[k].type \notin Shaping
  BY <1>4, <1>5
<1>9. /\ 1 \in Nat /\ 1 + 2 <= Len(d) /\ d[1 + 1] = e2 /\ d[1 + 2] = e3
  BY <1>5
<1>10. LET a == stored'[m]
       IN  /\ Exists(a) /\ HasRun(a.thread, r)
           /\ a.thread.runs[r].branch = a.thread.branch
           /\ \A q \in Runs \ {r} : a.born[q] < a.born[r]
           /\ a.born \in [Runs -> Nat]
           /\ a.context[r] = d[1 + 2].context
  BY <1>1, <1>4, <1>6, <1>8, <1>9, CommitCreatesRun
<1>11. ToldOf(stored'[m]) = <<m>>
  BY <1>1, <1>4, <1>9, <1>10, NewestTells
<1> QED
  BY <1>4, <1>5, <1>7, <1>11
-----------------------------------------------------------------------------
(* What an update tells.                                                    *)

LEMMA BothDrafts ==
    ASSUME NEW c \in Seq(Event), NEW d \in Seq(Event)
    PROVE  /\ c \o d \in Seq(Event) /\ Len(c \o d) = Len(c) + Len(d)
           /\ Len(c) \in Nat /\ Len(d) \in Nat
           /\ \A k \in 1..Len(c) : (c \o d)[k] = c[k]
           /\ \A k \in 1..Len(d) : (c \o d)[Len(c) + k] = d[k]
  OBVIOUS

LEMMA LastDraft ==
    ASSUME NEW u \in Seq(Event), NEW e \in Event
    PROVE  LET w == u \o <<e>>
           IN  w \in Seq(Event) /\ w # << >> /\ w[Len(w)] = e
<1> DEFINE w == u \o <<e>>
<1>1. w \in Seq(Event) /\ Len(w) = Len(u) + 1 /\ Len(u) \in Nat /\ w[Len(u) + 1] = e
  OBVIOUS
<1> HIDE DEF w
<1>2. w # << >>
  BY <1>1
<1> QED
  BY <1>1, <1>2 DEF w

\* A cancellation ends with the Thread cancelled and tells nobody anything.
LEMMA CancellationTells ==
    ASSUME Replayed, EventsTellTheirSource, NEW t \in Threads, Exists(stored[t]),
           NEW m \in Messages, NEW pending,
           Commit(t, CancellationEvents(m, stored[t].thread, pending))
    PROVE  /\ ToldOf(stored'[t]) = ToldOf(stored[t])
           /\ stored'[t].thread.actual = "CANCELLED"
<1> DEFINE a == stored[t]
           p == a.thread
           d == CancellationEvents(m, p, pending)
           b == <<[type |-> "thread.message_appended", message |-> m]>>
           c == IF p.desired = "CANCEL" THEN << >> ELSE <<DesiredMoves(p.desired, "CANCEL")>>
           e == CancelEvents(p, RunsOf(p), pending)
           move == ThreadMoves(p.actual, "CANCELLED")
<1>1. AggregateOK(a)
  BY StoredIsOK
<1>2. Draws(d, a, {m}, Sourced) /\ p.actual \in ThreadState
  BY <1>1, CancellationDraws
<1>3. SameShape(a, stored'[t])
  BY <1>2, CommitShapes
<1>4. Exists(stored'[t])
  BY <1>2, CommitKeeps
<1>5. ToldOf(stored'[t]) = ToldOf(a)
  BY <1>3, <1>4, ShapeTells
<1>6. /\ b \in Seq(Event) /\ c \in Seq(Event) /\ e \in Seq(Event) /\ move \in Event
      /\ move.type = "thread.state_changed" /\ move.to = "CANCELLED"
  <2>1. b \in Seq(Event)
    BY DrawsMessage DEF Draws
  <2>2. c \in Seq(Event)
    <3>1. Draws(<<DesiredMoves(p.desired, "CANCEL")>>, a, {}, {"thread.desired_state_changed"})
      BY <1>1, DrawsDesired DEF DesiredState
    <3>2. << >> \in Seq(Event) /\ <<DesiredMoves(p.desired, "CANCEL")>> \in Seq(Event)
      BY <3>1 DEF Draws
    <3> QED
      BY <3>2
  <2>3. e \in Seq(Event)
    BY <1>1, CancelDraws DEF RunsOf, Draws
  <2>4. Plain(move)
    BY <1>2, PlainMoves DEF ThreadState
  <2>5. move \in Event /\ move.type = "thread.state_changed" /\ move.to = "CANCELLED"
    BY <2>4 DEF Plain, ThreadMoves
  <2> QED
    BY <2>1, <2>2, <2>3, <2>5
<1>7. d = (b \o c \o e) \o <<move>>
  BY DEF CancellationEvents
<1>8. d \in Seq(Event) /\ d # << >> /\ d[Len(d)] = move
  <2> HIDE DEF b, c, d, e, move
  <2>1. b \o c \o e \in Seq(Event)
    BY <1>6
  <2> QED
    BY <1>6, <1>7, <2>1, LastDraft
<1> HIDE DEF d, move
<1>9. Commit(t, d)
  BY DEF d
<1>10. d # << >> /\ d[Len(d)].type = "thread.state_changed" /\ d[Len(d)].to = "CANCELLED"
  BY <1>6, <1>8
<1>11. stored'[t].thread.actual = d[Len(d)].to
  BY <1>8, <1>9, <1>10, CommitMoves
<1> QED
  BY <1>5, <1>10, <1>11

\* Where in an update its Run is created and told what the Run before was told
\* and the message; and how the update leaves the Thread.
LEMMA RevisionEnds ==
    ASSUME NEW a, AggregateOK(a), Exists(a), NEW seen, AggregateOK(seen), Exists(seen),
           NEW m \in Messages, NEW kind, NEW pending
    PROVE  LET w == RevisionEvents(m, kind, seen, a.thread, pending)
               r == <<m, "update">>
           IN  /\ \E i \in Nat :
                    /\ i + 2 <= Len(w)
                    /\ w[i + 1].type = "run.created" /\ w[i + 1].run = r
                    /\ w[i + 2].type = "run.snapshots_bound" /\ w[i + 2].run = r
                    /\ w[i + 2].context = Append(Context(seen, Basis(seen)), m)
                    /\ \A k \in (i + 3)..Len(w) : w[k].type \notin Shaping
               /\ \/ /\ w # << >> /\ w[Len(w)].type = "thread.state_changed"
                     /\ w[Len(w)].to = "QUEUED"
                  \/ a.thread.actual = "QUEUED" /\ Moveless(w)
<1> DEFINE p == a.thread
           old == seen.thread
           branch == IF kind = "METHOD_CHANGE" THEN m ELSE old.branch
           r == <<m, "update">>
           context == Append(Context(seen, Basis(seen)), m)
           S == {q \in Runs : OpenRun(old, q) /\ old.runs[q].branch = old.branch}
           f1 == [type |-> "thread.branch_forked", branch |-> branch, from |-> old.branch]
           f2 == [type |-> "thread.branch_selected", branch |-> branch]
           g1 == [type |-> "run.created", run |-> r, branch |-> branch]
           g2 == [type |-> "run.snapshots_bound", run |-> r, context |-> context]
           g3 == RunMoves(r, "CREATED", "QUEUED")
           move == ThreadMoves(p.actual, "QUEUED")
           b == <<[type |-> "thread.message_appended", message |-> m]>>
           c == CancelEvents(p, S, pending)
           d == IF kind = "METHOD_CHANGE" THEN <<f1, f2>> ELSE << >>
           e == <<g1, g2, g3>>
           h == IF p.actual = "QUEUED" THEN << >> ELSE <<move>>
           u == b \o c \o d
           w == u \o e \o h
<1>1. p.actual \in ThreadState /\ branch \in Branches /\ r \in Runs
  BY ProjectionFields, InboxAssumption DEF AggregateOK
<1>2. f1 \in Event /\ f2 \in Event /\ g1 \in Event /\ g2 \in Event
  <2> HIDE DEF branch
  <2> QED
    BY <1>1, RevisionDrafts
<1>3. Plain(g3) /\ Plain(move)
  BY <1>1, PlainMoves DEF RunState, ThreadState
<1>4. /\ f1.type = "thread.branch_forked" /\ f2.type = "thread.branch_selected"
      /\ g1.type = "run.created" /\ g1.run = r
      /\ g2.type = "run.snapshots_bound" /\ g2.run = r /\ g2.context = context
      /\ g3.type = "run.state_changed"
      /\ move.type = "thread.state_changed" /\ move.to = "QUEUED"
  BY DEF RunMoves, ThreadMoves
<1>5. b \in Seq(Event) /\ Moveless(b)
  <2>1. b \in Seq(Event)
    BY DrawsMessage DEF Draws
  <2>2. Len(b) = 1 /\ b[1].type = "thread.message_appended"
    OBVIOUS
  <2> QED
    BY <2>1, <2>2 DEF Moveless
<1>6. c \in Seq(Event) /\ Moveless(c)
  BY CancelDraws DEF Draws
<1>7. RevisionEvents(m, kind, seen, p, pending) = w
  BY DEF RevisionEvents
<1> HIDE DEF f1, f2, g1, g2, g3, move, b, c, r, context
<1>8. d \in Seq(Event) /\ Moveless(d)
  <2>1. /\ <<f1, f2>> \in Seq(Event) /\ Len(<<f1, f2>>) = 2
        /\ <<f1, f2>>[1] = f1 /\ <<f1, f2>>[2] = f2 /\ 1..2 = {1, 2}
    BY <1>2
  <2>2. Moveless(<<f1, f2>>)
    BY <1>4, <2>1 DEF Moveless
  <2>3. << >> \in Seq(Event) /\ Moveless(<< >>)
    BY DEF Moveless
  <2> QED
    BY <2>1, <2>2, <2>3
<1>9. /\ e \in Seq(Event) /\ Len(e) = 3 /\ e[1] = g1 /\ e[2] = g2 /\ e[3] = g3
      /\ 1..3 = {1, 2, 3} /\ Moveless(e)
  <2>1. /\ e \in Seq(Event) /\ Len(e) = 3 /\ e[1] = g1 /\ e[2] = g2 /\ e[3] = g3
        /\ 1..3 = {1, 2, 3}
    BY <1>2, <1>3 DEF Plain
  <2> HIDE DEF e
  <2> QED
    BY <1>4, <2>1 DEF Moveless
<1>10. \/ p.actual = "QUEUED" /\ h = << >>
       \/ h = <<move>>
  OBVIOUS
<1>11. h \in Seq(Event) /\ \A k \in 1..Len(h) : h[k].type = "thread.state_changed"
  <2>1. <<move>> \in Seq(Event) /\ Len(<<move>>) = 1 /\ <<move>>[1] = move
    BY <1>3 DEF Plain
  <2>2. << >> \in Seq(Event) /\ Len(<< >>) = 0
    OBVIOUS
  <2> HIDE DEF h
  <2>3. CASE h = << >>
    BY <2>2, <2>3
  <2>4. CASE h = <<move>>
    BY <1>4, <2>1, <2>4
  <2> QED
    BY <1>10, <2>3, <2>4
<1> HIDE DEF d, e, h
<1>12. u \in Seq(Event) /\ Moveless(u)
  <2>1. b \o c \in Seq(Event) /\ Moveless(b \o c)
    BY <1>5, <1>6, BothDrafts, MovelessBoth
  <2>2. (b \o c) \o d \in Seq(Event) /\ Moveless((b \o c) \o d)
    BY <1>8, <2>1, BothDrafts, MovelessBoth
  <2> QED
    BY <2>2
<1> HIDE DEF u
<1>13. u \o e \in Seq(Event) /\ Moveless(u \o e)
  BY <1>9, <1>12, BothDrafts, MovelessBoth
<1> DEFINE i == Len(u)
<1>14. /\ w \in Seq(Event) /\ i \in Nat /\ Len(h) \in Nat /\ Len(w) = i + 3 + Len(h)
       /\ w[i + 1] = g1 /\ w[i + 2] = g2 /\ w[i + 3] = g3
       /\ \A k \in 1..Len(h) : w[i + 3 + k] = h[k]
  <2>1. /\ i \in Nat /\ Len(h) \in Nat /\ u \o e \in Seq(Event) /\ Len(u \o e) = i + 3
        /\ (u \o e)[i + 1] = g1 /\ (u \o e)[i + 2] = g2 /\ (u \o e)[i + 3] = g3
    <3>1. u \o e \in Seq(Event) /\ Len(u \o e) = i + 3 /\ i \in Nat
      <4>1. Len(u \o e) = Len(u) + Len(e) /\ Len(u) \in Nat
        BY <1>9, <1>12, BothDrafts
      <4> QED
        BY <1>9, <1>13, <4>1
    <3>2. \A k \in {1, 2, 3} : (u \o e)[i + k] = e[k]
      BY <1>9, <1>12, BothDrafts
    <3> QED
      BY <1>9, <1>11, <3>1, <3>2
  <2>2. /\ w \in Seq(Event) /\ Len(w) = Len(u \o e) + Len(h)
        /\ \A k \in 1..Len(u \o e) : w[k] = (u \o e)[k]
        /\ \A k \in 1..Len(h) : w[Len(u \o e) + k] = h[k]
    BY <1>11, <2>1, BothDrafts
  <2> QED
    BY <2>1, <2>2
<1>15. \A k \in (i + 3)..Len(w) : w[k].type \notin Shaping
  <2> HIDE DEF w, i
  <2> SUFFICES ASSUME NEW k \in (i + 3)..Len(w) PROVE w[k].type \notin Shaping
    OBVIOUS
  <2>1. CASE k = i + 3
    BY <1>4, <1>14, <2>1 DEF Shaping
  <2>2. CASE k # i + 3
    <3>1. k - (i + 3) \in 1..Len(h) /\ (i + 3) + (k - (i + 3)) = k
      BY <1>14, <2>2
    <3>2. w[k].type = "thread.state_changed"
      BY <1>11, <1>14, <3>1
    <3> QED
      BY <3>2 DEF Shaping
  <2> QED
    BY <2>1, <2>2
<1>16. \/ w # << >> /\ w[Len(w)].type = "thread.state_changed" /\ w[Len(w)].to = "QUEUED"
       \/ p.actual = "QUEUED" /\ Moveless(w)
  <2>1. CASE h = <<move>>
    <3>1. w # << >> /\ w[Len(w)] = move
      BY <1>3, <1>13, <2>1, LastDraft DEF Plain
    <3> QED
      BY <1>4, <3>1
  <2>2. CASE p.actual = "QUEUED" /\ h = << >>
    <3>1. << >> \in Seq(Event) /\ Moveless(<< >>)
      BY DEF Moveless
    <3>2. Moveless((u \o e) \o << >>)
      BY <1>13, <3>1, MovelessBoth
    <3> QED
      BY <2>2, <3>2
  <2> QED
    BY <1>10, <2>1, <2>2
<1> HIDE DEF w
<1>17. /\ i \in Nat /\ i + 2 <= Len(w)
       /\ w[i + 1].type = "run.created" /\ w[i + 1].run = r
       /\ w[i + 2].type = "run.snapshots_bound" /\ w[i + 2].run = r
       /\ w[i + 2].context = context
  BY <1>4, <1>14
<1> QED
  BY <1>7, <1>15, <1>16, <1>17 DEF r, context
\* An update's Run is told what the Run before was told, and the message.
LEMMA RevisionTells ==
    ASSUME Replayed, EventsTellTheirSource, NEW t \in Threads, Exists(stored[t]),
           stored[t].thread.actual \notin Closed,
           NEW m \in Messages, NEW kind, NEW pending,
           Commit(t, RevisionEvents(m, kind, stored[t], stored[t].thread, pending))
    PROVE  /\ ToldOf(stored'[t]) = Append(ToldOf(stored[t]), m)
           /\ stored'[t].thread.actual \notin Closed
<1> DEFINE a == stored[t]
           r == <<m, "update">>
           w == RevisionEvents(m, kind, a, a.thread, pending)
<1>1. AggregateOK(a) /\ r \in Runs
  BY StoredIsOK, InboxAssumption
<1>2. w \in Seq(Event)
  BY <1>1, RevisionDraws DEF Draws
<1>3. PICK i \in Nat :
        /\ i + 2 <= Len(w)
        /\ w[i + 1].type = "run.created" /\ w[i + 1].run = r
        /\ w[i + 2].type = "run.snapshots_bound" /\ w[i + 2].run = r
        /\ w[i + 2].context = Append(Context(a, Basis(a)), m)
        /\ \A k \in (i + 3)..Len(w) : w[k].type \notin Shaping
  BY <1>1, RevisionEnds
<1>4. \/ w # << >> /\ w[Len(w)].type = "thread.state_changed" /\ w[Len(w)].to = "QUEUED"
      \/ a.thread.actual = "QUEUED" /\ Moveless(w)
  BY <1>1, RevisionEnds
<1> HIDE DEF w, r
<1>5. Commit(t, w)
  BY DEF w
<1>6. LET b == stored'[t]
      IN  /\ Exists(b) /\ HasRun(b.thread, r)
          /\ b.thread.runs[r].branch = b.thread.branch
          /\ \A q \in Runs \ {r} : b.born[q] < b.born[r]
          /\ b.born \in [Runs -> Nat]
          /\ b.context[r] = w[i + 2].context
  BY <1>1, <1>2, <1>3, <1>5, CommitCreatesRun
<1>7. ToldOf(stored'[t]) = Append(Context(a, Basis(a)), m)
  BY <1>1, <1>3, <1>6, NewestTells
<1>8. stored'[t].thread.actual = "QUEUED"
  BY <1>2, <1>4, <1>5, CommitMoves DEF Moveless
<1> QED
  BY <1>7, <1>8 DEF ToldOf, Closed

\* What an update does to the Thread it is about.
LEMMA UpdateTells ==
    ASSUME Replayed, EventsTellTheirSource, NEW m \in Messages, NEW record,
           NEW seen, NEW t \in Threads, record.thread = t, Exists(seen),
           Past(events[t], seen), UpdateThread(m, record, seen)
    PROVE  /\ Exists(stored[t]) /\ stored[t].thread.actual \notin Closed
           /\ \/ /\ ToldOf(stored'[t]) = Append(ToldOf(stored[t]), m)
                 /\ stored'[t].thread.actual \notin Closed
              \/ /\ ToldOf(stored'[t]) = ToldOf(stored[t])
                 /\ stored'[t].thread.actual \in Closed
<1>1. stored[t] = seen
  <2>1. stored[t].revision = seen.revision
    BY DEF UpdateThread, Current
  <2> QED
    BY <2>1, PastAtRevision
<1>2. Exists(stored[t]) /\ stored[t].thread.actual \notin Closed
  BY <1>1 DEF UpdateThread, Closed
<1>3. PICK pending \in PendingApprovals(stored[t].thread) :
        \/ Commit(t, CancellationEvents(m, stored[t].thread, pending))
        \/ Commit(t, RevisionEvents(m, record.kind, seen, stored[t].thread, pending))
  BY DEF UpdateThread
<1>4. CASE Commit(t, CancellationEvents(m, stored[t].thread, pending))
  <2>1. /\ ToldOf(stored'[t]) = ToldOf(stored[t])
        /\ stored'[t].thread.actual = "CANCELLED"
    BY <1>2, <1>4, CancellationTells
  <2> QED
    BY <1>2, <2>1 DEF Closed
<1>5. CASE Commit(t, RevisionEvents(m, record.kind, seen, stored[t].thread, pending))
  <2> DEFINE kind == record.kind
  <2>1. Commit(t, RevisionEvents(m, kind, stored[t], stored[t].thread, pending))
    BY <1>1, <1>5
  <2> HIDE DEF kind
  <2>2. /\ ToldOf(stored'[t]) = Append(ToldOf(stored[t]), m)
        /\ stored'[t].thread.actual \notin Closed
    BY <1>2, <2>1, RevisionTells
  <2> QED
    BY <1>2, <2>2
<1> QED
  BY <1>3, <1>4, <1>5
\* ... and to the others.
LEMMA UpdateLeavesOthers ==
    ASSUME Replayed, EventsTellTheirSource, NEW m \in Messages, NEW record,
           NEW seen, record.thread \in Threads, Exists(seen),
           Past(events[record.thread], seen), UpdateThread(m, record, seen)
    PROVE  \A o \in Threads : o # record.thread => stored'[o] = stored[o]
  BY DEF UpdateThread, Commit, Replayed

-----------------------------------------------------------------------------
(* The invariant.                                                           *)

\* Only a stored route is decided, and a decision names an effect or drops it.
KnownDecision(call, table) ==
    call.record.state \in {"CORRECTED", "EXPIRED"} =>
        /\ table[call.message] # None
        /\ call.record.state = "CORRECTED" => Submits(call.record) \/ Updates(call.record)

KnownDecisions == \A c \in Callers : Pending(c) => KnownDecision(calls[c], inbox)

\* A Thread's newest Run was told something.
SomeTold == \A t \in Threads : Exists(stored[t]) => ToldOf(stored[t]) # << >>

DurableInv == StoryInv /\ KnownDecisions /\ SomeTold

LEMMA DurableInitially == InboxInit => DurableInv
<1> SUFFICES ASSUME InboxInit PROVE DurableInv
  OBVIOUS
<1>1. KnownDecisions
  BY DEF InboxInit, JournalInit, KnownDecisions, Pending, At
<1>2. SomeTold
  BY EmptyFields DEF InboxInit, JournalInit, SomeTold, Exists
<1> QED
  BY <1>1, <1>2, StoryInitially DEF DurableInv

\* Routes are decided on later than they are routed, and a record stays.
LEMMA DecisionsKeep ==
    ASSUME StoryInv, KnownDecisions, NEW c \in Callers, NEW call, Become(c, call),
           \A m \in Messages : inbox[m] # None => inbox'[m] # None,
           call # Idle /\ call.op \in {"routed", "prepared"} => KnownDecision(call, inbox')
    PROVE  KnownDecisions'
<1>0. DOMAIN calls = Callers
  BY DEF StoryInv, InboxInv, Shapes
<1>1. /\ calls'[c] = call
      /\ \A d \in Callers : d # c => calls'[d] = calls[d]
  BY <1>0 DEF Become
<1> SUFFICES ASSUME NEW d \in Callers, Pending(d)' PROVE KnownDecision(calls'[d], inbox')
  BY DEF KnownDecisions, KnownDecision
<1>2. CASE d = c
  BY <1>1, <1>2 DEF Pending, At
<1>3. CASE d # c
  <2>1. calls'[d] = calls[d] /\ Pending(d)
    BY <1>1, <1>3 DEF Pending, At
  <2>2. KnownDecision(calls[d], inbox) /\ calls[d].message \in Messages
    BY <2>1 DEF KnownDecisions, StoryInv, InboxInv, Routed, Fit
  <2> QED
    BY <2>1, <2>2 DEF KnownDecision
<1> QED
  BY <1>2, <1>3

LEMMA RoutedAsFound ==
    ASSUME NEW m, NEW text, NEW candidates
    PROVE  Route(m, text, candidates).state \in {"CONFIRMED", "PROPOSED"}
  BY DEF Route

LEMMA DecidedAsAsked ==
    ASSUME NEW m \in Messages, inbox[m] \in InboxRecord, NEW record \in Decisions(m),
           record.state = "CORRECTED"
    PROVE  Submits(record) \/ Updates(record)
<1>1. CASE record = [inbox[m] EXCEPT !.state = "EXPIRED"]
  BY <1>1 DEF InboxRecord
<1>2. ASSUME NEW t, NEW kind, record = Corrected(m, "THREAD_UPDATE", t, kind)
      PROVE  Updates(record)
  BY <1>2 DEF Corrected, InboxRecord, Updates, Settled
<1>3. ASSUME NEW t, record = Corrected(m, "NEW_TASK", t, None)
      PROVE  Submits(record)
  BY <1>3 DEF Corrected, InboxRecord, Submits, Settled
<1> QED
  BY <1>1, <1>2, <1>3 DEF Decisions

LEMMA CallDecisions ==
    ASSUME StoryInv, KnownDecisions, NEW c \in Callers, CallNext(c)
    PROVE  KnownDecisions'
<1>1. ASSUME NEW m, NEW text, NEW candidates, Receive(c, m, text, candidates)
      PROVE  KnownDecisions'
  <2> DEFINE call == [op |-> "routed", message |-> m, record |-> Route(m, text, candidates)]
  <2>1. call.record.state \in {"CONFIRMED", "PROPOSED"}
    BY RoutedAsFound
  <2>2. Become(c, call) /\ UNCHANGED inbox
    BY <1>1 DEF Receive
  <2> HIDE DEF call
  <2>3. KnownDecision(call, inbox')
    BY <2>1 DEF KnownDecision
  <2> QED
    BY <2>2, <2>3, DecisionsKeep
<1>2. ASSUME Prepare(c) PROVE KnownDecisions'
  <2> DEFINE call == [op |-> "prepared", message |-> calls[c].message,
                      record |-> calls[c].record, seen |-> stored[calls[c].record.thread]]
  <2>1. Become(c, call) /\ UNCHANGED inbox /\ Pending(c)
    BY <1>2 DEF Prepare, Pending
  <2>2. call.record = calls[c].record /\ call.message = calls[c].message
    OBVIOUS
  <2> HIDE DEF call
  <2>3. KnownDecision(call, inbox')
    BY <2>1, <2>2 DEF KnownDecisions, KnownDecision
  <2> QED
    BY <2>1, <2>3, DecisionsKeep
<1>3. ASSUME AcceptInboxRoute(c) \/ ResolveInboxRoute(c) PROVE KnownDecisions'
  <2>1. Ready(c)
    BY <1>3 DEF AcceptInboxRoute, ResolveInboxRoute
  <2>2. calls[c].message \in Messages /\ calls[c].record # None
    BY <2>1, ReadyIsFit DEF StoryInv
  <2>3. \/ inbox' = inbox
        \/ inbox' = [inbox EXCEPT ![calls[c].message] = calls[c].record]
    BY <1>3 DEF AcceptInboxRoute, ResolveInboxRoute
  <2>4. \A m \in Messages : inbox[m] # None => inbox'[m] # None
    BY <2>2, <2>3 DEF StoryInv, InboxInv, Shapes
  <2>5. \/ Become(c, Idle)
        \/ Become(c, [op |-> "handle", message |-> calls[c].message])
    BY <1>3 DEF AcceptInboxRoute, ResolveInboxRoute, AfterDuplicate
  <2> QED
    BY <2>4, <2>5, DecisionsKeep
<1>4. ASSUME Handle(c) PROVE KnownDecisions'
  BY <1>4, DecisionsKeep DEF Handle
<1>5. ASSUME NEW m \in Messages, DecideRoute(c, m) PROVE KnownDecisions'
  <2>1. PICK record \in Decisions(m) :
            Become(c, [op |-> "routed", message |-> m, record |-> record])
    BY <1>5 DEF DecideRoute
  <2>2. inbox[m] # None /\ UNCHANGED inbox
    BY <1>5 DEF DecideRoute
  <2>3. inbox[m] \in InboxRecord
    BY <2>2 DEF StoryInv, InboxInv, Routed, Fit, WellRouted
  <2>4. record.state = "CORRECTED" => Submits(record) \/ Updates(record)
    BY <2>3, DecidedAsAsked
  <2> DEFINE call == [op |-> "routed", message |-> m, record |-> record]
  <2>5. Become(c, call) /\ call.message = m /\ call.record = record
    BY <2>1
  <2> HIDE DEF call
  <2>6. KnownDecision(call, inbox')
    BY <2>2, <2>4, <2>5 DEF KnownDecision
  <2> QED
    BY <2>2, <2>5, <2>6, DecisionsKeep
<1> QED
  BY <1>1, <1>2, <1>3, <1>4, <1>5 DEF CallNext
LEMMA JournalDecisions ==
    ASSUME KnownDecisions, Hands, UNCHANGED inbox
    PROVE  KnownDecisions'
<1> SUFFICES ASSUME NEW d \in Callers, Pending(d)' PROVE KnownDecision(calls'[d], inbox')
  BY DEF KnownDecisions, KnownDecision
<1>1. calls'[d] = calls[d]
  BY DEF Hands, Pending, At
<1> QED
  BY <1>1 DEF KnownDecisions, Pending, At

-----------------------------------------------------------------------------
(* The steps of the abstract inbox.                                         *)

\* One record changes.
LEMMA OutcomesMove ==
    ASSUME Shapes, NEW m \in Messages, NEW record, inbox' = [inbox EXCEPT ![m] = record]
    PROVE  Promised!Decide(m, OutcomeOf(record))
<1>1. /\ inbox'[m] = record
      /\ \A n \in Messages : n # m => inbox'[n] = inbox[n]
  BY DEF Shapes
<1>2. Outcomes' = [Outcomes EXCEPT ![m] = OutcomeOf(record)]
  <2>1. \A n \in Messages :
            OutcomeOf(inbox'[n]) = IF n = m THEN OutcomeOf(record) ELSE OutcomeOf(inbox[n])
    BY <1>1
  <2> QED
    BY <2>1 DEF Outcomes
<1> QED
  BY <1>2 DEF Promised!Decide

\* One Thread changes.
LEMMA ThreadMoved ==
    ASSUME NEW t \in Threads, \A o \in Threads : o # t => stored'[o] = stored[o]
    PROVE  /\ ToldContexts' = [ToldContexts EXCEPT ![t] = ToldOf(stored'[t])]
           /\ t \in ClosedThreads' <=>
                Exists(stored'[t]) /\ stored'[t].thread.actual \in Closed
           /\ t \in ClosedThreads <=>
                Exists(stored[t]) /\ stored[t].thread.actual \in Closed
           /\ \A o \in Threads : o # t => (o \in ClosedThreads' <=> o \in ClosedThreads)
  BY DEF ToldContexts, ClosedThreads, Closed

\* A step that is no message's changes nothing for the newest Run of a Thread,
\* and at most closes one Thread.
LEMMA SteadyStep ==
    ASSUME SomeTold, Steady, UNCHANGED inbox
    PROVE  SomeTold' /\ [Promised!Next]_Promised!inboxVars
<1>1. Outcomes' = Outcomes
  BY DEF Outcomes
<1>2. \A t \in Threads : /\ ToldOf(stored'[t]) = ToldOf(stored[t])
                         /\ Exists(stored'[t]) <=> Exists(stored[t])
  <2> SUFFICES ASSUME NEW t \in Threads
               PROVE  /\ ToldOf(stored'[t]) = ToldOf(stored[t])
                      /\ Exists(stored'[t]) <=> Exists(stored[t])
    OBVIOUS
  <2>1. Exists(stored'[t]) <=> Exists(stored[t])
    BY DEF Steady
  <2>2. CASE Exists(stored[t])
    BY <2>1, <2>2, ShapeTells DEF Steady
  <2>3. CASE ~Exists(stored[t])
    BY <2>1, <2>3 DEF ToldOf
  <2> QED
    BY <2>1, <2>2, <2>3
<1>3. SomeTold'
  BY <1>2 DEF SomeTold
<1>4. ToldContexts' = ToldContexts
  BY <1>2 DEF ToldContexts
<1>5. \A t \in ClosedThreads : t \in ClosedThreads'
  BY DEF ClosedThreads, Steady, Closed
<1>6. CASE \A t \in Threads : stored'[t] = stored[t]
  <2>1. ClosedThreads' = ClosedThreads
    BY <1>6 DEF ClosedThreads
  <2> QED
    BY <1>1, <1>3, <1>4, <2>1 DEF Promised!inboxVars
<1>7. ASSUME NEW t \in Threads, stored'[t] # stored[t]
      PROVE  [Promised!Next]_Promised!inboxVars
  <2>1. \A o \in Threads : o # t => stored'[o] = stored[o]
    BY <1>7 DEF Steady
  <2>2. \A o \in Threads : o # t => (o \in ClosedThreads' <=> o \in ClosedThreads)
    BY <2>1, ThreadMoved
  <2>3. ClosedThreads' = ClosedThreads \/ ClosedThreads' = ClosedThreads \cup {t}
    <3>1. ClosedThreads \subseteq Threads /\ ClosedThreads' \subseteq Threads
      BY DEF ClosedThreads
    <3> QED
      BY <1>5, <2>2, <3>1
  <2>4. CASE ClosedThreads' = ClosedThreads
    BY <1>1, <1>4, <2>4 DEF Promised!inboxVars
  <2>5. CASE ClosedThreads' = ClosedThreads \cup {t}
    <3>1. Promised!Close(t)
      BY <1>1, <1>4, <2>5 DEF Promised!Close
    <3> QED
      BY <3>1 DEF Promised!Next
  <2> QED
    BY <2>3, <2>4, <2>5
<1> QED
  BY <1>3, <1>6, <1>7
\* What a record about to be stored with its effect finds.
Storable(m, record) ==
    /\ m \in Messages /\ WellRouted(m, record) /\ record # None
    /\ \/ inbox[m] = None /\ record.state \in {"CONFIRMED", "PROPOSED"}
       \/ /\ inbox[m] # None /\ inbox[m].state = "PROPOSED"
          /\ record.state \in {"CORRECTED", "EXPIRED"}
          /\ record.state = "CORRECTED" => Submits(record) \/ Updates(record)

LEMMA StorableIsUndecided ==
    ASSUME NEW m, NEW record, Storable(m, record)
    PROVE  m \in Promised!Undecided
  BY DEF Storable, Promised!Undecided, Outcomes, OutcomeOf

\* A Task starts.
LEMMA SubmitStep ==
    ASSUME StoryInv, SomeTold, NEW m, NEW record, Storable(m, record), Submits(record),
           inbox' = [inbox EXCEPT ![m] = record], SubmitTask(m)
    PROVE  SomeTold' /\ Promised!StartTask(m)
<1>1. m \in Messages /\ m \in Threads /\ OutcomeOf(record) = "task"
  <2>1. record.thread = m /\ record.thread \in Threads \cup {None}
    BY DEF Storable, WellRouted, InboxRecord
  <2> QED
    BY <2>1, InboxAssumption DEF Storable, OutcomeOf, Submits, Settled
<1>2. ~Exists(stored[m])
  <2>1. ~Started(m)
    BY DEF Storable, Started, Submits, Settled
  <2> QED
    BY <1>1, <2>1 DEF StoryInv, Recorded
<1>3. Commit(m, TaskEvents(m))
  BY <1>2 DEF SubmitTask
<1>4. ToldOf(stored'[m]) = <<m>> /\ stored'[m].thread.actual = "QUEUED"
  BY <1>1, <1>3, TaskTells DEF StoryInv, JournalInv
<1>5. \A o \in Threads : o # m => stored'[o] = stored[o]
  <2>1. Draws(TaskEvents(m), stored[m], {}, {"run.created", "run.snapshots_bound"})
    BY <1>1, TaskDraws
  <2> QED
    BY <1>1, <1>3, <2>1, CommitKeeps DEF StoryInv, JournalInv
<1>6. SomeTold'
  BY <1>4, <1>5 DEF SomeTold
<1>7. Promised!Decide(m, "task")
  BY <1>1, OutcomesMove DEF StoryInv, InboxInv
<1>8. /\ ToldContexts' = [ToldContexts EXCEPT ![m] = <<m>>]
      /\ m \notin ClosedThreads' /\ m \notin ClosedThreads
      /\ \A o \in Threads : o # m => (o \in ClosedThreads' <=> o \in ClosedThreads)
  BY <1>1, <1>2, <1>4, <1>5, ThreadMoved DEF Closed
<1>9. ToldContexts[m] = << >>
  BY <1>1, <1>2 DEF ToldContexts, ToldOf
<1>10. ClosedThreads' = ClosedThreads
  BY <1>8 DEF ClosedThreads
<1>11. Promised!StartTask(m)
  BY <1>1, <1>7, <1>8, <1>9, <1>10 DEF Promised!StartTask
<1> QED
  BY <1>6, <1>11

\* A Thread is revised or cancelled.
LEMMA UpdateStep ==
    ASSUME StoryInv, SomeTold, NEW m, NEW record, Storable(m, record), Updates(record),
           inbox' = [inbox EXCEPT ![m] = record],
           NEW seen, Exists(seen), Past(events[record.thread], seen),
           UpdateThread(m, record, seen),
           \A o \in Threads : o # record.thread => stored'[o] = stored[o]
    PROVE  /\ SomeTold'
           /\ \E t \in Threads : Promised!ReviseThread(m, t) \/ Promised!CancelThread(m, t)
<1> DEFINE t == record.thread
<1>1. m \in Messages /\ t \in Threads /\ OutcomeOf(record) = t
  BY DEF Storable, WellRouted, InboxRecord, OutcomeOf, Updates, Submits, Settled
<1>2. /\ Exists(stored[t]) /\ stored[t].thread.actual \notin Closed
      /\ \/ /\ ToldOf(stored'[t]) = Append(ToldOf(stored[t]), m)
            /\ stored'[t].thread.actual \notin Closed
         \/ /\ ToldOf(stored'[t]) = ToldOf(stored[t])
            /\ stored'[t].thread.actual \in Closed
  BY <1>1, UpdateTells DEF StoryInv, JournalInv
<1>3. Exists(stored'[t])
  <2>1. Effected(m, record)
    BY <1>1, UpdateEffected DEF StoryInv, JournalInv
  <2> QED
    BY <1>1, <1>2, <2>1 DEF Effected
<1>4. Promised!Decide(m, t)
  BY <1>1, OutcomesMove DEF StoryInv, InboxInv
<1> HIDE DEF t
<1>5. \A o \in Threads : o # t => stored'[o] = stored[o]
  BY DEF t
<1>6. /\ ToldContexts' = [ToldContexts EXCEPT ![t] = ToldOf(stored'[t])]
      /\ t \in ClosedThreads' <=> stored'[t].thread.actual \in Closed
      /\ t \notin ClosedThreads
      /\ \A o \in Threads : o # t => (o \in ClosedThreads' <=> o \in ClosedThreads)
  BY <1>1, <1>2, <1>3, <1>5, ThreadMoved
<1>7. ToldContexts[t] = ToldOf(stored[t]) /\ ToldContexts[t] # << >>
  BY <1>1, <1>2 DEF ToldContexts, SomeTold
<1>8. ClosedThreads \subseteq Threads /\ ClosedThreads' \subseteq Threads
  BY DEF ClosedThreads
<1>9. CASE /\ ToldOf(stored'[t]) = Append(ToldOf(stored[t]), m)
           /\ stored'[t].thread.actual \notin Closed
  <2>1. \A o \in Threads : o \in ClosedThreads' <=> o \in ClosedThreads
    BY <1>6, <1>9
  <2>a. ClosedThreads' = ClosedThreads
    BY <1>8, <2>1
  <2>2. ToldContexts' = [ToldContexts EXCEPT ![t] = Append(ToldContexts[t], m)]
    BY <1>6, <1>7, <1>9
  <2>3. Promised!ReviseThread(m, t)
    BY <1>4, <1>6, <1>7, <2>a, <2>2 DEF Promised!ReviseThread
  <2>4. ToldOf(stored'[t]) # << >>
    BY <1>9
  <2> QED
    BY <1>1, <1>5, <2>3, <2>4 DEF SomeTold
<1>10. CASE /\ ToldOf(stored'[t]) = ToldOf(stored[t])
            /\ stored'[t].thread.actual \in Closed
  <2>1. ClosedThreads' = ClosedThreads \cup {t}
    BY <1>1, <1>6, <1>8, <1>10
  <2>2. ToldContexts' = ToldContexts
    BY <1>6, <1>7, <1>10 DEF ToldContexts
  <2>3. Promised!CancelThread(m, t)
    BY <1>4, <1>6, <1>7, <2>1, <2>2 DEF Promised!CancelThread
  <2> QED
    BY <1>1, <1>5, <1>7, <1>10, <2>3 DEF SomeTold
<1> QED
  BY <1>2, <1>9, <1>10

\* A message is set aside, or its route left open or dropped.
LEMMA AsideStep ==
    ASSUME StoryInv, SomeTold, NEW m, NEW record, Storable(m, record),
           ~Submits(record), ~Updates(record),
           inbox' = [inbox EXCEPT ![m] = record], UNCHANGED stored
    PROVE  /\ SomeTold'
           /\ Promised!SetAside(m) \/ Promised!Propose(m) \/ Promised!Drop(m)
<1>1. SomeTold' /\ UNCHANGED <<ToldContexts, ClosedThreads>>
  BY DEF SomeTold, ToldContexts, ClosedThreads
<1>2. m \in Messages /\ Promised!Decide(m, OutcomeOf(record))
  BY OutcomesMove DEF Storable, StoryInv, InboxInv
<1>3. Outcomes[m] = OutcomeOf(inbox[m])
  BY <1>2 DEF Outcomes
<1>4. \/ Outcomes[m] = "none" /\ OutcomeOf(record) \in {"aside", "proposed"}
      \/ Outcomes[m] = "proposed" /\ OutcomeOf(record) = "dropped"
  BY <1>3 DEF Storable, OutcomeOf
<1> QED
  BY <1>1, <1>2, <1>4 DEF Promised!SetAside, Promised!Propose, Promised!Drop
\* A record is stored with its effect.
LEMMA StoringStep ==
    ASSUME DurableInv, NEW c \in Callers, AcceptInboxRoute(c) \/ ResolveInboxRoute(c)
    PROVE  SomeTold' /\ [Promised!Next]_Promised!inboxVars
<1> DEFINE m == calls[c].message
           record == calls[c].record
<1>1. StoryInv /\ SomeTold /\ Replayed /\ EventsTellTheirSource
  BY DEF DurableInv, StoryInv, JournalInv
<1>2. Ready(c) /\ Pending(c)
  BY DEF AcceptInboxRoute, ResolveInboxRoute, Ready, Pending
<1>3. m \in Messages /\ WellRouted(m, record) /\ record # None
  BY <1>1, <1>2, ReadyIsFit DEF StoryInv, Fit
<1>4. KnownDecision(calls[c], inbox)
  BY <1>2 DEF DurableInv, KnownDecisions
<1>5. \/ UNCHANGED <<events, stored, inbox>>
      \/ /\ Storable(m, record)
         /\ inbox' = [inbox EXCEPT ![m] = record]
         /\ Effect(m, record, Seen(c))
  <2>1. CASE AcceptInboxRoute(c)
    BY <1>3, <2>1 DEF AcceptInboxRoute, Storable
  <2>2. CASE ResolveInboxRoute(c)
    BY <1>3, <1>4, <2>2 DEF ResolveInboxRoute, Storable, KnownDecision, StillProposed
  <2> QED
    BY <2>1, <2>2
<1>6. CASE UNCHANGED <<events, stored, inbox>>
  <2>1. Steady
    BY <1>1, <1>6, StillIsSteady
  <2> QED
    BY <1>1, <1>6, <2>1, SteadyStep
<1>7. CASE /\ Storable(m, record)
           /\ inbox' = [inbox EXCEPT ![m] = record]
           /\ Effect(m, record, Seen(c))
  <2>1. ~(Submits(record) /\ Updates(record))
    BY DEF Submits, Updates
  <2>2. m \in Promised!Undecided
    BY <1>7, StorableIsUndecided
  <2>3. CASE Submits(record)
    <3>1. SubmitTask(m)
      BY <1>7, <2>1, <2>3 DEF Effect
    <3>2. m \in Threads
      BY <1>3, <2>3, InboxAssumption DEF WellRouted, InboxRecord
    <3>3. SomeTold' /\ Promised!StartTask(m)
      BY <1>1, <1>7, <2>3, <3>1, SubmitStep
    <3> QED
      BY <2>2, <3>3 DEF Promised!Next
  <2>4. CASE Updates(record)
    <3>1. At(c, "prepared") /\ Seen(c) = calls[c].seen
      BY <1>2, <2>4 DEF Ready, Seen
    <3>2. PreparedOn(calls[c], events) /\ calls[c].op = "prepared"
      BY <1>1, <3>1 DEF StoryInv, Prepared, At
    <3>3. UpdateThread(m, record, calls[c].seen)
      BY <1>7, <2>1, <2>4, <3>1 DEF Effect
    <3>4. /\ record.thread \in Threads /\ Exists(calls[c].seen)
          /\ Past(events[record.thread], calls[c].seen)
      BY <3>2 DEF PreparedOn
    <3>5. \A o \in Threads : o # record.thread => stored'[o] = stored[o]
      BY <1>1, <1>3, <3>3, <3>4, UpdateLeavesOthers
    <3>6. /\ SomeTold'
          /\ \E t \in Threads : Promised!ReviseThread(m, t) \/ Promised!CancelThread(m, t)
      BY <1>1, <1>7, <2>4, <3>3, <3>4, <3>5, UpdateStep
    <3> QED
      BY <2>2, <3>6 DEF Promised!Next
  <2>5. CASE ~Submits(record) /\ ~Updates(record)
    <3>1. UNCHANGED stored
      BY <1>7, <2>5 DEF Effect
    <3>2. /\ SomeTold'
          /\ Promised!SetAside(m) \/ Promised!Propose(m) \/ Promised!Drop(m)
      BY <1>1, <1>7, <2>5, <3>1, AsideStep
    <3> QED
      BY <2>2, <3>2 DEF Promised!Next
  <2> QED
    BY <2>3, <2>4, <2>5
<1> QED
  BY <1>5, <1>6, <1>7

LEMMA DurableStep ==
    ASSUME DurableInv, [InboxNext]_messageVars
    PROVE  DurableInv' /\ [Promised!Next]_Promised!inboxVars
<1>0. StoryInv /\ StoryInv' /\ KnownDecisions /\ SomeTold
  BY StoryStep DEF DurableInv
<1>1. Replayed /\ EventsTellTheirSource
  BY <1>0 DEF StoryInv, JournalInv
<1>2. ASSUME NEW c \in Callers, CallNext(c)
      PROVE  SomeTold' /\ KnownDecisions' /\ [Promised!Next]_Promised!inboxVars
  <2>1. KnownDecisions'
    BY <1>0, <1>2, CallDecisions
  <2>2. CASE UNCHANGED <<events, stored, inbox>>
    <3>1. Steady
      BY <1>1, <2>2, StillIsSteady
    <3> QED
      BY <1>0, <2>1, <2>2, <3>1, SteadyStep
  <2>3. CASE AcceptInboxRoute(c) \/ ResolveInboxRoute(c)
    BY <2>1, <2>3, StoringStep
  <2> QED
    BY <1>2, <2>2, <2>3 DEF CallNext, Receive, Prepare, Handle, DecideRoute
<1>3. CASE JournalNext /\ UNCHANGED <<inbox, handled>>
  <2>1. Steady /\ Hands
    BY <1>0, <1>3, JournalStep DEF StoryInv
  <2>2. KnownDecisions'
    BY <1>0, <1>3, <2>1, JournalDecisions
  <2>3. SomeTold' /\ [Promised!Next]_Promised!inboxVars
    BY <1>0, <1>3, <2>1, SteadyStep
  <2> QED
    BY <1>0, <2>2, <2>3 DEF DurableInv
<1>4. CASE UNCHANGED messageVars
  <2>1. UNCHANGED <<events, stored>> /\ UNCHANGED inbox /\ UNCHANGED calls
    BY <1>4 DEF messageVars
  <2>2. Steady
    BY <1>1, <2>1, StillIsSteady
  <2>3. KnownDecisions'
    BY <1>0, <2>1 DEF KnownDecisions, Pending, At
  <2>4. SomeTold' /\ [Promised!Next]_Promised!inboxVars
    BY <1>0, <2>1, <2>2, SteadyStep
  <2> QED
    BY <1>0, <2>3, <2>4 DEF DurableInv
<1> QED
  BY <1>0, <1>2, <1>3, <1>4 DEF InboxNext, DurableInv

LEMMA DurableAtFirst == InboxInit => Promised!Init
<1> SUFFICES ASSUME InboxInit PROVE Promised!Init
  OBVIOUS
<1>1. \A t \in Threads : stored[t] = Empty /\ ~Exists(stored[t])
  BY EmptyFields DEF InboxInit, JournalInit, Exists
<1>2. Outcomes = [m \in Messages |-> "none"]
  BY DEF InboxInit, Outcomes, OutcomeOf
<1>3. ToldContexts = [t \in Threads |-> << >>] /\ ClosedThreads = {}
  BY <1>1 DEF ToldContexts, ToldOf, ClosedThreads
<1> QED
  BY <1>2, <1>3 DEF Promised!Init

-----------------------------------------------------------------------------
(* The theorem.                                                             *)

\* However messages are delivered and decided, and whatever Workers and commands
\* write between a call's read of a Thread and its transaction, each message has
\* one outcome, the newest Run of a Thread has been told every message that
\* changed the Thread, each once and in order, and a closed Thread takes no more.
THEOREM ImplementsDurableInbox == InboxSpec => DurableInboxSpec
<1>1. DurableInv /\ [InboxNext]_messageVars => DurableInv' /\ [Promised!Next]_Promised!inboxVars
  BY DurableStep
<1> QED
  BY <1>1, DurableInitially, DurableAtFirst, PTL
     DEF InboxSpec, DurableInboxSpec, Promised!Spec
=============================================================================
