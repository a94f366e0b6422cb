---------------------------- MODULE InboxProofs ----------------------------
(***************************************************************************)
(* What the inbox guarantees, for any number of messages, Threads and       *)
(* callers, any texts and commands.  First what its own records say,        *)
(* whatever the events of the Threads reduce to: routes are well formed, a  *)
(* settled route stays, and a message is handed to the Agent once at most.  *)
(* Then, by the lemmas about the journal, what a message did to the         *)
(* Threads: stored projections replay, their events are true, and a message *)
(* has the effect its record tells and no other.                            *)
(***************************************************************************)
EXTENDS Inbox, JournalProofs

-----------------------------------------------------------------------------
(* The inductive invariant.                                                 *)

Shapes ==
    /\ DOMAIN calls = Callers
    /\ DOMAIN inbox = Messages
    /\ handled \in [Messages -> Nat]

\* A record fit to be stored; an open one keeps the kind a decision may need.
Fit(m, record) ==
    /\ m \in Messages
    /\ WellRouted(m, record)
    /\ record.state = "PROPOSED" => record.kind # None

Pending(c) == At(c, "routed") \/ At(c, "prepared")

Routed ==
    /\ \A m \in Messages : inbox[m] # None => Fit(m, inbox[m])
    /\ \A c \in Callers : Pending(c) => Fit(calls[c].message, calls[c].record)

\* A message about to be handled is stored, was not handled, and is in the
\* hands of one caller.
ToHandle ==
    /\ \A c \in Callers : At(c, "handle") =>
            /\ calls[c].message \in Messages
            /\ inbox[calls[c].message] # None
            /\ handled[calls[c].message] = 0
    /\ \A c, d \in Callers :
            At(c, "handle") /\ At(d, "handle") /\ calls[c].message = calls[d].message => c = d

InboxInv == Shapes /\ Routed /\ ToHandle /\ HandledOnce

LEMMA InboxInitially == InboxInit => InboxInv
BY DEF InboxInit, JournalInit, InboxInv, Shapes, Routed, ToHandle, HandledOnce,
       Pending, At

-----------------------------------------------------------------------------
(* Records.                                                                 *)

LEMMA RouteIsFit ==
    ASSUME NEW m \in Messages, NEW text \in Texts[m], NEW candidates \in SUBSET Threads
    PROVE  Fit(m, Route(m, text, candidates))
<1> DEFINE record(type, state, t, kind) ==
        [type |-> type, state |-> state, thread |-> t, kind |-> kind]
<1>1. text \in Text /\ (text.cue = "task" => m \in Threads)
  BY TextAssumption
<1>2. Threads \subseteq Messages /\ None \notin Threads /\ None \notin UpdateKind
  BY InboxAssumption, TextAssumption
<1>3. CASE text.cue = "control"
  BY <1>3 DEF Route, Fit, WellRouted, InboxRecord, RouteType, RouteState, Updates,
              Submits, Settled
<1>4. CASE text.cue = "thread"
  <2>1. text.thread \in Threads /\ text.kind \in UpdateKind
    BY <1>1, <1>4 DEF Text
  <2> QED
    BY <2>1, <1>2, <1>4
       DEF Route, Fit, WellRouted, InboxRecord, RouteType, RouteState, Updates, Submits,
           Settled
<1>5. CASE text.cue = "task"
  BY <1>1, <1>2, <1>5 DEF Route, Fit, WellRouted, InboxRecord, RouteType, RouteState,
                          Updates, Submits, Settled
<1>6. CASE text.cue = "chat"
  BY <1>6 DEF Route, Fit, WellRouted, InboxRecord, RouteType, RouteState, Updates,
              Submits, Settled
<1>7. CASE text.cue = "continue"
  <2>1. text.kind \in UpdateKind
    BY <1>1, <1>7 DEF Text
  <2>2. CASE \E t \in candidates : candidates = {t}
    <3> DEFINE t == CHOOSE t \in candidates : TRUE
    <3>1. t \in Threads
      BY <2>2
    <3>2. Route(m, text, candidates) = record("THREAD_UPDATE", "CONFIRMED", t, text.kind)
      BY <1>7, <2>2 DEF Route
    <3> HIDE DEF t
    <3> QED
      BY <2>1, <3>1, <3>2, <1>2
         DEF Fit, WellRouted, InboxRecord, RouteType, RouteState, Updates, Submits, Settled
  <2>3. CASE ~ \E t \in candidates : candidates = {t}
    <3>1. Route(m, text, candidates) = record("AMBIGUOUS", "PROPOSED", None, text.kind)
      BY <1>7, <2>3 DEF Route
    <3> QED
      BY <2>1, <3>1, <1>2
         DEF Fit, WellRouted, InboxRecord, RouteType, RouteState, Updates, Submits, Settled
  <2> QED
    BY <2>2, <2>3
<1> QED
  BY <1>1, <1>3, <1>4, <1>5, <1>6, <1>7 DEF Text

LEMMA DecisionIsFit ==
    ASSUME NEW m \in Messages, Fit(m, inbox[m]), inbox[m].state = "PROPOSED",
           NEW record \in Decisions(m)
    PROVE  Fit(m, record)
<1> DEFINE expired == [inbox[m] EXCEPT !.state = "EXPIRED"]
           kinds == Kinds \cup {inbox[m].kind}
<1>1. inbox[m] \in InboxRecord /\ inbox[m].kind \in UpdateKind
  BY TextAssumption DEF Fit, WellRouted, InboxRecord
<1>2. CASE record = expired
  BY <1>1, <1>2 DEF Fit, WellRouted, InboxRecord, RouteState, Updates, Submits, Settled
<1>3. ASSUME NEW t \in Threads, NEW kind \in kinds,
             record = Corrected(m, "THREAD_UPDATE", t, kind)
      PROVE  Fit(m, record)
  <2>1. kind \in UpdateKind
    BY <1>1, TextAssumption
  <2>2. None \notin Threads /\ None \notin UpdateKind
    BY TextAssumption, InboxAssumption
  <2> QED
    BY <1>1, <1>3, <2>1, <2>2
       DEF Corrected, Fit, WellRouted, InboxRecord, RouteType, RouteState, Updates,
           Submits, Settled
<1>4. ASSUME NEW t \in Threads \cap {m}, record = Corrected(m, "NEW_TASK", t, None)
      PROVE  Fit(m, record)
  BY <1>1, <1>4
     DEF Corrected, Fit, WellRouted, InboxRecord, RouteType, RouteState, Updates,
         Submits, Settled
<1>5. \/ record = expired
      \/ \E t \in Threads, kind \in kinds : record = Corrected(m, "THREAD_UPDATE", t, kind)
      \/ \E t \in Threads \cap {m} : record = Corrected(m, "NEW_TASK", t, None)
  BY DEF Decisions
<1> HIDE DEF expired, kinds
<1> QED
  BY <1>2, <1>3, <1>4, <1>5

-----------------------------------------------------------------------------
(* Steps.                                                                   *)

\* A step that moves one call along and stores nothing.
LEMMA OneCallMoves ==
    ASSUME InboxInv, NEW c \in Callers, NEW call, Become(c, call),
           UNCHANGED <<inbox, handled>>,
           call # Idle => call.op # "handle",
           call # Idle /\ call.op \in {"routed", "prepared"} => Fit(call.message, call.record)
    PROVE  InboxInv'
<1>1. /\ DOMAIN calls' = Callers
      /\ calls'[c] = call
      /\ \A d \in Callers : d # c => calls'[d] = calls[d]
  BY DEF InboxInv, Shapes, Become
<1>2. Shapes' /\ HandledOnce'
  BY <1>1 DEF InboxInv, Shapes, HandledOnce
<1>3. Routed'
  <2>1. \A m \in Messages : inbox'[m] # None => Fit(m, inbox'[m])
    BY DEF InboxInv, Routed
  <2>2. ASSUME NEW d \in Callers, Pending(d)'
        PROVE  Fit(calls'[d].message, calls'[d].record)
    <3>1. CASE d = c
      BY <1>1, <2>2, <3>1 DEF Pending, At
    <3>2. CASE d # c
      <4>1. calls'[d] = calls[d] /\ Pending(d)
        BY <1>1, <2>2, <3>2 DEF Pending, At
      <4> QED
        BY <4>1 DEF InboxInv, Routed
    <3> QED
      BY <3>1, <3>2
  <2> QED
    BY <2>1, <2>2 DEF Routed, Fit, WellRouted
<1>4. ToHandle'
  <2>1. \A d \in Callers : At(d, "handle")' => At(d, "handle") /\ calls'[d] = calls[d]
    BY <1>1 DEF At
  <2> QED
    BY <2>1 DEF InboxInv, ToHandle
<1> QED
  BY <1>2, <1>3, <1>4 DEF InboxInv

LEMMA ReceiveKeeps ==
    ASSUME InboxInv, NEW c \in Callers, NEW m \in Messages, NEW text \in Texts[m],
           NEW candidates \in SUBSET Threads, Receive(c, m, text, candidates)
    PROVE  InboxInv'
<1> DEFINE call == [op |-> "routed", message |-> m, record |-> Route(m, text, candidates)]
<1>1. Fit(m, Route(m, text, candidates))
  BY RouteIsFit
<1>2. call.op = "routed" /\ Fit(call.message, call.record)
  BY <1>1
<1>3. Become(c, call) /\ UNCHANGED <<inbox, handled>>
  BY DEF Receive
<1> HIDE DEF call
<1> QED
  BY <1>2, <1>3, OneCallMoves

LEMMA PrepareKeeps ==
    ASSUME InboxInv, NEW c \in Callers, Prepare(c)
    PROVE  InboxInv'
<1> DEFINE call == [op |-> "prepared", message |-> calls[c].message,
                    record |-> calls[c].record, seen |-> stored[calls[c].record.thread]]
<1>1. Fit(calls[c].message, calls[c].record)
  BY DEF InboxInv, Routed, Pending, Prepare
<1>2. call.op = "prepared" /\ Fit(call.message, call.record)
  BY <1>1
<1>3. Become(c, call) /\ UNCHANGED <<inbox, handled>>
  BY DEF Prepare
<1> HIDE DEF call
<1> QED
  BY <1>2, <1>3, OneCallMoves

LEMMA DecideRouteKeeps ==
    ASSUME InboxInv, NEW c \in Callers, NEW m \in Messages, DecideRoute(c, m)
    PROVE  InboxInv'
<1>1. PICK record \in Decisions(m) :
          Become(c, [op |-> "routed", message |-> m, record |-> record])
  BY DEF DecideRoute
<1> DEFINE call == [op |-> "routed", message |-> m, record |-> record]
<1>2. inbox[m].state = "PROPOSED" /\ Fit(m, inbox[m])
  BY DEF DecideRoute, InboxInv, Routed
<1>3. Fit(m, record)
  BY <1>2, DecisionIsFit
<1>4. call.op = "routed" /\ Fit(call.message, call.record)
  BY <1>3
<1>5. Become(c, call) /\ UNCHANGED <<inbox, handled>>
  BY <1>1 DEF DecideRoute
<1> HIDE DEF call
<1> QED
  BY <1>4, <1>5, OneCallMoves

LEMMA IdleKeeps ==
    ASSUME InboxInv, NEW c \in Callers, Become(c, Idle), UNCHANGED <<inbox, handled>>
    PROVE  InboxInv'
BY OneCallMoves

\* What Accept and Resolve store is fit, and is a record.
LEMMA ReadyIsFit ==
    ASSUME InboxInv, NEW c \in Callers, Ready(c)
    PROVE  /\ calls[c].message \in Messages
           /\ Fit(calls[c].message, calls[c].record)
           /\ calls[c].record # None
BY TextAssumption DEF InboxInv, Routed, Ready, Pending, Fit, WellRouted

LEMMA AcceptKeeps ==
    ASSUME InboxInv, NEW c \in Callers, AcceptInboxRoute(c)
    PROVE  InboxInv'
<1> DEFINE m == calls[c].message
           record == calls[c].record
           call == [op |-> "handle", message |-> m]
<1>1. m \in Messages /\ Fit(m, record) /\ record # None
  BY ReadyIsFit DEF AcceptInboxRoute
<1>2. CASE inbox[m] # None
  BY <1>2, IdleKeeps DEF AcceptInboxRoute, AfterDuplicate
<1>3. CASE inbox[m] = None
  <2>1. /\ inbox' = [inbox EXCEPT ![m] = record]
        /\ handled' = handled
        /\ Become(c, call)
    BY <1>3 DEF AcceptInboxRoute
  <2>2. call.op = "handle" /\ call.message = m
    OBVIOUS
  <2> HIDE DEF call, m, record
  <2>3. /\ DOMAIN calls' = Callers
        /\ calls'[c] = call
        /\ \A d \in Callers : d # c => calls'[d] = calls[d]
    BY <2>1 DEF InboxInv, Shapes, Become
  <2>4. /\ DOMAIN inbox' = Messages
        /\ inbox'[m] = record
        /\ \A n \in Messages : n # m => inbox'[n] = inbox[n]
    BY <1>1, <2>1 DEF InboxInv, Shapes
  <2>5. handled[m] = 0
    BY <1>1, <1>3 DEF InboxInv, Shapes, HandledOnce
  <2>6. Shapes' /\ HandledOnce'
    BY <1>1, <2>1, <2>3, <2>4 DEF InboxInv, Shapes, HandledOnce
  <2>7. Routed'
    <3>1. \A n \in Messages : inbox'[n] # None => Fit(n, inbox'[n])
      BY <1>1, <2>4 DEF InboxInv, Routed
    <3>2. ASSUME NEW d \in Callers, Pending(d)'
          PROVE  Fit(calls'[d].message, calls'[d].record)
      <4>1. d # c
        BY <2>2, <2>3, <3>2 DEF Pending, At
      <4>2. calls'[d] = calls[d] /\ Pending(d)
        BY <2>3, <3>2, <4>1 DEF Pending, At
      <4> QED
        BY <4>2 DEF InboxInv, Routed
    <3> QED
      BY <3>1, <3>2 DEF Routed, Fit, WellRouted
  <2>8. ToHandle'
    <3>1. ASSUME NEW d \in Callers, d # c, At(d, "handle")'
          PROVE  /\ calls'[d] = calls[d] /\ At(d, "handle")
                 /\ calls[d].message \in Messages /\ calls[d].message # m
                 /\ inbox'[calls[d].message] # None /\ handled[calls[d].message] = 0
      <4>1. calls'[d] = calls[d] /\ At(d, "handle")
        BY <2>3, <3>1 DEF At
      <4>2. calls[d].message \in Messages /\ inbox[calls[d].message] # None
        BY <4>1 DEF InboxInv, ToHandle
      <4>3. calls[d].message # m
        BY <1>3, <4>2
      <4> QED
        BY <4>1, <4>2, <4>3, <2>4 DEF InboxInv, ToHandle
    <3>2. \A d \in Callers : At(d, "handle")' =>
              /\ calls'[d].message \in Messages
              /\ inbox'[calls'[d].message] # None
              /\ handled'[calls'[d].message] = 0
      BY <1>1, <2>1, <2>2, <2>3, <2>4, <2>5, <3>1
    <3>3. \A d, e \in Callers :
              At(d, "handle")' /\ At(e, "handle")' /\ calls'[d].message = calls'[e].message
                  => d = e
      BY <2>2, <2>3, <3>1 DEF InboxInv, ToHandle
    <3> QED
      BY <3>2, <3>3 DEF ToHandle
  <2> QED
    BY <2>6, <2>7, <2>8 DEF InboxInv
<1> QED
  BY <1>2, <1>3

LEMMA ResolveKeeps ==
    ASSUME InboxInv, NEW c \in Callers, ResolveInboxRoute(c)
    PROVE  InboxInv'
<1> DEFINE m == calls[c].message
           record == calls[c].record
<1>1. m \in Messages /\ Fit(m, record) /\ record # None
  BY ReadyIsFit DEF ResolveInboxRoute
<1>2. CASE ~StillProposed(m)
  BY <1>2, IdleKeeps DEF ResolveInboxRoute
<1>3. CASE StillProposed(m)
  <2>1. inbox' = [inbox EXCEPT ![m] = record] /\ handled' = handled /\ Become(c, Idle)
    BY <1>3 DEF ResolveInboxRoute
  <2> HIDE DEF m, record
  <2>2. /\ DOMAIN calls' = Callers
        /\ \A d \in Callers : calls'[d] # Idle => calls'[d] = calls[d]
    BY <2>1 DEF InboxInv, Shapes, Become
  <2>3. /\ DOMAIN inbox' = Messages
        /\ inbox'[m] = record
        /\ \A n \in Messages : n # m => inbox'[n] = inbox[n]
    BY <1>1, <2>1 DEF InboxInv, Shapes
  <2>4. Shapes' /\ HandledOnce'
    BY <1>1, <2>1, <2>2, <2>3 DEF InboxInv, Shapes, HandledOnce
  <2>5. Routed'
    <3>1. \A n \in Messages : inbox'[n] # None => Fit(n, inbox'[n])
      BY <1>1, <2>3 DEF InboxInv, Routed
    <3>2. ASSUME NEW d \in Callers, Pending(d)'
          PROVE  Fit(calls'[d].message, calls'[d].record)
      <4>1. calls'[d] = calls[d] /\ Pending(d)
        BY <2>2, <3>2 DEF Pending, At
      <4> QED
        BY <4>1 DEF InboxInv, Routed
    <3> QED
      BY <3>1, <3>2 DEF Routed, Fit, WellRouted
  <2>6. ToHandle'
    <3>1. \A d \in Callers : At(d, "handle")' => At(d, "handle") /\ calls'[d] = calls[d]
      BY <2>2 DEF At
    <3>2. \A n \in Messages : inbox[n] # None => inbox'[n] # None
      BY <1>1, <2>3
    <3> QED
      BY <2>1, <3>1, <3>2 DEF InboxInv, ToHandle
  <2> QED
    BY <2>4, <2>5, <2>6 DEF InboxInv
<1> QED
  BY <1>2, <1>3

LEMMA HandleKeeps ==
    ASSUME InboxInv, NEW c \in Callers, Handle(c)
    PROVE  InboxInv'
<1> DEFINE m == calls[c].message
<1>1. /\ At(c, "handle")
      /\ handled' = [handled EXCEPT ![m] = handled[m] + 1]
      /\ Become(c, Idle) /\ inbox' = inbox
  BY DEF Handle
<1>2. m \in Messages /\ inbox[m] # None /\ handled[m] = 0
  BY <1>1 DEF InboxInv, ToHandle
<1>3. \A d \in Callers : d # c /\ At(d, "handle") => calls[d].message # m
  BY <1>1 DEF InboxInv, ToHandle
<1> HIDE DEF m
<1>4. /\ DOMAIN calls' = Callers
      /\ calls'[c] = Idle
      /\ \A d \in Callers : calls'[d] # Idle => d # c /\ calls'[d] = calls[d]
  BY <1>1 DEF InboxInv, Shapes, Become
<1>5. /\ handled' \in [Messages -> Nat]
      /\ handled'[m] = 1
      /\ \A n \in Messages : n # m => handled'[n] = handled[n]
  BY <1>1, <1>2 DEF InboxInv, Shapes
<1>6. Shapes' /\ HandledOnce'
  BY <1>1, <1>2, <1>4, <1>5 DEF InboxInv, Shapes, HandledOnce
<1>7. Routed'
  <2>1. \A n \in Messages : inbox'[n] # None => Fit(n, inbox'[n])
    BY <1>1 DEF InboxInv, Routed
  <2>2. ASSUME NEW d \in Callers, Pending(d)'
        PROVE  Fit(calls'[d].message, calls'[d].record)
    <3>1. calls'[d] = calls[d] /\ Pending(d)
      BY <1>4, <2>2 DEF Pending, At
    <3> QED
      BY <3>1 DEF InboxInv, Routed
  <2> QED
    BY <2>1, <2>2 DEF Routed, Fit, WellRouted
<1>8. ToHandle'
  <2>1. ASSUME NEW d \in Callers, At(d, "handle")'
        PROVE  /\ calls'[d] = calls[d] /\ At(d, "handle") /\ calls[d].message # m
               /\ calls[d].message \in Messages /\ inbox[calls[d].message] # None
               /\ handled[calls[d].message] = 0
    <3>1. d # c /\ calls'[d] = calls[d] /\ At(d, "handle")
      BY <1>4, <2>1 DEF At
    <3> QED
      BY <1>3, <3>1 DEF InboxInv, ToHandle
  <2> QED
    BY <1>1, <1>5, <2>1 DEF InboxInv, ToHandle
<1> QED
  BY <1>6, <1>7, <1>8 DEF InboxInv

LEMMA JournalKeeps ==
    ASSUME InboxInv, JournalNext, UNCHANGED <<inbox, handled>>
    PROVE  InboxInv'
<1>1. ASSUME NEW c \in Callers, NEW t \in Threads, NEW command \in Commands,
             NEW r \in Runs \cup {NoRun}, Command(c, t, command, r)
      PROVE  InboxInv'
  <2> DEFINE call == [op |-> "append", thread |-> t, expected |-> stored[t].revision,
                      draft |-> Drafted(command, r, stored[t].thread)]
  <2>1. call.op = "append" /\ Become(c, call)
    BY <1>1 DEF Command
  <2> HIDE DEF call
  <2> QED
    BY <2>1, OneCallMoves
<1>2. ASSUME NEW c \in Callers, NEW t \in Threads, Verify(c, t)
      PROVE  InboxInv'
  <2> DEFINE call == [op |-> "verify", thread |-> t, seen |-> stored[t]]
  <2>1. call.op = "verify" /\ Become(c, call)
    BY <1>2 DEF Verify
  <2> HIDE DEF call
  <2> QED
    BY <2>1, OneCallMoves
<1>3. ASSUME NEW c \in Callers, AppendEvents(c) \/ ReplayVerified(c) \/ Fail(c)
      PROVE  InboxInv'
  BY <1>3, IdleKeeps DEF AppendEvents, ReplayVerified, Fail
<1>4. ASSUME UNCHANGED calls
      PROVE  InboxInv'
  BY <1>4 DEF InboxInv, Shapes, Routed, Fit, WellRouted, ToHandle, HandledOnce, Pending, At
<1>5. ASSUME NEW t \in Threads, NEW r \in Runs,
             \/ StartClaimedRun(t, r) \/ RecordCheckpoint(t, r) \/ FinalizeDelivery(t, r)
             \/ \E outcome \in {"COMPLETED", "FAILED", "QUEUED"} : FinishExecution(t, r, outcome)
      PROVE  UNCHANGED calls
  BY <1>5 DEF StartClaimedRun, RecordCheckpoint, FinalizeDelivery, FinishExecution, Work
<1> QED
  BY <1>1, <1>2, <1>3, <1>4, <1>5 DEF JournalNext

LEMMA InboxStep == InboxInv /\ [InboxNext]_messageVars => InboxInv'
<1> SUFFICES ASSUME InboxInv, [InboxNext]_messageVars
             PROVE  InboxInv'
  OBVIOUS
<1>1. ASSUME NEW c \in Callers, CallNext(c)
      PROVE  InboxInv'
  <2>1. ASSUME NEW m \in Messages, NEW text \in Texts[m],
               \/ Receive(c, m, text, ActiveThreads)
               \/ \E t \in Threads : Receive(c, m, text, {t})
        PROVE  InboxInv'
    <3>1. ActiveThreads \in SUBSET Threads
      BY DEF ActiveThreads
    <3> QED
      BY <2>1, <3>1, ReceiveKeeps
  <2> QED
    BY <1>1, <2>1, PrepareKeeps, AcceptKeeps, HandleKeeps, DecideRouteKeeps, ResolveKeeps
       DEF CallNext
<1>2. CASE JournalNext /\ UNCHANGED <<inbox, handled>>
  BY <1>2, JournalKeeps
<1>3. CASE UNCHANGED messageVars
  BY <1>3 DEF messageVars, InboxInv, Shapes, Routed, Fit, WellRouted, ToHandle,
              HandledOnce, Pending, At
<1> QED
  BY <1>1, <1>2, <1>3 DEF InboxNext

LEMMA InboxInvAlways == InboxSpec => []InboxInv
BY InboxInitially, InboxStep, PTL DEF InboxSpec

-----------------------------------------------------------------------------
(* The theorems.                                                            *)

\* However often a message is delivered and whatever fails, it is handed to the
\* Agent once at most, and only once it is stored.
THEOREM OneHandling == InboxSpec => []HandledOnce
<1>1. InboxInv => HandledOnce
  BY DEF InboxInv
<1> QED
  BY <1>1, InboxInvAlways, PTL

\* Every stored route names what its effect needs: the Thread and the kind of an
\* update, the message's own Thread for a Task, through every correction.
THEOREM RoutesAreFit ==
    InboxSpec => [](\A m \in Messages : inbox[m] # None => WellRouted(m, inbox[m]))
<1>1. InboxInv => \A m \in Messages : inbox[m] # None => WellRouted(m, inbox[m])
  BY DEF InboxInv, Routed, Fit
<1> QED
  BY <1>1, InboxInvAlways, PTL

\* A settled route stays as it is, whoever else found it open.
THEOREM DecisionsStand == InboxSpec => SettledRouteIsFinal
<1> DEFINE Final == \A m \in Messages :
        inbox[m] # None /\ inbox[m].state # "PROPOSED" => inbox'[m] = inbox[m]
<1>1. InboxInv /\ [InboxNext]_messageVars => [Final]_messageVars
  <2> SUFFICES ASSUME InboxInv, InboxNext, NEW m \in Messages,
                      inbox[m] # None, inbox[m].state # "PROPOSED"
               PROVE  inbox'[m] = inbox[m]
    OBVIOUS
  <2>1. ASSUME NEW c \in Callers, AcceptInboxRoute(c)
        PROVE  inbox'[m] = inbox[m]
    <3>1. \/ inbox' = inbox
          \/ /\ inbox[calls[c].message] = None
             /\ inbox' = [inbox EXCEPT ![calls[c].message] = calls[c].record]
      BY <2>1 DEF AcceptInboxRoute
    <3> QED
      BY <3>1 DEF InboxInv, Shapes
  <2>2. ASSUME NEW c \in Callers, ResolveInboxRoute(c)
        PROVE  inbox'[m] = inbox[m]
    <3>1. \/ inbox' = inbox
          \/ /\ inbox[calls[c].message].state = "PROPOSED"
             /\ inbox' = [inbox EXCEPT ![calls[c].message] = calls[c].record]
      BY <2>2 DEF ResolveInboxRoute, StillProposed
    <3> QED
      BY <3>1 DEF InboxInv, Shapes
  <2>3. ASSUME NEW c \in Callers, CallNext(c)
        PROVE  inbox'[m] = inbox[m]
    BY <2>1, <2>2, <2>3 DEF CallNext, Receive, Prepare, Handle, DecideRoute
  <2> QED
    BY <2>3 DEF InboxNext
<1> QED
  BY <1>1, InboxInvAlways, PTL DEF InboxSpec, SettledRouteIsFinal
-----------------------------------------------------------------------------
(* What the effects of messages write.                                      *)

\* The cancellations follow some order of a finite set of Runs.
LEMMA SetToSeqRange ==
    ASSUME NEW S, IsFiniteSet(S)
    PROVE  /\ Cardinality(S) \in Nat
           /\ SetToSeq(S) \in [1..Cardinality(S) -> S]
<1>1. Cardinality(S) \in Nat /\ ExistsBijection(1..Cardinality(S), S)
  BY FS_CardinalityType
<1>2. \E f \in [1..Cardinality(S) -> S] : IsInjective(f)
  BY <1>1 DEF ExistsBijection, Bijection, Injection, IsInjective
<1> QED
  BY <1>1, <1>2 DEF SetToSeq

\* None of the drafts moves the Thread.
Moveless(d) == \A j \in 1..Len(d) : d[j].type # "thread.state_changed"

LEMMA MovelessBoth ==
    ASSUME NEW c \in Seq(Event), NEW d \in Seq(Event), Moveless(c), Moveless(d)
    PROVE  Moveless(c \o d)
<1> SUFFICES ASSUME NEW j \in 1..Len(c \o d)
             PROVE  (c \o d)[j].type # "thread.state_changed"
  BY DEF Moveless
<1>1. CASE j \in 1..Len(c)
  <2>1. (c \o d)[j] = c[j]
    BY <1>1
  <2> QED
    BY <1>1, <2>1 DEF Moveless
<1>2. CASE j \notin 1..Len(c)
  <2>1. j - Len(c) \in 1..Len(d) /\ (c \o d)[j] = d[j - Len(c)]
    BY <1>2
  <2> QED
    BY <2>1 DEF Moveless
<1> QED
  BY <1>1, <1>2

LEMMA CancelDraws ==
    ASSUME NEW a, AggregateOK(a), Exists(a), NEW S \in SUBSET Runs, NEW pending
    PROVE  /\ Draws(CancelEvents(a.thread, S, pending), a, {}, {"thread.attention_changed"})
           /\ Moveless(CancelEvents(a.thread, S, pending))
<1> DEFINE p == a.thread
           K == {"thread.attention_changed"}
           cancelled == {r \in S : OpenRun(p, r)}
           open == SetToSeq(cancelled)
           n == Cardinality(cancelled)
           c == [i \in DOMAIN open |-> RunMoves(open[i], p.runs[open[i]].state, "CANCELLED")]
           d == IF p.attention = "NEEDS_APPROVAL" /\ ~pending
                THEN <<AttentionMoves("NEEDS_APPROVAL", "NONE")>> ELSE << >>
<1>1. p \in ThreadProjection /\ p.runs \in [Runs -> RunProjection] /\ IsFiniteSet(RunsIn(p))
  BY ProjectionFields DEF AggregateOK
<1>2. \A r \in cancelled : r \in Runs /\ r \in RunsIn(p) /\ p.runs[r].state \in RunState
  BY <1>1 DEF OpenRun, HasRun, RunsIn, RunProjection
<1>3. IsFiniteSet(cancelled)
  <2>1. cancelled \subseteq RunsIn(p)
    BY <1>2
  <2> QED
    BY <1>1, <2>1, FS_Subset
<1>4. n \in Nat /\ open \in [1..n -> cancelled]
  BY <1>3, SetToSeqRange
<1> HIDE DEF cancelled, open, n
<1>5. c \in Seq(Event) /\ Moveless(c) /\ \A j \in 1..Len(c) : Plain(c[j])
  <2>1. DOMAIN open = 1..n /\ \A i \in 1..n : open[i] \in cancelled
    BY <1>4
  <2>2. \A i \in 1..n : Plain(RunMoves(open[i], p.runs[open[i]].state, "CANCELLED"))
    BY <1>2, <2>1, PlainMoves DEF RunState
  <2>3. DOMAIN c = 1..n /\ \A i \in 1..n : c[i] \in Event /\ Plain(c[i])
    BY <2>1, <2>2 DEF Plain
  <2>4. c \in [1..n -> Event] /\ \A i \in 1..n : c[i].type = "run.state_changed"
    BY <2>1, <2>3 DEF RunMoves
  <2> HIDE DEF c
  <2>5. c \in Seq(Event) /\ Len(c) = n
    BY <1>4, <2>4
  <2> QED
    BY <2>3, <2>4, <2>5 DEF Moveless
<1>6. Draws(c, a, {}, {})
  BY <1>5, DrawsPlainly
<1>7. Draws(d, a, {}, K)
  <2>1. CASE p.attention = "NEEDS_APPROVAL" /\ ~pending
    <3>1. Draws(<<AttentionMoves(p.attention, "NONE")>>, a, {}, K)
      BY DrawsAttention DEF AttentionState
    <3> QED
      BY <2>1, <3>1
  <2>2. CASE ~(p.attention = "NEEDS_APPROVAL" /\ ~pending)
    <3>1. Draws(<< >>, a, {}, K)
      BY DrawsNothing DEF Draws, Marked, Sourced
    <3>2. d = << >>
      BY <2>2
    <3> QED
      BY <3>1, <3>2
  <2> QED
    BY <2>1, <2>2
<1>8. CancelEvents(p, S, pending) = c \o d
  BY DEF CancelEvents, cancelled, open
<1> HIDE DEF c, d, K
<1>9. Draws(c \o d, a, {} \cup {}, {} \cup K)
  BY <1>6, <1>7, DrawsBoth
<1>10. Draws(c \o d, a, {}, K)
  BY <1>9
<1>11. Moveless(d) /\ d \in Seq(Event)
  <2>1. d \in Seq(Event) /\ Len(d) \in {0, 1} /\ (Len(d) = 1 => d[1].type = "thread.attention_changed")
    BY <1>7 DEF d, AttentionMoves, Draws
  <2> QED
    BY <2>1 DEF Moveless
<1> QED
  BY <1>5, <1>8, <1>10, <1>11, MovelessBoth DEF K

LEMMA TaskDraws ==
    ASSUME NEW m \in Messages, NEW a
    PROVE  Draws(TaskEvents(m), a, {}, {"run.created", "run.snapshots_bound"})
<1> DEFINE r == <<m, "task">>
           e1 == [type |-> "thread.created"]
           e2 == [type |-> "run.created", run |-> r, branch |-> MainBranch]
           e3 == [type |-> "run.snapshots_bound", run |-> r, context |-> <<m>>]
           e4 == RunMoves(r, "CREATED", "QUEUED")
           e5 == ThreadMoves("CREATED", "QUEUED")
           d == <<e1, e2, e3, e4, e5>>
<1>1. r \in Runs /\ MainBranch \in Branches /\ <<m>> \in Seq(Messages)
  BY InboxAssumption
<1>2. e1 \in Event /\ e2 \in Event /\ e3 \in Event
  BY <1>1 DEF Event
<1>3. e1.type = "thread.created" /\ e2.type = "run.created" /\ e3.type = "run.snapshots_bound"
  OBVIOUS
<1>4. Plain(e4) /\ Plain(e5)
  BY <1>1, PlainMoves DEF RunState, ThreadState
<1>5. TaskEvents(m) = d
  BY DEF TaskEvents
<1> HIDE DEF e1, e2, e3, e4, e5
<1>6. /\ d \in Seq(Event) /\ Len(d) = 5
      /\ d[1] = e1 /\ d[2] = e2 /\ d[3] = e3 /\ d[4] = e4 /\ d[5] = e5
      /\ 1..5 = {1, 2, 3, 4, 5}
  BY <1>2, <1>4 DEF Plain
<1> HIDE DEF d
<1>7. \A j \in 1..Len(d) : \/ Plain(d[j])
                           \/ d[j].type \in {"run.created", "run.snapshots_bound"}
  BY <1>2, <1>3, <1>4, <1>6 DEF Plain, Marked, Sourced, Shaping
<1>8. Draws(d, a, {}, {"run.created", "run.snapshots_bound"})
  BY <1>6, <1>7, DrawsWithin DEF Shaping
<1> QED
  BY <1>5, <1>8

LEMMA CancellationDraws ==
    ASSUME NEW a, AggregateOK(a), Exists(a), NEW m \in Messages, NEW pending
    PROVE  /\ Draws(CancellationEvents(m, a.thread, pending), a, {m}, Sourced)
           /\ a.thread.actual \in ThreadState
<1> DEFINE p == a.thread
           b == <<[type |-> "thread.message_appended", message |-> m]>>
           c == IF p.desired = "CANCEL" THEN << >> ELSE <<DesiredMoves(p.desired, "CANCEL")>>
           d == CancelEvents(p, RunsOf(p), pending)
           e == <<ThreadMoves(p.actual, "CANCELLED")>>
           K == {"thread.desired_state_changed"}
           L == {"thread.attention_changed"}
<1>1. p.actual \in ThreadState
  BY ProjectionFields DEF AggregateOK
<1>2. Draws(b, a, {m}, {})
  BY DrawsMessage
<1>3. Draws(c, a, {}, K)
  <2>1. Draws(<<DesiredMoves(p.desired, "CANCEL")>>, a, {}, K)
    BY DrawsDesired DEF DesiredState
  <2>2. Draws(<< >>, a, {}, K)
    BY DrawsNothing DEF Draws, Marked, Sourced
  <2> QED
    BY <2>1, <2>2
<1>4. Draws(d, a, {}, L)
  BY CancelDraws DEF RunsOf
<1>5. Draws(e, a, {}, {})
  BY <1>1, PlainMoves, DrawsPlain DEF ThreadState
<1>6. CancellationEvents(m, p, pending) = b \o c \o d \o e
  BY DEF CancellationEvents
<1>7. K \cap L = {} /\ K \cup L = Sourced /\ Sourced \cap {} = {}
  BY DEF Sourced
<1> HIDE DEF b, c, d, e, K, L
<1>8. Draws(b \o c, a, {m} \cup {}, {} \cup K)
  BY <1>2, <1>3, DrawsBoth
<1>9. Draws(b \o c, a, {m}, K)
  BY <1>8
<1>10. Draws((b \o c) \o d, a, {m} \cup {}, K \cup L)
  BY <1>4, <1>7, <1>9, DrawsBoth
<1>11. Draws(b \o c \o d, a, {m}, Sourced)
  BY <1>7, <1>10
<1>12. Draws((b \o c \o d) \o e, a, {m} \cup {}, Sourced \cup {})
  BY <1>5, <1>11, DrawsBoth
<1>13. Draws(b \o c \o d \o e, a, {m}, Sourced)
  BY <1>12
<1> QED
  BY <1>1, <1>6, <1>13

LEMMA ContextIsASequence ==
    ASSUME NEW a, AggregateOK(a), NEW m \in Messages
    PROVE  Append(Context(a, Basis(a)), m) \in Seq(Messages)
<1>1. Basis(a) \subseteq Runs
  BY DEF Basis, Newest, RunsOf
<1>2. a.context \in [Runs -> Seq(Messages)]
  BY DEF AggregateOK
<1>3. Context(a, Basis(a)) \in Seq(Messages)
  <2>1. CASE Basis(a) = {}
    BY <2>1 DEF Context
  <2>2. CASE Basis(a) # {}
    <3>1. (CHOOSE r \in Basis(a) : TRUE) \in Runs
      BY <1>1, <2>2
    <3> QED
      BY <1>2, <2>2, <3>1 DEF Context
  <2> QED
    BY <2>1, <2>2
<1> QED
  BY <1>3

LEMMA RevisionDrafts ==
    ASSUME NEW seen, AggregateOK(seen), Exists(seen), NEW m \in Messages, NEW b \in Branches
    PROVE  LET r == <<m, "update">>
           IN  /\ [type |-> "thread.branch_forked", branch |-> b, from |-> seen.thread.branch] \in Event
               /\ [type |-> "thread.branch_selected", branch |-> b] \in Event
               /\ [type |-> "run.created", run |-> r, branch |-> b] \in Event
               /\ [type |-> "run.snapshots_bound", run |-> r,
                    context |-> Append(Context(seen, Basis(seen)), m)] \in Event
<1> DEFINE r == <<m, "update">>
           from == seen.thread.branch
           context == Append(Context(seen, Basis(seen)), m)
<1>1. from \in Branches /\ r \in Runs /\ context \in Seq(Messages)
  BY ProjectionFields, InboxAssumption, ContextIsASequence DEF AggregateOK
<1> HIDE DEF r, from, context
<1>2. [type |-> "thread.branch_forked", branch |-> b, from |-> from] \in Event
  BY <1>1 DEF Event
<1>3. [type |-> "thread.branch_selected", branch |-> b] \in Event
  BY <1>1 DEF Event
<1>4. [type |-> "run.created", run |-> r, branch |-> b] \in Event
  BY <1>1 DEF Event
<1>5. [type |-> "run.snapshots_bound", run |-> r, context |-> context] \in Event
  BY <1>1 DEF Event
<1> QED
  BY <1>2, <1>3, <1>4, <1>5 DEF r, from, context

LEMMA RevisionDraws ==
    ASSUME NEW a, AggregateOK(a), Exists(a), NEW seen, AggregateOK(seen), Exists(seen),
           NEW m \in Messages, NEW kind, NEW pending
    PROVE  Draws(RevisionEvents(m, kind, seen, a.thread, pending), a, {m},
                 {"thread.attention_changed"} \cup Shaping)
<1> DEFINE p == a.thread
           old == seen.thread
           branch == IF kind = "METHOD_CHANGE" THEN m ELSE old.branch
           r == <<m, "update">>
           S == {q \in Runs : OpenRun(old, q) /\ old.runs[q].branch = old.branch}
           K == {"thread.attention_changed"}
           selects == {"thread.branch_selected"}
           creates == {"run.created", "run.snapshots_bound"}
           f1 == [type |-> "thread.branch_forked", branch |-> branch, from |-> old.branch]
           f2 == [type |-> "thread.branch_selected", branch |-> branch]
           g1 == [type |-> "run.created", run |-> r, branch |-> branch]
           g2 == [type |-> "run.snapshots_bound", run |-> r,
                  context |-> Append(Context(seen, Basis(seen)), m)]
           g3 == RunMoves(r, "CREATED", "QUEUED")
           b == <<[type |-> "thread.message_appended", message |-> m]>>
           c == CancelEvents(p, S, pending)
           d == IF kind = "METHOD_CHANGE" THEN <<f1, f2>> ELSE << >>
           e == <<g1, g2, g3>>
           h == IF p.actual = "QUEUED" THEN << >> ELSE <<ThreadMoves(p.actual, "QUEUED")>>
<1>1. /\ p.actual \in ThreadState /\ old.branch \in Branches /\ branch \in Branches
      /\ r \in Runs
  BY ProjectionFields, InboxAssumption DEF AggregateOK
<1>2. f1 \in Event /\ f2 \in Event /\ g1 \in Event /\ g2 \in Event
  <2> HIDE DEF branch
  <2> QED
    BY <1>1, RevisionDrafts
<1>3. /\ f1.type = "thread.branch_forked" /\ f2.type = "thread.branch_selected"
      /\ g1.type = "run.created" /\ g2.type = "run.snapshots_bound"
  OBVIOUS
<1>4. Plain(g3)
  BY <1>1, PlainMoves DEF RunState
<1>5. RevisionEvents(m, kind, seen, p, pending) = b \o c \o d \o e \o h
  BY DEF RevisionEvents
<1>6. Draws(b, a, {m}, {})
  BY DrawsMessage
<1>7. Draws(c, a, {}, K)
  BY CancelDraws
<1>8. Draws(h, a, {}, {})
  BY <1>1, DrawsNothing, PlainMoves, DrawsPlain DEF ThreadState
<1> HIDE DEF f1, f2, g1, g2, g3
<1>9. Draws(d, a, {}, selects)
  <2> DEFINE forks == <<f1, f2>>
  <2>1. /\ forks \in Seq(Event) /\ Len(forks) = 2 /\ forks[1] = f1 /\ forks[2] = f2
        /\ 1..2 = {1, 2}
    BY <1>2
  <2> HIDE DEF forks
  <2>2. \A j \in 1..Len(forks) : Plain(forks[j]) \/ forks[j].type \in selects
    BY <1>2, <1>3, <2>1 DEF Plain, Marked, Sourced, Shaping
  <2>3. Draws(forks, a, {}, selects)
    BY <2>1, <2>2, DrawsWithin DEF Shaping
  <2>4. Draws(<< >>, a, {}, selects)
    BY DrawsNothing DEF Draws, Marked, Shaping
  <2> QED
    BY <2>3, <2>4 DEF forks
<1>10. Draws(e, a, {}, creates)
  <2>1. /\ e \in Seq(Event) /\ Len(e) = 3 /\ e[1] = g1 /\ e[2] = g2 /\ e[3] = g3
        /\ 1..3 = {1, 2, 3}
    BY <1>2, <1>4 DEF Plain
  <2> HIDE DEF e
  <2>2. \A j \in 1..Len(e) : Plain(e[j]) \/ e[j].type \in creates
    BY <1>3, <1>4, <2>1
  <2> QED
    BY <2>1, <2>2, DrawsWithin DEF Shaping
<1>a. /\ {} \cap K = {} /\ K \cap selects = {} /\ (K \cup selects) \cap creates = {}
      /\ (K \cup selects \cup creates) \cap {} = {}
      /\ K \cup selects \cup creates = {"thread.attention_changed"} \cup Shaping
  BY DEF Shaping
<1> HIDE DEF b, c, d, e, h, K, selects, creates
<1>11. Draws(b \o c, a, {m} \cup {}, {} \cup K)
  BY <1>6, <1>7, <1>a, DrawsBoth
<1>12. Draws(b \o c, a, {m}, K)
  BY <1>11
<1>13. Draws((b \o c) \o d, a, {m} \cup {}, K \cup selects)
  BY <1>9, <1>12, <1>a, DrawsBoth
<1>14. Draws(b \o c \o d, a, {m}, K \cup selects)
  BY <1>13
<1>15. Draws((b \o c \o d) \o e, a, {m} \cup {}, K \cup selects \cup creates)
  BY <1>10, <1>14, <1>a, DrawsBoth
<1>16. Draws(b \o c \o d \o e, a, {m}, K \cup selects \cup creates)
  BY <1>15
<1>17. Draws((b \o c \o d \o e) \o h, a, {m} \cup {}, K \cup selects \cup creates \cup {})
  BY <1>8, <1>16, <1>a, DrawsBoth
<1>18. Draws(b \o c \o d \o e \o h, a, {m}, K \cup selects \cup creates)
  BY <1>17
<1> QED
  BY <1>5, <1>18, <1>a

-----------------------------------------------------------------------------
(* Effects.                                                                 *)

\* The Thread a call is about to update, as it was when the call read it.
PreparedOn(call, streams) ==
    call.op = "prepared" =>
        /\ Updates(call.record)
        /\ call.record.thread \in Threads
        /\ Exists(call.seen)
        /\ Past(streams[call.record.thread], call.seen)

Prepared == \A c \in Callers : calls[c] # Idle => PreparedOn(calls[c], events)

\* The message is on the Thread its record says, its Task is there, and nothing
\* else is new.
Effected(m, record) ==
    /\ Replayed' /\ EventsTellTheirSource' /\ Grows
    /\ \A t \in Threads :
        /\ stored'[t].updates = stored[t].updates
                \cup (IF Updates(record) /\ record.thread = t THEN {m} ELSE {})
        /\ Exists(stored'[t]) <=> Exists(stored[t]) \/ (Submits(record) /\ m = t)

LEMMA NothingEffected ==
    ASSUME Replayed, EventsTellTheirSource, UNCHANGED <<events, stored>>,
           NEW m, NEW record, ~Updates(record), Submits(record) => Exists(stored[m])
    PROVE  Effected(m, record)
<1>1. Steady
  BY StillIsSteady
<1> QED
  BY <1>1 DEF Steady, Effected

LEMMA SubmitEffected ==
    ASSUME Replayed, EventsTellTheirSource, NEW m \in Messages, NEW record,
           WellRouted(m, record), Submits(record), SubmitTask(m)
    PROVE  Effected(m, record)
<1>1. m \in Threads /\ ~Updates(record)
  <2>1. record.thread = m /\ record.thread \in Threads \cup {None} /\ record.type = "NEW_TASK"
    BY DEF WellRouted, InboxRecord, Submits
  <2> QED
    BY <2>1, InboxAssumption DEF Updates
<1>2. CASE Exists(stored[m])
  <2>1. UNCHANGED <<events, stored>>
    BY <1>2 DEF SubmitTask
  <2> QED
    BY <1>1, <1>2, <2>1, NothingEffected
<1>3. CASE ~Exists(stored[m])
  <2>1. Commit(m, TaskEvents(m))
    BY <1>3 DEF SubmitTask
  <2>2. /\ Draws(TaskEvents(m), stored[m], {}, {"run.created", "run.snapshots_bound"})
        /\ TaskEvents(m) # << >>
    BY TaskDraws DEF TaskEvents
  <2>3. /\ Replayed' /\ EventsTellTheirSource' /\ Grows
        /\ stored'[m].updates = stored[m].updates \cup {}
        /\ Exists(stored'[m])
        /\ \A o \in Threads : o # m => stored'[o] = stored[o]
    BY <1>1, <2>1, <2>2, CommitKeeps
  <2> QED
    BY <1>1, <2>3 DEF Effected
<1> QED
  BY <1>2, <1>3

LEMMA UpdateEffected ==
    ASSUME Replayed, EventsTellTheirSource, NEW m \in Messages, NEW record, Updates(record),
           NEW seen, record.thread \in Threads, Exists(seen),
           Past(events[record.thread], seen), UpdateThread(m, record, seen)
    PROVE  Effected(m, record)
<1> DEFINE t == record.thread
           a == stored[t]
<1>1. a = seen
  <2>1. stored[t].revision = seen.revision
    BY DEF UpdateThread, Current
  <2> QED
    BY <2>1, PastAtRevision
<1>2. AggregateOK(a) /\ Exists(a)
  BY <1>1, StoredIsOK
<1>3. PICK pending \in PendingApprovals(a.thread) :
        \/ Commit(t, CancellationEvents(m, a.thread, pending))
        \/ Commit(t, RevisionEvents(m, record.kind, seen, a.thread, pending))
  BY DEF UpdateThread
<1> DEFINE d == CancellationEvents(m, a.thread, pending)
           e == RevisionEvents(m, record.kind, seen, a.thread, pending)
<1>4. Draws(d, a, {m}, Sourced)
  BY <1>2, CancellationDraws
<1>5. Draws(e, a, {m}, {"thread.attention_changed"} \cup Shaping)
  BY <1>1, <1>2, RevisionDraws
<1>6. ~Submits(record)
  BY DEF Updates, Submits
<1> HIDE DEF d, e, t
<1>7. t \in Threads /\ (Commit(t, d) \/ Commit(t, e))
  BY <1>3 DEF d, e, t
<1>8. /\ Replayed' /\ EventsTellTheirSource' /\ Grows
      /\ stored'[t].updates = stored[t].updates \cup {m}
      /\ Exists(stored'[t])
      /\ \A o \in Threads : o # t => stored'[o] = stored[o]
  BY <1>2, <1>4, <1>5, <1>7, CommitKeeps
<1> QED
  BY <1>2, <1>6, <1>7, <1>8 DEF Effected, t

\* The effect of a record about to be stored.
LEMMA EffectEffected ==
    ASSUME Replayed, EventsTellTheirSource, InboxInv, Prepared, NEW c \in Callers, Ready(c),
           Effect(calls[c].message, calls[c].record, Seen(c))
    PROVE  Effected(calls[c].message, calls[c].record)
<1> DEFINE m == calls[c].message
           record == calls[c].record
<1>1. m \in Messages /\ WellRouted(m, record)
  BY ReadyIsFit DEF Fit
<1>2. ~(Submits(record) /\ Updates(record))
  BY DEF Submits, Updates
<1>3. CASE Submits(record)
  <2>1. SubmitTask(m)
    BY <1>2, <1>3 DEF Effect
  <2> QED
    BY <1>1, <1>3, <2>1, SubmitEffected
<1>4. CASE Updates(record)
  <2>1. At(c, "prepared") /\ Seen(c) = calls[c].seen
    BY <1>4 DEF Ready, Seen
  <2>2. PreparedOn(calls[c], events) /\ calls[c].op = "prepared"
    BY <2>1 DEF Prepared, At
  <2>3. UpdateThread(m, record, calls[c].seen)
    BY <1>2, <1>4, <2>1 DEF Effect
  <2>4. /\ record.thread \in Threads /\ Exists(calls[c].seen)
        /\ Past(events[record.thread], calls[c].seen)
    BY <2>2 DEF PreparedOn
  <2> QED
    BY <1>1, <1>4, <2>3, <2>4, UpdateEffected
<1>5. CASE ~Submits(record) /\ ~Updates(record)
  <2>1. UNCHANGED <<events, stored>>
    BY <1>5 DEF Effect
  <2> QED
    BY <1>5, <2>1, NothingEffected
<1> QED
  BY <1>3, <1>4, <1>5
-----------------------------------------------------------------------------
(* The inductive invariant of journal and inbox together.                   *)

Told(m, t) == inbox[m] # None /\ Updates(inbox[m]) /\ inbox[m].thread = t
Started(m) == inbox[m] # None /\ Submits(inbox[m])

\* EffectAsRecorded, message by message and Thread by Thread.
Recorded == \A m \in Messages :
    /\ \A t \in Threads : m \in stored[t].updates <=> Told(m, t)
    /\ m \in Threads => (Exists(stored[m]) <=> Started(m))

LEMMA RecordedIsEffect == Recorded => EffectAsRecorded
  BY DEF Recorded, EffectAsRecorded, Told, Started, Updates, Submits

StoryInv == InboxInv /\ JournalInv /\ Prepared /\ Recorded

LEMMA StoryInitially == InboxInit => StoryInv
<1> SUFFICES ASSUME InboxInit PROVE StoryInv
  OBVIOUS
<1>1. InboxInv /\ JournalInv
  BY InboxInitially, JournalInitially DEF InboxInit
<1>2. Prepared
  BY DEF InboxInit, JournalInit, Prepared
<1>3. Recorded
  BY InboxAssumption, EmptyFields DEF InboxInit, JournalInit, Recorded, Told, Started, Exists
<1> QED
  BY <1>1, <1>2, <1>3 DEF StoryInv

LEMMA PreparedStays ==
    ASSUME Grows, NEW call, PreparedOn(call, events)
    PROVE  PreparedOn(call, events')
  BY PastStays DEF PreparedOn

\* One caller moves on; what all of them have read stays true.
LEMMA CallersKeep ==
    ASSUME Reads, Prepared, Grows, NEW c \in Callers, NEW call, Become(c, call),
           call # Idle => TrueCall(call, events') /\ PreparedOn(call, events')
    PROVE  Reads' /\ Prepared'
<1>1. Reads'
  BY ReadsMove
<1>2. /\ calls'[c] = call
      /\ \A d \in Callers : d # c => calls'[d] = calls[d]
  BY DEF Reads, Become
<1>3. ASSUME NEW d \in Callers, calls'[d] # Idle
      PROVE  PreparedOn(calls'[d], events')
  <2>1. CASE d = c
    BY <1>2, <1>3, <2>1
  <2>2. CASE d # c
    <3>1. calls'[d] = calls[d] /\ PreparedOn(calls[d], events)
      BY <1>2, <1>3, <2>2 DEF Prepared
    <3> QED
      BY <3>1, PreparedStays
  <2> QED
    BY <2>1, <2>2
<1> QED
  BY <1>1, <1>3 DEF Prepared

LEMMA RecordedKept ==
    ASSUME Recorded, Steady, UNCHANGED inbox
    PROVE  Recorded'
  BY InboxAssumption DEF Recorded, Steady, Told, Started

\* A settled record is stored with its effect.
LEMMA RecordedWithEffect ==
    ASSUME Recorded, Shapes, NEW m \in Messages, NEW record, record # None,
           inbox[m] # None => ~Settled(inbox[m]),
           inbox' = [inbox EXCEPT ![m] = record], Effected(m, record)
    PROVE  Recorded'
<1>1. /\ inbox'[m] = record
      /\ \A n \in Messages : n # m => inbox'[n] = inbox[n]
  BY DEF Shapes
<1>2. /\ \A t \in Threads : ~Told(m, t)
      /\ ~Started(m)
  BY DEF Told, Started, Updates, Submits
<1>3. \A t \in Threads : m \in stored'[t].updates <=> Told(m, t)'
  BY <1>1, <1>2 DEF Recorded, Effected, Told
<1>4. \A n \in Messages \ {m} : \A t \in Threads : n \in stored'[t].updates <=> Told(n, t)'
  <2> SUFFICES ASSUME NEW n \in Messages \ {m}, NEW t \in Threads
               PROVE  n \in stored'[t].updates <=> Told(n, t)'
    OBVIOUS
  <2>1. Told(n, t)' <=> Told(n, t)
    BY <1>1 DEF Told
  <2>2. n \in stored'[t].updates <=> n \in stored[t].updates
    BY DEF Effected
  <2> QED
    BY <2>1, <2>2 DEF Recorded
<1>5. m \in Threads => (Exists(stored'[m]) <=> Started(m)')
  BY <1>1, <1>2 DEF Recorded, Effected, Started
<1>6. \A n \in Messages \ {m} : n \in Threads => (Exists(stored'[n]) <=> Started(n)')
  <2> SUFFICES ASSUME NEW n \in Messages \ {m}, n \in Threads
               PROVE  Exists(stored'[n]) <=> Started(n)'
    OBVIOUS
  <2>1. Started(n)' <=> Started(n)
    BY <1>1 DEF Started
  <2>2. Exists(stored'[n]) <=> Exists(stored[n])
    BY DEF Effected
  <2> QED
    BY <2>1, <2>2 DEF Recorded
<1> QED
  BY <1>3, <1>4, <1>5, <1>6 DEF Recorded

-----------------------------------------------------------------------------
(* Its steps.                                                               *)

\* A call that stores nothing.
LEMMA QuietCallKeeps ==
    ASSUME StoryInv, NEW c \in Callers, NEW call, Become(c, call),
           UNCHANGED <<events, stored, inbox>>,
           call # Idle => /\ call.op \notin {"verify", "append"}
                          /\ PreparedOn(call, events)
    PROVE  JournalInv' /\ Prepared' /\ Recorded'
<1>1. Steady /\ Grows
  BY StillIsSteady DEF StoryInv, JournalInv, Steady
<1>2. Recorded'
  BY <1>1, RecordedKept DEF StoryInv
<1>3. Reads' /\ Prepared'
  BY <1>1, CallersKeep DEF StoryInv, JournalInv, TrueCall
<1> QED
  BY <1>1, <1>2, <1>3 DEF Steady, JournalInv

LEMMA QuietStepsKeep ==
    ASSUME StoryInv, NEW c \in Callers,
           \/ \E m \in Messages : \E text \in Texts[m] : \E candidates \in SUBSET Threads :
                    Receive(c, m, text, candidates)
           \/ Prepare(c)
           \/ Handle(c)
           \/ \E m \in Messages : DecideRoute(c, m)
    PROVE  JournalInv' /\ Prepared' /\ Recorded'
<1>1. ASSUME NEW m, NEW record,
             Become(c, [op |-> "routed", message |-> m, record |-> record]),
             UNCHANGED <<events, stored, inbox>>
      PROVE  JournalInv' /\ Prepared' /\ Recorded'
  <2> DEFINE call == [op |-> "routed", message |-> m, record |-> record]
  <2>1. call.op = "routed" /\ Become(c, call)
    BY <1>1
  <2> HIDE DEF call
  <2> QED
    BY <1>1, <2>1, QuietCallKeeps DEF PreparedOn
<1>2. ASSUME NEW m, NEW text, NEW candidates, Receive(c, m, text, candidates)
      PROVE  JournalInv' /\ Prepared' /\ Recorded'
  BY <1>1, <1>2 DEF Receive
<1>3. ASSUME NEW m, DecideRoute(c, m)
      PROVE  JournalInv' /\ Prepared' /\ Recorded'
  BY <1>1, <1>3 DEF DecideRoute
<1>4. CASE Handle(c)
  BY <1>4, QuietCallKeeps DEF Handle
<1>5. CASE Prepare(c)
  <2> DEFINE t == calls[c].record.thread
             call == [op |-> "prepared", message |-> calls[c].message,
                      record |-> calls[c].record, seen |-> stored[t]]
  <2>1. /\ Updates(calls[c].record) /\ Exists(stored[t]) /\ Become(c, call)
        /\ UNCHANGED <<events, stored, inbox>>
    BY <1>5 DEF Prepare
  <2>2. t \in Threads
    <3>1. WellRouted(calls[c].message, calls[c].record)
      BY <1>5 DEF StoryInv, InboxInv, Routed, Pending, Prepare, Fit
    <3> QED
      BY <2>1, <3>1 DEF WellRouted, InboxRecord
  <2>3. Past(events[t], stored[t])
    BY <2>2, StoredIsPast DEF StoryInv, JournalInv
  <2>4. call.op = "prepared" /\ call.record = calls[c].record /\ call.seen = stored[t]
    OBVIOUS
  <2> HIDE DEF call
  <2>5. PreparedOn(call, events)
    BY <2>1, <2>2, <2>3, <2>4 DEF PreparedOn
  <2> QED
    BY <2>1, <2>4, <2>5, QuietCallKeeps
<1> QED
  BY <1>2, <1>3, <1>4, <1>5

\* A record is stored with its effect, by whoever finds the route still open.
LEMMA StoringKeeps ==
    ASSUME StoryInv, NEW c \in Callers, AcceptInboxRoute(c) \/ ResolveInboxRoute(c)
    PROVE  JournalInv' /\ Prepared' /\ Recorded'
<1> DEFINE m == calls[c].message
           record == calls[c].record
           call == [op |-> "handle", message |-> m]
<1>1. Ready(c)
  BY DEF AcceptInboxRoute, ResolveInboxRoute
<1>2. m \in Messages /\ Fit(m, record) /\ record # None
  BY <1>1, ReadyIsFit DEF StoryInv
<1>3. call.op = "handle"
  OBVIOUS
<1>4. \/ UNCHANGED <<events, stored, inbox>> /\ Become(c, Idle)
      \/ /\ inbox[m] # None => ~Settled(inbox[m])
         /\ inbox' = [inbox EXCEPT ![m] = record]
         /\ Effect(m, record, Seen(c))
         /\ Become(c, call) \/ Become(c, Idle)
  BY DEF AcceptInboxRoute, ResolveInboxRoute, StillProposed, Settled, AfterDuplicate
<1> HIDE DEF call
<1>5. CASE UNCHANGED <<events, stored, inbox>> /\ Become(c, Idle)
  BY <1>5, QuietCallKeeps
<1>6. CASE /\ inbox[m] # None => ~Settled(inbox[m])
           /\ inbox' = [inbox EXCEPT ![m] = record]
           /\ Effect(m, record, Seen(c))
           /\ Become(c, call) \/ Become(c, Idle)
  <2>1. Effected(m, record)
    BY <1>1, <1>6, EffectEffected DEF StoryInv, JournalInv
  <2> HIDE DEF m, record
  <2>2. Recorded'
    BY <1>2, <1>6, <2>1, RecordedWithEffect DEF StoryInv, InboxInv
  <2>3. Replayed' /\ EventsTellTheirSource' /\ Grows
    BY <2>1 DEF Effected
  <2>4. Reads' /\ Prepared'
    BY <1>3, <1>6, <2>3, CallersKeep DEF StoryInv, JournalInv, TrueCall, PreparedOn
  <2> QED
    BY <2>2, <2>3, <2>4 DEF JournalInv
<1> QED
  BY <1>4, <1>5, <1>6

LEMMA JournalStepKeeps ==
    ASSUME StoryInv, JournalNext, UNCHANGED <<inbox, handled>>
    PROVE  JournalInv' /\ Prepared' /\ Recorded'
<1>1. JournalInv' /\ Steady /\ Hands
  BY JournalStep DEF StoryInv
<1>2. Recorded'
  BY <1>1, RecordedKept DEF StoryInv
<1>3. ASSUME NEW d \in Callers, calls'[d] # Idle
      PROVE  PreparedOn(calls'[d], events')
  <2>1. CASE calls'[d] = calls[d]
    <3>1. PreparedOn(calls[d], events)
      BY <1>3, <2>1 DEF StoryInv, Prepared
    <3> QED
      BY <1>1, <2>1, <3>1, PreparedStays DEF Steady
  <2>2. CASE calls'[d].op \in {"append", "verify"}
    BY <2>2 DEF PreparedOn
  <2> QED
    BY <1>1, <1>3, <2>1, <2>2 DEF Hands
<1> QED
  BY <1>1, <1>2, <1>3 DEF Prepared

LEMMA StoryStep == StoryInv /\ [InboxNext]_messageVars => StoryInv'
<1> SUFFICES ASSUME StoryInv, [InboxNext]_messageVars
             PROVE  JournalInv' /\ Prepared' /\ Recorded'
  BY InboxStep DEF StoryInv
<1>1. ASSUME NEW c \in Callers, CallNext(c)
      PROVE  JournalInv' /\ Prepared' /\ Recorded'
  <2>1. ActiveThreads \in SUBSET Threads /\ \A t \in Threads : {t} \in SUBSET Threads
    BY DEF ActiveThreads
  <2> QED
    BY <1>1, <2>1, QuietStepsKeep, StoringKeeps DEF CallNext
<1>2. CASE JournalNext /\ UNCHANGED <<inbox, handled>>
  BY <1>2, JournalStepKeeps
<1>3. CASE UNCHANGED messageVars
  <2>1. Steady /\ UNCHANGED calls /\ UNCHANGED inbox /\ UNCHANGED events
    BY <1>3, StillIsSteady DEF messageVars, StoryInv, JournalInv
  <2>2. JournalInv'
    BY <2>1, ReadsKept DEF StoryInv, JournalInv, Steady
  <2>3. Recorded'
    BY <2>1, RecordedKept DEF StoryInv
  <2>4. Prepared'
    BY <2>1 DEF StoryInv, Prepared
  <2> QED
    BY <2>2, <2>3, <2>4
<1> QED
  BY <1>1, <1>2, <1>3 DEF InboxNext

LEMMA StoryAlways == InboxSpec => []StoryInv
  BY StoryInitially, StoryStep, PTL DEF InboxSpec

-----------------------------------------------------------------------------
(* Theorems about messages and the journal.                                 *)

\* Streams are streams of events, what they replay to is a Thread, and every
\* route, stored or about to be, is well formed.
THEOREM InboxTypeCorrect == InboxSpec => []InboxTypeOK
<1>1. StoryInv => InboxTypeOK
  <2> SUFFICES ASSUME StoryInv PROVE InboxTypeOK
    OBVIOUS
  <2>1. events \in [Threads -> Seq(Event)]
    BY DEF StoryInv, JournalInv, Replayed
  <2>2. \A t \in Threads : Exists(stored[t]) => stored[t].thread \in ThreadProjection
    BY StoredIsOK DEF StoryInv, JournalInv, AggregateOK
  <2>3. \A m \in Messages : inbox[m] # None => WellRouted(m, inbox[m])
    BY DEF StoryInv, InboxInv, Routed, Fit
  <2>4. \A c \in Callers : At(c, "routed") \/ At(c, "prepared") =>
            WellRouted(calls[c].message, calls[c].record)
    BY DEF StoryInv, InboxInv, Routed, Fit, Pending
  <2>5. handled \in [Messages -> Nat]
    BY DEF StoryInv, InboxInv, Shapes
  <2> QED
    BY <2>1, <2>2, <2>3, <2>4, <2>5 DEF InboxTypeOK
<1> QED
  BY <1>1, StoryAlways, PTL

\* The stored projection is what the whole stream replays to, whatever commands,
\* Workers and messages were interleaved to write it; and a replay check that
\* reports a difference has read two states of a Thread.
THEOREM StoredIsReplayed == InboxSpec => []ProjectionsReplay
<1>1. StoryInv => ProjectionsReplay
  BY ReplaysAgree DEF StoryInv
<1> QED
  BY <1>1, StoryAlways, PTL

\* Every change of desired state or attention in the journal names the state it
\* left, though the reducer does not ask and the command read it in another
\* transaction: the expected revision and the drafts see to it.
THEOREM JournalIsTrue == InboxSpec => []EventsTellTheirSource
<1>1. StoryInv => EventsTellTheirSource
  BY DEF StoryInv, JournalInv
<1> QED
  BY <1>1, StoryAlways, PTL

\* A message is in the Thread its settled route names and in no other, and a
\* Task exists just when its message's settled route says so: whichever of two
\* decisions was stored, its effect and only its effect was.
THEOREM EffectsAsRecorded == InboxSpec => []EffectAsRecorded
<1>1. StoryInv => EffectAsRecorded
  BY RecordedIsEffect DEF StoryInv
<1> QED
  BY <1>1, StoryAlways, PTL
=============================================================================
