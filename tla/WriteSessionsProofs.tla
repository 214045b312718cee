------------------------ MODULE WriteSessionsProofs ------------------------
(***************************************************************************)
(* Theorems about WriteSessions for any connections, libraries, plans and  *)
(* subscribers.                                                            *)
(***************************************************************************)
EXTENDS WriteSessions, FiniteSetTheorems, SequenceTheorems, TLAPS

-----------------------------------------------------------------------------
(* Type correctness.                                                       *)

Box == [events : Seq(Event), lagged : BOOLEAN]

InboxOK ==
    /\ inbox \in [Follower -> Box]
    /\ \A f \in Follower : Len(inbox[f].events) <= Capacity

\* A receiver takes an event and stays within its capacity.
LEMMA PushedType ==
    ASSUME NEW box \in Box, Len(box.events) <= Capacity, NEW event \in Event
    PROVE  Pushed(box, event) \in Box /\ Len(Pushed(box, event).events) <= Capacity
<1> DEFINE s == box.events
<1>1. s \in Seq(Event) /\ Len(s) \in Nat
    BY DEF Box
<1>2. CASE Len(s) < Capacity
    <2>1. Append(s, event) \in Seq(Event) /\ Len(Append(s, event)) = Len(s) + 1
        BY <1>1
    <2> QED
        BY <1>1, <1>2, <2>1, WriteSessionsAssumption DEF Pushed, Box
<1>3. CASE ~(Len(s) < Capacity)
    <2>1. s # <<>>
        BY <1>1, <1>3, WriteSessionsAssumption
    <2>2. Tail(s) \in Seq(Event) /\ Len(Tail(s)) = Len(s) - 1
        BY <1>1, <2>1, HeadTailProperties
    <2>3. /\ Append(Tail(s), event) \in Seq(Event)
          /\ Len(Append(Tail(s), event)) = Len(s)
        BY <1>1, <2>2
    <2> QED
        BY <1>1, <1>3, <2>3 DEF Pushed, Box
<1> QED
    BY <1>2, <1>3

LEMMA PublishType ==
    ASSUME InboxOK, NEW event \in Event, Publish(event)
    PROVE  InboxOK'
BY PushedType DEF Publish, InboxOK

LEMMA StateType == \A s \in Sources : Resolve(s) \in DaemonState
BY DEF Resolve, DaemonState

LEMMA EventType ==
    /\ \A s \in DaemonState : [channel |-> "daemon.state", state |-> s] \in Event
    /\ \A p \in BOOLEAN : [channel |-> "mcp.availability", paused |-> p] \in Event
    /\ \A l \in Library : [channel |-> "library.changed", lib |-> l] \in Event
BY DEF Event

LEMMA UpdateSourcesType ==
    ASSUME InboxOK, NEW s \in Sources, UpdateSources(s)
    PROVE  InboxOK' /\ sources' \in Sources
<1>1. CASE Resolve(s) = Resolve(sources)
    BY <1>1 DEF UpdateSources, InboxOK
<1>2. CASE Resolve(s) # Resolve(sources)
    BY <1>2, PublishType, StateType, EventType DEF UpdateSources
<1> QED
    BY <1>1, <1>2 DEF UpdateSources

\* What a subscriber makes of an event is a view.
LEMMA HeardType ==
    ASSUME NEW v \in View, NEW event \in Event
    PROVE  Heard(v, event) \in View
<1>1. CASE event \in [channel : {"daemon.state"}, state : DaemonState]
    BY <1>1 DEF Heard, View
<1>2. CASE event \in [channel : {"mcp.availability"}, paused : BOOLEAN]
    BY <1>2 DEF Heard, View
<1>3. CASE event \in [channel : {"library.changed"}, lib : Library]
    BY <1>3 DEF Heard, View
<1> QED
    BY <1>1, <1>2, <1>3 DEF Event

\* A call beyond its start has a plan of its own or a target to act on.
CallOK ==
    /\ call \in [Client -> Call]
    /\ \A c \in Client : call[c].pc # "idle" => call[c].target \in Plan

\* TypeOK in the parts its proof works with.
Types ==
    /\ TypeOK
    /\ InboxOK
    /\ CallOK

LEMMA NoCallType == NoCall \in Call
BY DEF NoCall, Call, CallPc, Op, NoPlan

LEMMA BackgroundType ==
    ASSUME requests \in 0..MaxRequests, Background
    PROVE  requests' \in 0..MaxRequests
BY WriteSessionsAssumption DEF Background

LEMMA GotoType ==
    ASSUME CallOK, NEW c \in Client, call[c].pc # "idle", NEW pc \in CallPc, Goto(c, pc)
    PROVE  CallOK'
BY DEF Goto, CallOK, Call

LEMMA EndCallType ==
    ASSUME CallOK, NEW c \in Client, call' = [call EXCEPT ![c] = NoCall]
    PROVE  CallOK'
BY NoCallType DEF CallOK, NoCall

\* Nothing of the registry of plans moves in most steps.
LEMMA PlansUnchanged ==
    ASSUME TypeOK, UNCHANGED planVars
    PROVE  /\ plans' \in [PlanId -> Plan \cup {NoPlan}]
           /\ table' \subseteq PlanId /\ expired' \subseteq PlanId
           /\ redeemed' \in [PlanId -> Nat]
BY DEF planVars, TypeOK

\* The background of the sessions: state changes and expiry.
LEMMA BackgroundStepType ==
    ASSUME Types,
           ToggleSource \/ SetStopping \/ BroadcastShutdown \/ (\E id \in PlanId : Expire(id))
    PROVE  Types'
<1>1. CASE ToggleSource
    <2>1. PICK s \in Sources : UpdateSources(s)
        BY <1>1 DEF ToggleSource, Types, TypeOK, Sources
    <2>2. InboxOK' /\ sources' \in Sources
        BY <2>1, UpdateSourcesType DEF Types
    <2> QED
        BY <1>1, <2>2, BackgroundType, PlansUnchanged DEF ToggleSource, Types, TypeOK, InboxOK, CallOK, Box
<1>2. CASE SetStopping
    <2>1. PICK s \in Sources : UpdateSources(s)
        BY <1>2 DEF SetStopping, Types, TypeOK, Sources
    <2>2. InboxOK' /\ sources' \in Sources
        BY <2>1, UpdateSourcesType DEF Types
    <2> QED
        BY <1>2, <2>2, BackgroundType, PlansUnchanged DEF SetStopping, Types, TypeOK, InboxOK, CallOK, Box
<1>3. CASE BroadcastShutdown
    BY <1>3, PlansUnchanged DEF BroadcastShutdown, streamVars, Types, TypeOK, InboxOK, CallOK
<1>4. ASSUME NEW id \in PlanId, Expire(id) PROVE Types'
    BY <1>4 DEF Expire, streamVars, Types, TypeOK, InboxOK, CallOK
<1> QED
    BY <1>1, <1>2, <1>3, <1>4

\* A request as it comes in, and its connection going away.
LEMMA OpenType ==
    ASSUME Types, NEW c \in Client, NEW op \in Op, NEW target \in Plan, Open(c, op, target)
    PROVE  Types'
<1>1. CallOK'
    BY DEF Open, Begin, Types, CallOK, Call, NoCall, CallPc, Session, Op
<1> QED
    BY <1>1, BackgroundType, PlansUnchanged
        DEF Open, Issue, Begin, streamVars, Types, TypeOK, InboxOK, CallOK

LEMMA ExecuteType ==
    ASSUME Types, NEW c \in Client, NEW id \in PlanId, NEW target \in Plan, Execute(c, id, target)
    PROVE  Types'
<1>1. CallOK'
    <2>1. CASE Redeems(id, target)
        <3>1. [NoCall EXCEPT !.pc = "taken", !.op = "execute", !.target = target] \in Call
            BY DEF Call, NoCall, CallPc, Op
        <3> QED
            BY <2>1, <3>1 DEF Execute, Types, CallOK, NoCall
    <2>2. CASE ~Redeems(id, target)
        BY <2>2 DEF Execute, Types, CallOK
    <2> QED
        BY <2>1, <2>2
<1>2. redeemed' \in [PlanId -> Nat] /\ table' \subseteq PlanId
    BY DEF Execute, Taken, Types, TypeOK
<1> QED
    BY <1>1, <1>2, BackgroundType DEF Execute, Issue, streamVars, Types, TypeOK, InboxOK, CallOK

LEMMA DisconnectType ==
    ASSUME Types, NEW c \in Client, Disconnect(c)
    PROVE  Types'
<1>1. CallOK'
    BY DEF Disconnect, Types, CallOK, Call
<1> QED
    BY <1>1, BackgroundType, PlansUnchanged
        DEF Disconnect, streamVars, Types, TypeOK, InboxOK, CallOK

\* A session's steps.
LEMMA SessionStepType ==
    ASSUME Types, NEW c \in Client, SessionStep(c)
    PROVE  Types'
<1> USE DEF streamVars, Types, TypeOK, CallPc, Session
<1>1. CASE OpenWithPlan(c)
    <2>1. CASE holder = NoClient
        <3>1. CallOK'
            BY <1>1, <2>1, GotoType DEF OpenWithPlan, Goto
        <3> QED
            BY <1>1, <2>1, <3>1, PlansUnchanged DEF OpenWithPlan, InboxOK, CallOK
    <2>2. CASE holder # NoClient
        BY <1>1, <2>2, PlansUnchanged, EndCallType DEF OpenWithPlan, InboxOK, CallOK
    <2> QED
        BY <2>1, <2>2
<1>2. CASE Raise(c) \/ Lower(c)
    <2>1. PICK s \in Sources : UpdateSources(s)
        BY <1>2 DEF Raise, Lower, Sources
    <2>2. InboxOK' /\ sources' \in Sources
        BY <2>1, UpdateSourcesType
    <2>3. CallOK'
        BY <1>2, GotoType DEF Raise, Lower
    <2> QED
        BY <1>2, <2>2, <2>3, PlansUnchanged DEF Raise, Lower, InboxOK, CallOK, Box
<1>3. CASE AnnouncePause(c) \/ AnnounceResume(c) \/ AnnounceChange(c)
    <2>1. PICK event \in Event : Publish(event)
        BY <1>3, EventType DEF AnnouncePause, AnnounceResume, AnnounceChange, CallOK, Plan
    <2>2. InboxOK'
        BY <2>1, PublishType
    <2>3. CallOK'
        BY <1>3, GotoType DEF AnnouncePause, AnnounceResume, AnnounceChange
    <2> QED
        BY <1>3, <2>2, <2>3, PlansUnchanged
            DEF AnnouncePause, AnnounceResume, AnnounceChange, InboxOK, CallOK, Box
<1>4. CASE Preview(c) \/ Fail(c)
    <2>1. CallOK'
        BY <1>4, GotoType DEF Preview, Fail
    <2> QED
        BY <1>4, <2>1, PlansUnchanged DEF Preview, Fail, InboxOK, CallOK
<1>5. CASE Register(c)
    <2> DEFINE id == Cardinality(Issued) + 1
    <2>1. CallOK'
        BY <1>5, GotoType DEF Register
    <2>2. id \in PlanId /\ plans' = [plans EXCEPT ![id] = call[c].target]
          /\ table' = (table \ expired) \cup {id}
        BY <1>5 DEF Register
    <2>3. plans' \in [PlanId -> Plan \cup {NoPlan}] /\ table' \subseteq PlanId
        BY <2>2 DEF CallOK, Call
    <2> QED
        BY <1>5, <2>1, <2>3 DEF Register, InboxOK, CallOK
<1>6. CASE Perform(c)
    <2>1. CallOK'
        BY <1>6, GotoType DEF Perform
    <2>2. call[c].target.lib \in Library
        BY <1>6 DEF Perform, CallOK, Plan
    <2>3. view' \in [Follower -> View]
        BY <1>6, <2>2 DEF Perform, View
    <2> QED
        BY <1>6, <2>1, <2>3, PlansUnchanged DEF Perform, InboxOK, CallOK
<1>7. CASE Unlock(c)
    BY <1>7, EndCallType, PlansUnchanged DEF Unlock, InboxOK, CallOK
<1> QED
    BY <1>1, <1>2, <1>3, <1>4, <1>5, <1>6, <1>7 DEF SessionStep

\* A subscriber's steps.
FollowerNext(f) ==
    \/ Subscribe(f) \/ SnapshotState(f) \/ SnapshotLibrary(f) \/ SnapshotPaused(f)
    \/ Deliver(f) \/ DeliverLag(f) \/ Close(f)

LEMMA FollowerNextType ==
    ASSUME Types, NEW f \in Follower, FollowerNext(f)
    PROVE  Types'
<1>1. view' \in [Follower -> View] /\ InboxOK'
    <2> USE DEF Types, TypeOK, InboxOK, Box
    <2>1. CASE Subscribe(f)
        BY <2>1 DEF Subscribe, View
    <2>2. CASE SnapshotState(f)
        BY <2>2, StateType DEF SnapshotState, View
    <2>3. CASE SnapshotLibrary(f)
        BY <2>3 DEF SnapshotLibrary, View
    <2>4. CASE SnapshotPaused(f)
        <3> DEFINE lowering == \E c \in Client : call[c].pc = "lower"
        <3>1. lowering \in BOOLEAN
            OBVIOUS
        <3>2. /\ view' = [view EXCEPT ![f].pc = "following", ![f].paused = sources.write,
                                      ![f].late = lowering]
              /\ inbox' = inbox
            BY <2>4 DEF SnapshotPaused
        <3>3. sources.write \in BOOLEAN
            BY DEF Sources
        <3> HIDE DEF lowering
        <3> QED
            BY <3>1, <3>2, <3>3 DEF View
    <2>5. CASE Deliver(f)
        <3> DEFINE s == inbox[f].events
        <3>1. /\ Head(s) \in Event /\ Tail(s) \in Seq(Event)
              /\ Len(Tail(s)) = Len(s) - 1 /\ Len(s) \in Nat
            BY <2>5, HeadTailProperties DEF Deliver
        <3>2. view' \in [Follower -> View]
            BY <2>5, <3>1, HeardType DEF Deliver
        <3>3. inbox' = [inbox EXCEPT ![f] = [@ EXCEPT !.events = Tail(s)]]
            BY <2>5 DEF Deliver
        <3>4. Len(Tail(s)) <= Capacity
            BY <3>1, WriteSessionsAssumption
        <3> HIDE DEF s
        <3> QED
            BY <3>1, <3>2, <3>3, <3>4
    <2>6. CASE DeliverLag(f)
        BY <2>6 DEF DeliverLag, View
    <2>7. CASE Close(f)
        <3>1. <<>> \in Seq(Event) /\ Len(<<>>) = 0 /\ 0 <= Capacity
            BY WriteSessionsAssumption, EmptySeq
        <3>2. view' \in [Follower -> View]
            BY <2>7 DEF Close, View
        <3> QED
            BY <2>7, <3>1, <3>2 DEF Close
    <2> QED
        BY <2>1, <2>2, <2>3, <2>4, <2>5, <2>6, <2>7 DEF FollowerNext
<1>2. FollowerStep
    BY DEF FollowerNext, Subscribe, SnapshotState, SnapshotLibrary, SnapshotPaused, Deliver,
        DeliverLag, Close
<1> QED
    BY <1>1, <1>2, PlansUnchanged DEF FollowerStep, Types, TypeOK, InboxOK, CallOK, Box

LEMMA TypeInit == Init => Types
<1> SUFFICES ASSUME Init PROVE Types
    OBVIOUS
<1>1. <<>> \in Seq(Event) /\ Len(<<>>) = 0 /\ 0 <= Capacity /\ 0 \in 0..MaxRequests
    BY EmptySeq, WriteSessionsAssumption
<1>2. InboxOK
    BY <1>1 DEF Init, InboxOK, Box, Empty
<1>3. view \in [Follower -> View]
    BY DEF Init, Unsubscribed, View, DaemonState
<1>4. CallOK
    BY NoCallType DEF Init, CallOK, NoCall
<1>5. sources \in Sources
    BY DEF Init, Sources
<1> QED
    BY <1>1, <1>2, <1>3, <1>4, <1>5 DEF Init, Types, TypeOK, InboxOK, CallOK, Box

LEMMA TypeStep == Types /\ [Next]_vars => Types'
<1> SUFFICES ASSUME Types, [Next]_vars PROVE Types'
    OBVIOUS
<1>1. CASE UNCHANGED vars
    BY <1>1 DEF vars, planVars, streamVars, Types, TypeOK, InboxOK, CallOK
<1>2. CASE Next
    BY <1>2, BackgroundStepType, OpenType, ExecuteType, DisconnectType, SessionStepType,
        FollowerNextType DEF Next, FollowerNext
<1> QED
    BY <1>1, <1>2

\* Every variable keeps its type (TypeOK): in particular no receiver holds more
\* than its capacity.
THEOREM TypeCorrect == Spec => []TypeOK
<1>1. Types => TypeOK
    BY DEF Types
<1> QED
    BY <1>1, TypeInit, TypeStep, PTL DEF Spec

LEMMA TypesAlways == Spec => []Types
BY TypeInit, TypeStep, PTL DEF Spec

-----------------------------------------------------------------------------
(* Sessions.                                                               *)

Raised == {"pause", "run", "register", "changed", "resume", "lower"}

\* The mutex is held by exactly the client in a session, and the writing
\* state is up from Raise to Lower.
SessionInv ==
    /\ \A c \in Client : InSession(c) <=> holder = c
    /\ \A c \in Client : InSession(c) => (sources.write <=> call[c].pc \in Raised)
    /\ holder = NoClient => ~sources.write

\* What a step that moves one call leaves of the others.
LEMMA OneCallMoves ==
    ASSUME CallOK, NEW c \in Client, NEW pc, Goto(c, pc)
    PROVE  call'[c].pc = pc /\ \A d \in Client \ {c} : call'[d] = call[d]
BY DEF Goto, CallOK, Call

LEMMA OneCallIsReplaced ==
    ASSUME CallOK, NEW c \in Client, NEW new, call' = [call EXCEPT ![c] = new]
    PROVE  call'[c] = new /\ \A d \in Client \ {c} : call'[d] = call[d]
BY DEF CallOK

\* SessionInv from what a step does to the mutex, one call and the state.
LEMMA SessionInvMoves ==
    ASSUME CallOK, SessionInv, NEW c \in Client, \A d \in Client \ {c} : call'[d] = call[d],
           holder \in {c, NoClient}, holder' \in {c, NoClient},
           InSession(c)' <=> holder' = c,
           InSession(c)' => (sources'.write <=> call'[c].pc \in Raised),
           holder' = NoClient => ~sources'.write
    PROVE  SessionInv'
BY WriteSessionsAssumption DEF SessionInv, InSession

LEMMA SessionStepInv ==
    ASSUME Types, SessionInv, NEW c \in Client, SessionStep(c)
    PROVE  SessionInv'
<1>0. CallOK /\ sources \in Sources /\ c # NoClient
    BY WriteSessionsAssumption DEF Types, TypeOK
<1>1. CASE OpenWithPlan(c)
    <2>1. CASE holder = NoClient
        <3>1. Goto(c, "raise") /\ holder' = c /\ UNCHANGED sources
            BY <1>1, <2>1 DEF OpenWithPlan, Goto
        <3>2. call'[c].pc = "raise" /\ \A d \in Client \ {c} : call'[d] = call[d]
            BY <1>0, <3>1, OneCallMoves
        <3>3. ~sources.write
            BY <2>1 DEF SessionInv
        <3> QED
            BY <1>0, <2>1, <3>1, <3>2, <3>3, SessionInvMoves DEF InSession, Session, Raised
    <2>2. CASE holder # NoClient
        <3>1. call' = [call EXCEPT ![c] = NoCall] /\ UNCHANGED <<holder, sources>>
            BY <1>1, <2>2 DEF OpenWithPlan
        <3>2. call'[c] = NoCall /\ \A d \in Client \ {c} : call'[d] = call[d]
            BY <1>0, <3>1, OneCallIsReplaced
        <3>3. ~InSession(c) /\ ~InSession(c)'
            BY <1>1, <3>2 DEF OpenWithPlan, InSession, Session, NoCall
        <3> QED
            BY <2>2, <3>1, <3>2, <3>3 DEF SessionInv, InSession
    <2> QED
        BY <2>1, <2>2
\* From here on the call is in its session and holds the mutex.
<1>2. CASE Raise(c)
    <2>1. holder = c /\ holder' = c /\ Goto(c, "pause") /\ sources'.write
        BY <1>0, <1>2 DEF Raise, UpdateSources, Sources, SessionInv, InSession, Session
    <2>2. call'[c].pc = "pause" /\ \A d \in Client \ {c} : call'[d] = call[d]
        BY <1>0, <2>1, OneCallMoves
    <2> QED
        BY <1>0, <2>1, <2>2, SessionInvMoves DEF InSession, Session, Raised
<1>3. CASE \/ AnnouncePause(c) \/ AnnounceResume(c) \/ AnnounceChange(c)
           \/ Preview(c) \/ Register(c) \/ Perform(c) \/ Fail(c)
    <2>1. /\ holder = c /\ UNCHANGED <<holder, sources>>
          /\ call[c].pc \in Raised \ {"lower"}
          /\ \E pc \in Raised \ {"pause"} : Goto(c, pc)
        BY <1>3 DEF AnnouncePause, AnnounceResume, AnnounceChange, Preview, Register, Perform,
            Fail, SessionInv, InSession, Session, Raised
    <2>2. PICK pc \in Raised \ {"pause"} : Goto(c, pc)
        BY <2>1
    <2>3. call'[c].pc = pc /\ \A d \in Client \ {c} : call'[d] = call[d]
        BY <1>0, <2>2, OneCallMoves
    <2>4. sources'.write
        BY <2>1 DEF SessionInv, InSession, Session, Raised
    <2> QED
        BY <1>0, <2>1, <2>2, <2>3, <2>4, SessionInvMoves DEF InSession, Session, Raised
<1>4. CASE Lower(c)
    <2>1. holder = c /\ holder' = c /\ Goto(c, "unlock") /\ ~sources'.write
        BY <1>0, <1>4 DEF Lower, UpdateSources, Sources, SessionInv, InSession, Session
    <2>2. call'[c].pc = "unlock" /\ \A d \in Client \ {c} : call'[d] = call[d]
        BY <1>0, <2>1, OneCallMoves
    <2> QED
        BY <1>0, <2>1, <2>2, SessionInvMoves DEF InSession, Session, Raised
<1>5. CASE Unlock(c)
    <2>1. /\ holder = c /\ holder' = NoClient /\ ~sources'.write
          /\ call' = [call EXCEPT ![c] = NoCall]
        BY <1>5 DEF Unlock, SessionInv, InSession, Session, Raised
    <2>2. call'[c] = NoCall /\ \A d \in Client \ {c} : call'[d] = call[d]
        BY <1>0, <2>1, OneCallIsReplaced
    <2> QED
        BY <1>0, <2>1, <2>2, SessionInvMoves DEF InSession, Session, Raised, NoCall
<1> QED
    BY <1>1, <1>2, <1>3, <1>4, <1>5 DEF SessionStep

LEMMA SessionInvStep == Types /\ SessionInv /\ [Next]_vars => SessionInv'
<1> SUFFICES ASSUME Types, SessionInv, [Next]_vars PROVE SessionInv'
    OBVIOUS
<1> USE DEF SessionInv, InSession, Types, TypeOK, CallOK
<1>1. CASE ToggleSource \/ SetStopping
    BY <1>1 DEF ToggleSource, SetStopping, UpdateSources, Sources
<1>2. CASE BroadcastShutdown \/ (\E id \in PlanId : Expire(id))
    BY <1>2 DEF BroadcastShutdown, Expire
<1>3. ASSUME NEW c \in Client, NEW op \in Op, NEW target \in Plan, Open(c, op, target)
      PROVE  SessionInv'
    <2>1. c # NoClient /\ holder = NoClient /\ holder' = c /\ UNCHANGED sources
        BY <1>3, WriteSessionsAssumption DEF Open, Begin
    <2>2. call'[c].pc = "raise" /\ \A d \in Client \ {c} : call'[d] = call[d]
        BY <1>3 DEF Open, Begin, NoCall
    <2>3. ~sources.write
        BY <2>1
    <2> QED
        BY <2>1, <2>2, <2>3, SessionInvMoves DEF Session, Raised
<1>4. ASSUME NEW c \in Client, NEW id \in PlanId, NEW target \in Plan, Execute(c, id, target)
      PROVE  SessionInv'
    <2>1. /\ UNCHANGED <<holder, sources>>
          /\ \A d \in Client : call'[d] # call[d] => call[d].pc = "idle" /\ call'[d].pc = "taken"
        <3>1. CASE Redeems(id, target)
            <4> DEFINE new == [NoCall EXCEPT !.pc = "taken", !.op = "execute", !.target = target]
            <4>1. new.pc = "taken"
                BY DEF NoCall
            <4>2. UNCHANGED <<holder, sources>> /\ call[c].pc = "idle"
                BY <1>4, <3>1 DEF Execute, Issue
            <4>3. call' = [call EXCEPT ![c] = new]
                BY <1>4, <3>1 DEF Execute
            <4> HIDE DEF new
            <4> QED
                BY <4>1, <4>2, <4>3, OneCallIsReplaced
        <3>2. CASE ~Redeems(id, target)
            BY <1>4, <3>2 DEF Execute
        <3> QED
            BY <3>1, <3>2
    <2>2. \A d \in Client : InSession(d)' <=> InSession(d)
        BY <2>1 DEF Session
    <2> QED
        BY <2>1, <2>2 DEF Session
<1>5. ASSUME NEW c \in Client, Disconnect(c) PROVE SessionInv'
    BY <1>5 DEF Disconnect
<1>6. ASSUME NEW c \in Client, SessionStep(c) PROVE SessionInv'
    BY <1>6, SessionStepInv
<1>7. ASSUME NEW f \in Follower, FollowerNext(f) PROVE SessionInv'
    BY <1>7 DEF FollowerNext, FollowerStep, Subscribe, SnapshotState, SnapshotLibrary,
        SnapshotPaused, Deliver, DeliverLag, Close
<1>8. CASE UNCHANGED vars
    BY <1>8 DEF vars
<1> QED
    BY <1>1, <1>2, <1>3, <1>4, <1>5, <1>6, <1>7, <1>8 DEF Next, FollowerNext

LEMMA SessionsAlways == Spec => []SessionInv
<1>1. Init => SessionInv
    BY WriteSessionsAssumption DEF Init, SessionInv, InSession, NoCall, Session, Raised
<1> QED
    BY <1>1, SessionInvStep, TypesAlways, PTL DEF Spec

\* No two sessions are open at once, whatever requests, disconnects, errors
\* and panics there are, and the writing state covers the work of each and is
\* down when the mutex is free.
THEOREM SessionsExclude == Spec => []SessionsAreExclusive
<1>1. SessionInv => OneSessionAtATime
    BY DEF SessionInv, OneSessionAtATime
<1>2. SessionInv => WritingSpansTheSession
    BY DEF SessionInv, WritingSpansTheSession, InSession, Session, Raised
<1> QED
    BY <1>1, <1>2, SessionsAlways, PTL DEF SessionsAreExclusive

-----------------------------------------------------------------------------
(* Plans.                                                                  *)

\* Plan ids are handed out in order, and a plan in the registry has not been
\* redeemed.
PlanInv ==
    /\ \E k \in 0..MaxPlans : Issued = 1..k
    /\ table \subseteq Issued
    /\ \A id \in PlanId : redeemed[id] # 0 => id \in Issued \ table

LEMMA NoPlanIsNoPlan == NoPlan \notin Plan
<1>1. \A p \in Plan : "lib" \in DOMAIN p
    BY DEF Plan
<1>2. "lib" \notin DOMAIN NoPlan
    BY DEF NoPlan
<1> QED
    BY <1>1, <1>2

\* Registering hands out the next id.
LEMMA RegisterInv ==
    ASSUME Types, PlanInv, NEW c \in Client, Register(c)
    PROVE  PlanInv' /\ UNCHANGED <<redeemed, expired>> /\ table \ table' \subseteq expired
<1>1. PICK k \in 0..MaxPlans : Issued = 1..k
    BY DEF PlanInv
<1>2. k \in Nat /\ Cardinality(Issued) = k
    BY <1>1, FS_Interval, WriteSessionsAssumption
<1>3. /\ k + 1 \in PlanId
      /\ plans' = [plans EXCEPT ![k + 1] = call[c].target]
      /\ table' = (table \ expired) \cup {k + 1}
      /\ UNCHANGED <<redeemed, expired>>
    BY <1>2 DEF Register
<1>4. call[c].target \in Plan
    BY DEF Register, Types, CallOK
<1>5. Issued' = Issued \cup {k + 1}
    BY <1>3, <1>4, NoPlanIsNoPlan DEF Issued, Types, TypeOK
<1>6. Issued' = 1..(k + 1) /\ k + 1 \in 0..MaxPlans
    BY <1>1, <1>2, <1>3, <1>5, WriteSessionsAssumption DEF PlanId
<1>7. redeemed[k + 1] = 0
    BY <1>1, <1>2, <1>3 DEF PlanInv
<1> QED
    BY <1>3, <1>5, <1>6, <1>7 DEF PlanInv

LEMMA ExecuteInv ==
    ASSUME Types, PlanInv, NEW c \in Client, NEW id \in PlanId, NEW target \in Plan,
           Execute(c, id, target)
    PROVE  /\ PlanInv'
           /\ \A i \in PlanId :
                  /\ redeemed'[i] # redeemed[i] => redeemed[i] = 0
                  /\ i \in (table \ table') \ expired => redeemed'[i] = redeemed[i] + 1
<1>1. Issued' = Issued
    BY DEF Execute, Issued
<1>2. CASE Redeems(id, target)
    <2>1. table' = table \ {id} /\ redeemed' = [redeemed EXCEPT ![id] = @ + 1]
        BY <1>2 DEF Execute, Taken, Redeems
    <2> QED
        BY <1>1, <1>2, <2>1 DEF PlanInv, Redeems, Types, TypeOK
<1>3. CASE ~Redeems(id, target)
    <2>1. redeemed' = redeemed /\ table' \subseteq table /\ table \ table' \subseteq expired
        BY <1>3 DEF Execute, Taken, Redeems
    <2> QED
        BY <1>1, <2>1 DEF PlanInv
<1> QED
    BY <1>2, <1>3

\* Every other step leaves the registry of plans alone.
LEMMA PlansElsewhere ==
    ASSUME [Next]_vars,
           ~(\E c \in Client : Register(c)),
           ~(\E c \in Client, id \in PlanId, target \in Plan : Execute(c, id, target))
    PROVE  UNCHANGED <<plans, table, redeemed>>
<1> USE DEF planVars
<1>1. CASE ToggleSource \/ SetStopping \/ BroadcastShutdown \/ (\E id \in PlanId : Expire(id))
    BY <1>1 DEF ToggleSource, SetStopping, BroadcastShutdown, Expire
<1>2. ASSUME NEW c \in Client, (\E op \in Op, target \in Plan : Open(c, op, target)) \/ Disconnect(c)
      PROVE  UNCHANGED <<plans, table, redeemed>>
    BY <1>2 DEF Open, Disconnect
<1>3. ASSUME NEW c \in Client, SessionStep(c) PROVE UNCHANGED <<plans, table, redeemed>>
    BY <1>3 DEF SessionStep, OpenWithPlan, Raise, AnnouncePause, Preview, Perform, Fail,
        AnnounceChange, AnnounceResume, Lower, Unlock
<1>4. ASSUME NEW f \in Follower, FollowerNext(f) PROVE UNCHANGED <<plans, table, redeemed>>
    BY <1>4 DEF FollowerNext, FollowerStep, Subscribe, SnapshotState, SnapshotLibrary,
        SnapshotPaused, Deliver, DeliverLag, Close
<1>5. CASE UNCHANGED vars
    BY <1>5 DEF vars
<1> QED
    BY <1>1, <1>2, <1>3, <1>4, <1>5 DEF Next, FollowerNext

LEMMA PlanInvStep == Types /\ PlanInv /\ [Next]_vars => PlanInv'
<1> SUFFICES ASSUME Types, PlanInv, [Next]_vars PROVE PlanInv'
    OBVIOUS
<1>1. CASE UNCHANGED <<plans, table, redeemed>>
    BY <1>1 DEF PlanInv, Issued
<1> QED
    BY <1>1, RegisterInv, ExecuteInv, PlansElsewhere

\* A plan is redeemed at most once, and while it is good only for the caller it
\* was made for (PlansAreKept), for any number of plans and requests.
THEOREM PlansKeepTheirPromise == Spec => PlansAreKept
<1> DEFINE Kept == \A id \in PlanId :
                       /\ redeemed'[id] # redeemed[id] => redeemed[id] = 0
                       /\ id \in (table \ table') \ expired => redeemed'[id] = redeemed[id] + 1
<1>1. Init => PlanInv
    <2>1. ASSUME Init PROVE Issued = {} /\ {} = 1..0 /\ 0 \in 0..MaxPlans
        BY <2>1, WriteSessionsAssumption DEF Init, Issued
    <2> QED
        BY <2>1 DEF Init, PlanInv
<1>2. Types /\ PlanInv /\ [Next]_vars => [Kept]_vars
    <2> SUFFICES ASSUME Types, PlanInv, [Next]_vars PROVE Kept
        OBVIOUS
    <2>1. CASE UNCHANGED <<plans, table, redeemed>>
        BY <2>1
    <2> QED
        BY <2>1, RegisterInv, ExecuteInv, PlansElsewhere
<1> QED
    BY <1>1, <1>2, PlanInvStep, TypesAlways, PTL DEF Spec, PlansAreKept

-----------------------------------------------------------------------------
(* The event stream.                                                       *)

\* The last event of a channel in s, if there is one, is the given one.
Says(s, channel, event) ==
    \A k \in 1..Len(s) :
        (s[k].channel = channel /\ \A l \in 1..Len(s) : l > k => s[l].channel # channel)
            => s[k] = event

Silent(s, channel) == \A k \in 1..Len(s) : s[k].channel # channel

StateEvent       == [channel |-> "daemon.state", state |-> Resolve(sources)]
PauseEvent       == [channel |-> "mcp.availability", paused |-> TRUE]
ResumeEvent      == [channel |-> "mcp.availability", paused |-> FALSE]
ChangeEvent(lib) == [channel |-> "library.changed", lib |-> lib]

\* A session has announced the pause and not yet the resume.
Paused == \E c \in Client : call[c].pc \in {"run", "register", "changed", "resume"}

\* A session has raised the writing state and not yet announced the resume.
Pausing == \E c \in Client :
               call[c].pc \in {"pause", "run", "register", "changed", "resume"}

\* A session has moved the library and not yet announced it.
Changing(lib) == \E c \in Client : call[c].pc = "changed" /\ call[c].target.lib = lib

\* For each channel: what waits in the receiver ends in the present value,
\* and a subscriber past the channel's snapshot with nothing of it waiting,
\* and nothing lost, holds the present value.
StateStream(box, v) ==
    /\ Says(box.events, "daemon.state", StateEvent)
    /\ (/\ ~box.lagged
        /\ v.pc \in {"library", "paused", "following"}
        /\ Silent(box.events, "daemon.state")) => v.state = Resolve(sources)

PauseStream(box, v) ==
    Paused =>
        /\ Says(box.events, "mcp.availability", PauseEvent)
        /\ (/\ ~box.lagged
            /\ v.pc = "following"
            /\ Silent(box.events, "mcp.availability")) => v.paused

ResumeStream(box, v) ==
    ~Pausing =>
        /\ Says(box.events, "mcp.availability", ResumeEvent)
        /\ (/\ ~box.lagged
            /\ v.pc = "following"
            /\ Silent(box.events, "mcp.availability")) => ~v.paused \/ v.late

ChangeStream(box, v) ==
    \A lib \in Library :
        (~box.lagged /\ v.pc \in {"paused", "following"} /\ lib \in v.stale)
            => Changing(lib) \/ \E k \in 1..Len(box.events) : box.events[k] = ChangeEvent(lib)

EndOfStream(box, v) ==
    /\ v.pc \in {"off", "closed"} => box.events = <<>>
    /\ (v.pc = "closed" /\ ~box.lagged) => v.state = "stopping"

StreamOK(box, v) ==
    /\ StateStream(box, v) /\ PauseStream(box, v) /\ ResumeStream(box, v)
    /\ ChangeStream(box, v) /\ EndOfStream(box, v)

KnowInv ==
    /\ closing => sources.stopping
    /\ \A f \in Follower : StreamOK(inbox[f], view[f])

\* What a push leaves in a receiver: the new event last, before it what was
\* there, less the oldest if there was no room.
LEMMA PushedShape ==
    ASSUME NEW box \in Box, Len(box.events) <= Capacity, NEW event \in Event
    PROVE  \E d \in {0, 1} :
               LET s == box.events
                   new == Pushed(box, event).events
               IN  /\ Len(new) = Len(s) + 1 - d
                   /\ Len(new) \in Nat \ {0}
                   /\ new[Len(new)] = event
                   /\ \A k \in 1..(Len(new) - 1) : new[k] = s[k + d]
                   /\ d = 1 \/ box.lagged => Pushed(box, event).lagged
<1> DEFINE s == box.events
<1>1. s \in Seq(Event) /\ Len(s) \in Nat
    BY DEF Box
<1>2. CASE Len(s) < Capacity
    <2>1. Pushed(box, event) = [box EXCEPT !.events = Append(s, event)]
        BY <1>2 DEF Pushed
    <2>2. Pushed(box, event).events = Append(s, event) /\ Pushed(box, event).lagged = box.lagged
        BY <2>1 DEF Box
    <2>3. /\ Len(Append(s, event)) = Len(s) + 1
          /\ Append(s, event)[Len(s) + 1] = event
          /\ \A k \in 1..Len(s) : Append(s, event)[k] = s[k]
        BY <1>1
    <2> HIDE DEF s
    <2> QED
        BY <1>1, <2>2, <2>3 DEF s
<1>3. CASE ~(Len(s) < Capacity)
    <2> DEFINE t == Tail(s)
    <2>1. s # <<>> /\ Len(s) >= 1
        BY <1>1, <1>3, WriteSessionsAssumption
    <2>2. t \in Seq(Event) /\ Len(t) = Len(s) - 1 /\ \A k \in 1..Len(t) : t[k] = s[k + 1]
        BY <1>1, <2>1, HeadTailProperties
    <2>3. Pushed(box, event) = [events |-> Append(t, event), lagged |-> TRUE]
        BY <1>3 DEF Pushed
    <2>4. Pushed(box, event).events = Append(t, event) /\ Pushed(box, event).lagged
        BY <2>3
    <2> HIDE DEF t
    <2>5. /\ Len(Append(t, event)) = Len(t) + 1
          /\ Append(t, event)[Len(t) + 1] = event
          /\ \A k \in 1..Len(t) : Append(t, event)[k] = t[k]
        BY <2>2
    <2> HIDE DEF s
    <2> QED
        BY <1>1, <2>1, <2>2, <2>4, <2>5 DEF s
<1> QED
    BY <1>2, <1>3

\* A push of the value a channel says, or of another channel's, leaves the
\* channel saying it.
LEMMA PushSays ==
    ASSUME NEW box \in Box, Len(box.events) <= Capacity, NEW event \in Event,
           NEW channel, NEW e,
           \/ event = e /\ e.channel = channel
           \/ event.channel # channel /\ Says(box.events, channel, e)
    PROVE  Says(Pushed(box, event).events, channel, e)
<1> DEFINE s == box.events
           new == Pushed(box, event).events
<1>0. s \in Seq(Event) /\ Len(s) \in Nat
    BY DEF Box
<1>1. PICK d \in {0, 1} : /\ Len(new) = Len(s) + 1 - d
                          /\ Len(new) \in Nat \ {0}
                          /\ new[Len(new)] = event
                          /\ \A k \in 1..(Len(new) - 1) : new[k] = s[k + d]
    BY PushedShape
<1> HIDE DEF new, s
<1> SUFFICES ASSUME NEW k \in 1..Len(new), new[k].channel = channel,
                    \A l \in 1..Len(new) : l > k => new[l].channel # channel
             PROVE  new[k] = e
    BY DEF Says, new
<1>2. CASE k = Len(new)
    BY <1>1, <1>2
<1>3. CASE k # Len(new)
    <2>1. k \in 1..(Len(new) - 1) /\ new[k] = s[k + d] /\ event.channel # channel
        BY <1>1, <1>3
    <2>2. k + d \in 1..Len(s) /\ s[k + d].channel = channel
        BY <1>0, <1>1, <2>1
    <2>3. ASSUME NEW l \in 1..Len(s), l > k + d
          PROVE  s[l].channel # channel
        <3>1. l - d \in 1..(Len(new) - 1) /\ l - d > k
            BY <1>0, <1>1, <2>3
        <3>2. new[l - d] = s[(l - d) + d] /\ (l - d) + d = l
            BY <1>1, <2>3, <3>1
        <3>3. l - d \in 1..Len(new)
            BY <1>1, <3>1
        <3> QED
            BY <3>1, <3>2, <3>3
    <2>4. Says(s, channel, e)
        BY <2>1 DEF s
    <2> QED
        BY <2>1, <2>2, <2>3, <2>4 DEF Says
<1> QED
    BY <1>2, <1>3

\* A receiver that lost nothing and has nothing of a channel had nothing of it
\* before the push, which was of another.
LEMMA PushSilent ==
    ASSUME NEW box \in Box, Len(box.events) <= Capacity, NEW event \in Event, NEW channel,
           ~Pushed(box, event).lagged, Silent(Pushed(box, event).events, channel)
    PROVE  ~box.lagged /\ Silent(box.events, channel) /\ event.channel # channel
<1> DEFINE s == box.events
           new == Pushed(box, event).events
<1>0. s \in Seq(Event) /\ Len(s) \in Nat
    BY DEF Box
<1>1. PICK d \in {0, 1} : /\ Len(new) = Len(s) + 1 - d
                          /\ Len(new) \in Nat \ {0}
                          /\ new[Len(new)] = event
                          /\ \A k \in 1..(Len(new) - 1) : new[k] = s[k + d]
                          /\ d = 1 \/ box.lagged => Pushed(box, event).lagged
    BY PushedShape
<1>2. d = 0 /\ ~box.lagged
    BY <1>1
<1>3. \A k \in 1..Len(new) : new[k].channel # channel
    BY DEF Silent
<1> HIDE DEF new, s
<1>4. event.channel # channel
    BY <1>1, <1>3
<1>5. ASSUME NEW k \in 1..Len(s)
      PROVE  s[k].channel # channel
    <2>1. k \in 1..(Len(new) - 1) /\ k + d = k
        BY <1>0, <1>1, <1>2
    <2>2. k \in 1..Len(new) /\ new[k] = s[k]
        BY <1>1, <2>1
    <2> QED
        BY <1>3, <2>2
<1>6. Silent(s, channel)
    BY <1>5 DEF Silent
<1> QED
    BY <1>2, <1>4, <1>6 DEF s

\* What a receiver that lost nothing had, it has after a push, and the new
\* event with it.
LEMMA PushKeeps ==
    ASSUME NEW box \in Box, Len(box.events) <= Capacity, NEW event \in Event,
           ~Pushed(box, event).lagged
    PROVE  /\ ~box.lagged
           /\ \A e : (e = event \/ \E k \in 1..Len(box.events) : box.events[k] = e)
                  => \E k \in 1..Len(Pushed(box, event).events) :
                         Pushed(box, event).events[k] = e
<1> DEFINE s == box.events
           new == Pushed(box, event).events
<1>0. s \in Seq(Event) /\ Len(s) \in Nat
    BY DEF Box
<1>1. PICK d \in {0, 1} : /\ Len(new) = Len(s) + 1 - d
                          /\ Len(new) \in Nat \ {0}
                          /\ new[Len(new)] = event
                          /\ \A k \in 1..(Len(new) - 1) : new[k] = s[k + d]
                          /\ d = 1 \/ box.lagged => Pushed(box, event).lagged
    BY PushedShape
<1>2. d = 0 /\ ~box.lagged
    BY <1>1
<1> HIDE DEF new, s
<1>3. Len(new) \in 1..Len(new)
    BY <1>1
<1>4. ASSUME NEW k \in 1..Len(s)
      PROVE  k \in 1..Len(new) /\ new[k] = s[k]
    <2>1. k \in 1..(Len(new) - 1) /\ k + d = k
        BY <1>0, <1>1, <1>2
    <2> QED
        BY <1>1, <2>1
<1> QED
    BY <1>1, <1>2, <1>3, <1>4 DEF new, s

\* Taking the oldest event off a receiver.
LEMMA TailSays ==
    ASSUME NEW s \in Seq(Event), s # <<>>, NEW channel, NEW e, Says(s, channel, e)
    PROVE  /\ Says(Tail(s), channel, e)
           /\ (Silent(Tail(s), channel) /\ Head(s).channel = channel) => Head(s) = e
           /\ (Silent(Tail(s), channel) /\ Head(s).channel # channel) => Silent(s, channel)
<1> DEFINE t == Tail(s)
<1>1. /\ t \in Seq(Event) /\ Len(t) = Len(s) - 1 /\ Len(s) \in Nat /\ Len(s) >= 1
      /\ \A k \in 1..Len(t) : t[k] = s[k + 1]
      /\ Head(s) = s[1]
    BY HeadTailProperties, EmptySeq
<1> HIDE DEF t
<1>2. ASSUME NEW k \in 1..Len(s), k # 1
      PROVE  k - 1 \in 1..Len(t) /\ t[k - 1] = s[k]
    <2>1. k - 1 \in 1..Len(t) /\ (k - 1) + 1 = k
        BY <1>1, <1>2
    <2> QED
        BY <1>1, <2>1
<1>3. Says(t, channel, e)
    <2> SUFFICES ASSUME NEW k \in 1..Len(t), t[k].channel = channel,
                        \A l \in 1..Len(t) : l > k => t[l].channel # channel
                 PROVE  t[k] = e
        BY DEF Says
    <2>1. k + 1 \in 1..Len(s) /\ s[k + 1] = t[k]
        BY <1>1
    <2>2. ASSUME NEW l \in 1..Len(s), l > k + 1
          PROVE  s[l].channel # channel
        <3>1. l - 1 \in 1..Len(t) /\ t[l - 1] = s[l] /\ l - 1 > k
            BY <1>1, <1>2, <2>2
        <3> QED
            BY <3>1
    <2> QED
        BY <2>1, <2>2 DEF Says
<1>4. ASSUME Silent(t, channel)
      PROVE  \A k \in 1..Len(s) : k # 1 => s[k].channel # channel
    BY <1>2, <1>4 DEF Silent
<1>5. 1 \in 1..Len(s) /\ \A l \in 1..Len(s) : l > 1 => l # 1
    BY <1>1
<1>6. ASSUME Silent(t, channel), Head(s).channel = channel
      PROVE  Head(s) = e
    BY <1>1, <1>4, <1>5, <1>6 DEF Says
<1>7. ASSUME Silent(t, channel), Head(s).channel # channel
      PROVE  Silent(s, channel)
    BY <1>1, <1>4, <1>7 DEF Silent
<1> QED
    BY <1>3, <1>6, <1>7 DEF t

Announced == {"run", "register", "changed", "resume"}
Unresumed == {"pause"} \cup Announced

\* A step that publishes nothing and leaves the receiver's subscriber alone.
LEMMA QuietStream ==
    ASSUME NEW f \in Follower, StreamOK(inbox[f], view[f]),
           inbox'[f] = inbox[f], view'[f] = view[f], Resolve(sources') = Resolve(sources),
           Paused' => Paused, Pausing => Pausing',
           \A lib \in Library : Changing(lib) => Changing(lib)'
    PROVE  StreamOK(inbox[f], view[f])'
<1>1. StateStream(inbox[f], view[f])'
    BY DEF StreamOK, StateStream, StateEvent
<1>2. PauseStream(inbox[f], view[f])'
    BY DEF StreamOK, PauseStream
<1>3. ChangeStream(inbox[f], view[f])'
    BY DEF StreamOK, ChangeStream
<1>4. EndOfStream(inbox[f], view[f])'
    BY DEF StreamOK, EndOfStream
<1>5. ResumeStream(inbox[f], view[f])'
    BY DEF StreamOK, ResumeStream
<1> QED
    BY <1>1, <1>2, <1>3, <1>4, <1>5 DEF StreamOK

\* A step that publishes: what it changes it tells.
LEMMA PublishStream ==
    ASSUME Types, NEW f \in Follower, StreamOK(inbox[f], view[f]),
           NEW event \in Event, Publish(event), view' = view,
           \/ event = [channel |-> "daemon.state", state |-> Resolve(sources')]
           \/ event.channel # "daemon.state" /\ Resolve(sources') = Resolve(sources),
           Paused' => \/ event = PauseEvent
                      \/ event.channel # "mcp.availability" /\ Paused,
           ~Pausing' => \/ event = ResumeEvent
                        \/ event.channel # "mcp.availability" /\ ~Pausing,
           \A lib \in Library : Changing(lib) => Changing(lib)' \/ event = ChangeEvent(lib)
    PROVE  StreamOK(inbox[f], view[f])'
<1> DEFINE box == inbox[f]
           v   == view[f]
<1>0. box \in Box /\ Len(box.events) <= Capacity /\ view'[f] = v
    BY DEF Types, InboxOK
<1>1. CASE ~Receives(f)
    <2>1. v.pc \in {"off", "closed"} /\ box.events = <<>> /\ inbox'[f] = box
        BY <1>1 DEF Receives, Publish, StreamOK, EndOfStream
    <2>2. \A k \in 1..Len(box.events) : FALSE
        BY <2>1
    <2>3. /\ StateStream(inbox[f], view[f])' /\ PauseStream(inbox[f], view[f])'
          /\ ResumeStream(inbox[f], view[f])'
        BY <1>0, <2>1, <2>2 DEF StateStream, PauseStream, ResumeStream, Says
    <2>4. ChangeStream(inbox[f], view[f])' /\ EndOfStream(inbox[f], view[f])'
        BY <1>0, <2>1 DEF ChangeStream, StreamOK, EndOfStream
    <2> QED
        BY <2>3, <2>4 DEF StreamOK
<1>2. CASE Receives(f)
    <2>1. inbox'[f] = Pushed(box, event) /\ v.pc \notin {"off", "closed"}
        BY <1>2 DEF Receives, Publish
    <2>2. StateStream(inbox[f], view[f])'
        <3> DEFINE e == [channel |-> "daemon.state", state |-> Resolve(sources')]
        <3>1. e.channel = "daemon.state"
            OBVIOUS
        <3>2. event.channel # "daemon.state" => Says(box.events, "daemon.state", e)
            BY DEF StreamOK, StateStream, StateEvent
        <3>3. event = e \/ event.channel # "daemon.state"
            OBVIOUS
        <3> HIDE DEF e
        <3>4. Says(Pushed(box, event).events, "daemon.state", e)
            BY <1>0, <3>1, <3>2, <3>3, PushSays
        <3>5. ASSUME ~Pushed(box, event).lagged, v.pc \in {"library", "paused", "following"},
                     Silent(Pushed(box, event).events, "daemon.state")
              PROVE  v.state = Resolve(sources')
            <4>1. /\ ~box.lagged /\ Silent(box.events, "daemon.state")
                  /\ event.channel # "daemon.state"
                BY <1>0, <3>5, PushSilent
            <4>2. Resolve(sources') = Resolve(sources)
                BY <4>1
            <4> QED
                BY <3>5, <4>1, <4>2 DEF StreamOK, StateStream
        <3> QED
            BY <1>0, <2>1, <3>4, <3>5 DEF StateStream, StateEvent, e
    <2>3. PauseStream(inbox[f], view[f])'
        <3> SUFFICES ASSUME Paused'
                     PROVE  /\ Says(Pushed(box, event).events, "mcp.availability", PauseEvent)
                            /\ (/\ ~Pushed(box, event).lagged
                                /\ v.pc = "following"
                                /\ Silent(Pushed(box, event).events, "mcp.availability"))
                                   => v.paused
            BY <1>0, <2>1 DEF PauseStream, PauseEvent
        <3>1. PauseEvent.channel = "mcp.availability"
            BY DEF PauseEvent
        <3>2. Says(Pushed(box, event).events, "mcp.availability", PauseEvent)
            BY <1>0, <3>1, PushSays DEF StreamOK, PauseStream
        <3>3. ASSUME ~Pushed(box, event).lagged, v.pc = "following",
                     Silent(Pushed(box, event).events, "mcp.availability")
              PROVE  v.paused
            <4>1. /\ ~box.lagged /\ Silent(box.events, "mcp.availability")
                  /\ event.channel # "mcp.availability"
                BY <1>0, <3>3, PushSilent
            <4> QED
                BY <3>1, <3>3, <4>1 DEF StreamOK, PauseStream
        <3> QED
            BY <3>2, <3>3
    <2>4. ChangeStream(inbox[f], view[f])'
        <3> SUFFICES ASSUME NEW lib \in Library, ~Pushed(box, event).lagged,
                            v.pc \in {"paused", "following"}, lib \in v.stale
                     PROVE  \/ Changing(lib)'
                            \/ \E k \in 1..Len(Pushed(box, event).events) :
                                   Pushed(box, event).events[k] = ChangeEvent(lib)
            BY <1>0, <2>1 DEF ChangeStream, ChangeEvent
        <3>1. ~box.lagged
            BY <1>0, PushKeeps
        <3>2. Changing(lib) \/ \E k \in 1..Len(box.events) : box.events[k] = ChangeEvent(lib)
            BY <3>1 DEF StreamOK, ChangeStream
        <3> QED
            BY <1>0, <3>2, PushKeeps
    <2>5. EndOfStream(inbox[f], view[f])'
        BY <1>0, <2>1 DEF EndOfStream
    <2>6. ResumeStream(inbox[f], view[f])'
        <3> SUFFICES ASSUME ~Pausing'
                     PROVE  /\ Says(Pushed(box, event).events, "mcp.availability", ResumeEvent)
                            /\ (/\ ~Pushed(box, event).lagged
                                /\ v.pc = "following"
                                /\ Silent(Pushed(box, event).events, "mcp.availability"))
                                   => ~v.paused \/ v.late
            BY <1>0, <2>1 DEF ResumeStream, ResumeEvent
        <3>1. ResumeEvent.channel = "mcp.availability"
            BY DEF ResumeEvent
        <3>2. Says(Pushed(box, event).events, "mcp.availability", ResumeEvent)
            BY <1>0, <3>1, PushSays DEF StreamOK, ResumeStream
        <3>3. ASSUME ~Pushed(box, event).lagged, v.pc = "following",
                     Silent(Pushed(box, event).events, "mcp.availability")
              PROVE  ~v.paused \/ v.late
            <4>1. /\ ~box.lagged /\ Silent(box.events, "mcp.availability")
                  /\ event.channel # "mcp.availability"
                BY <1>0, <3>3, PushSilent
            <4> QED
                BY <3>1, <3>3, <4>1 DEF StreamOK, ResumeStream
        <3> QED
            BY <3>2, <3>3
    <2> QED
        BY <2>2, <2>3, <2>4, <2>5, <2>6 DEF StreamOK
<1> QED
    BY <1>1, <1>2

\* The folded state changes silently or is published with the change.
LEMMA SourcesStream ==
    ASSUME Types, NEW f \in Follower, StreamOK(inbox[f], view[f]),
           NEW s \in Sources, UpdateSources(s), view' = view,
           Paused' => Paused, Pausing => Pausing',
           \A lib \in Library : Changing(lib) => Changing(lib)'
    PROVE  StreamOK(inbox[f], view[f])'
<1>1. CASE Resolve(s) = Resolve(sources)
    BY <1>1, QuietStream DEF UpdateSources
<1>2. CASE Resolve(s) # Resolve(sources)
    <2> DEFINE e == [channel |-> "daemon.state", state |-> Resolve(sources')]
    <2>1. sources' = s /\ Publish(e)
        BY <1>2 DEF UpdateSources
    <2>2. e \in Event
        BY <2>1, StateType, EventType
    <2>3. e.channel # "mcp.availability"
        OBVIOUS
    <2> QED
        BY <2>1, <2>2, <2>3, PublishStream
<1> QED
    BY <1>1, <1>2

\* No pause starts or ends, no change is hidden.
CallsKeep ==
    /\ Paused' => Paused
    /\ Pausing => Pausing'
    /\ \A lib \in Library : Changing(lib) => Changing(lib)'

\* A call that moves outside of the two announcements, or on past the first,
\* starts no pause, ends none and hides no change.
LEMMA CallMoves ==
    ASSUME NEW c \in Client, \A d \in Client \ {c} : call'[d] = call[d],
           call'[c].pc \in Announced => call[c].pc \in Announced,
           call[c].pc \in Unresumed => call'[c].pc \in Unresumed,
           call[c].pc # "changed"
    PROVE  CallsKeep
<1>1. Paused' => Paused
    BY DEF Paused, Announced
<1>2. \A lib \in Library : Changing(lib) => Changing(lib)'
    BY DEF Changing
<1>3. Pausing => Pausing'
    BY DEF Pausing, Announced, Unresumed
<1> QED
    BY <1>1, <1>2, <1>3 DEF CallsKeep

\* What a subscriber takes from an event.
LEMMA HeardShape ==
    ASSUME NEW v \in View, NEW e \in Event
    PROVE  /\ Heard(v, e).pc = v.pc
           /\ IF e.channel = "daemon.state" THEN Heard(v, e).state = e.state
              ELSE Heard(v, e).state = v.state
           /\ IF e.channel = "mcp.availability" THEN Heard(v, e).paused = e.paused
              ELSE Heard(v, e).paused = v.paused /\ Heard(v, e).late = v.late
           /\ Heard(v, e).stale \subseteq v.stale
           /\ e.channel = "library.changed" => e.lib \notin Heard(v, e).stale
           /\ e.channel # "library.changed" => Heard(v, e).stale = v.stale
<1>1. CASE e.channel = "daemon.state"
    <2>1. Heard(v, e) = [v EXCEPT !.state = e.state]
        BY <1>1 DEF Heard
    <2> QED
        BY <1>1, <2>1 DEF View
<1>2. CASE e.channel = "mcp.availability"
    <2>1. Heard(v, e) = [v EXCEPT !.paused = e.paused, !.late = FALSE]
        BY <1>2 DEF Heard
    <2> QED
        BY <1>2, <2>1 DEF View
<1>3. CASE e.channel = "library.changed"
    <2>1. Heard(v, e) = [v EXCEPT !.stale = @ \ {e.lib}]
        BY <1>3 DEF Heard
    <2> QED
        BY <1>3, <2>1 DEF View
<1> QED
    BY <1>1, <1>2, <1>3 DEF Event

\* A step of the subscriber itself.
LEMMA FollowerStream ==
    ASSUME Types, SessionInv, KnowInv, NEW f \in Follower, FollowerNext(f)
    PROVE  StreamOK(inbox[f], view[f])'
<1> DEFINE box == inbox[f]
           v   == view[f]
<1>0. /\ box \in Box /\ box.events \in Seq(Event) /\ v \in View
      /\ inbox \in [Follower -> Box] /\ view \in [Follower -> View]
      /\ StreamOK(box, v) /\ UNCHANGED <<sources, call>>
      /\ closing => sources.stopping
    BY DEF Types, TypeOK, InboxOK, Box, KnowInv, FollowerNext, FollowerStep, Subscribe,
           SnapshotState, SnapshotLibrary, SnapshotPaused, Deliver, DeliverLag, Close
<1>1. /\ Paused' <=> Paused
      /\ Pausing' <=> Pausing
      /\ \A lib \in Library : Changing(lib)' <=> Changing(lib)
      /\ StateEvent' = StateEvent /\ Resolve(sources') = Resolve(sources)
    BY <1>0 DEF Paused, Pausing, Changing, StateEvent
\* The parts that hold of a receiver whoever reads it.
<1>2. ASSUME inbox'[f].events = box.events, view'[f].pc \notin {"off", "closed"},
             ~inbox'[f].lagged => ~box.lagged,
             (~box.lagged /\ view'[f].pc \in {"library", "paused", "following"}) =>
                 \/ view'[f].state = Resolve(sources)
                 \/ v.pc \in {"library", "paused", "following"} /\ view'[f].state = v.state,
             (Paused /\ ~box.lagged /\ view'[f].pc = "following") => view'[f].paused,
             (~Pausing /\ ~box.lagged /\ view'[f].pc = "following") =>
                 ~view'[f].paused \/ view'[f].late,
             (~box.lagged /\ view'[f].pc \in {"paused", "following"}) =>
                 view'[f].stale = {} \/ (v.pc = "paused" /\ view'[f].stale = v.stale)
      PROVE  StreamOK(inbox[f], view[f])'
    <2>1. StateStream(inbox[f], view[f])'
        BY <1>0, <1>1, <1>2 DEF StreamOK, StateStream
    <2>2. PauseStream(inbox[f], view[f])'
        BY <1>0, <1>1, <1>2 DEF StreamOK, PauseStream, PauseEvent
    <2>3. ChangeStream(inbox[f], view[f])'
        BY <1>0, <1>1, <1>2 DEF StreamOK, ChangeStream, ChangeEvent
    <2>4. EndOfStream(inbox[f], view[f])'
        BY <1>2 DEF EndOfStream
    <2>5. ResumeStream(inbox[f], view[f])'
        BY <1>0, <1>1, <1>2 DEF StreamOK, ResumeStream, ResumeEvent
    <2> QED
        BY <2>1, <2>2, <2>3, <2>4, <2>5 DEF StreamOK
<1>3. CASE Subscribe(f)
    <2>1. inbox'[f] = box /\ view'[f].pc = "state"
        BY <1>0, <1>3 DEF Subscribe, View
    <2> QED
        BY <1>2, <2>1
<1>4. CASE SnapshotState(f)
    <2>1. /\ inbox'[f] = box /\ view'[f].pc = "library"
          /\ view'[f].state = Resolve(sources)
        BY <1>0, <1>4 DEF SnapshotState, View
    <2> QED
        BY <1>2, <2>1
<1>5. CASE SnapshotLibrary(f)
    <2>1. /\ inbox'[f] = box /\ view'[f].pc = "paused" /\ v.pc = "library"
          /\ view'[f].state = v.state /\ view'[f].stale = {}
        BY <1>0, <1>5 DEF SnapshotLibrary, View
    <2> QED
        BY <1>2, <2>1
<1>6. CASE SnapshotPaused(f)
    <2>1. /\ inbox'[f] = box /\ view'[f].pc = "following" /\ v.pc = "paused"
          /\ view'[f].state = v.state /\ view'[f].paused = sources.write
          /\ view'[f].late = (\E c \in Client : call[c].pc = "lower")
          /\ view'[f].stale = v.stale
        BY <1>0, <1>6 DEF SnapshotPaused, View
    <2>2. Paused => sources.write
        BY DEF Paused, SessionInv, InSession, Session, Raised
    <2>3. ASSUME ~Pausing, sources.write
          PROVE  \E c \in Client : call[c].pc = "lower"
        <3>1. InSession(holder) /\ holder \in Client
            BY <2>3 DEF SessionInv, Types, TypeOK
        <3>2. call[holder].pc \in Raised
            BY <2>3, <3>1 DEF SessionInv
        <3> QED
            BY <2>3, <3>1, <3>2 DEF Pausing, Raised
    <2>4. ~Pausing => ~view'[f].paused \/ view'[f].late
        BY <2>1, <2>3
    <2> QED
        BY <1>2, <2>1, <2>2, <2>4
<1>7. CASE DeliverLag(f)
    <2>1. inbox'[f].events = box.events /\ view'[f].pc = "resync"
        BY <1>0, <1>7 DEF DeliverLag, View, Box
    <2>2. StateStream(inbox[f], view[f])'
        BY <1>0, <1>1, <2>1 DEF StreamOK, StateStream
    <2>3. PauseStream(inbox[f], view[f])'
        BY <1>0, <1>1, <2>1 DEF StreamOK, PauseStream, PauseEvent
    <2>4. ChangeStream(inbox[f], view[f])' /\ EndOfStream(inbox[f], view[f])'
        BY <2>1 DEF ChangeStream, EndOfStream
    <2>5. ResumeStream(inbox[f], view[f])'
        BY <1>0, <1>1, <2>1 DEF StreamOK, ResumeStream, ResumeEvent
    <2> QED
        BY <2>2, <2>3, <2>4, <2>5 DEF StreamOK
<1>8. CASE Close(f)
    <2>1. /\ view'[f].pc = "closed" /\ view'[f].state = v.state
          /\ inbox'[f] = [events |-> <<>>, lagged |-> box.lagged \/ v.pc = "resync"]
          /\ closing /\ v.pc \in {"following", "resync"}
          /\ box.lagged \/ box.events = <<>>
        BY <1>0, <1>8 DEF Close, View
    <2>2. /\ inbox'[f].events = <<>>
          /\ ~inbox'[f].lagged => ~box.lagged /\ v.pc = "following"
        <3>1. inbox'[f].events = <<>> /\ inbox'[f].lagged = (box.lagged \/ v.pc = "resync")
            BY <2>1
        <3>2. ~inbox'[f].lagged => ~box.lagged /\ v.pc # "resync"
            BY <3>1, Zenon
        <3> QED
            BY <2>1, <3>1, <3>2
    <2>3. \A k \in 1..Len(<<>>) : FALSE
        OBVIOUS
    <2>4. ASSUME ~inbox'[f].lagged
          PROVE  view'[f].state = "stopping"
        <3>1. ~box.lagged /\ v.pc = "following" /\ box.events = <<>>
            BY <2>1, <2>2, <2>4
        <3>2. Silent(box.events, "daemon.state")
            BY <3>1, <2>3 DEF Silent
        <3>3. v.state = Resolve(sources)
            BY <1>0, <3>1, <3>2 DEF StreamOK, StateStream
        <3> QED
            BY <1>0, <2>1, <3>3 DEF Resolve
    <2>5. /\ StateStream(inbox[f], view[f])' /\ PauseStream(inbox[f], view[f])'
          /\ ResumeStream(inbox[f], view[f])'
        BY <2>1, <2>2, <2>3 DEF StateStream, PauseStream, ResumeStream, Says
    <2>6. ChangeStream(inbox[f], view[f])' /\ EndOfStream(inbox[f], view[f])'
        BY <2>1, <2>2, <2>4 DEF ChangeStream, EndOfStream
    <2> QED
        BY <2>5, <2>6 DEF StreamOK
<1>9. CASE Deliver(f)
    <2> DEFINE s == box.events
               t == Tail(s)
               e == Head(s)
    <2>1. /\ s # <<>> /\ ~box.lagged /\ v.pc \in {"following", "resync"}
          /\ view' = [view EXCEPT ![f] = Heard(v, e)]
          /\ inbox' = [inbox EXCEPT ![f] = [box EXCEPT !.events = t]]
        BY <1>9 DEF Deliver
    <2>2. e \in Event /\ view'[f] = Heard(v, e) /\ inbox'[f].events = t /\ ~inbox'[f].lagged
        BY <1>0, <2>1, HeadTailProperties DEF Box
    <2>3. Heard(v, e).pc = v.pc
        BY <1>0, <2>2, HeardShape
    <2>4. StateStream(inbox[f], view[f])'
        <3>1. Says(s, "daemon.state", StateEvent)
            BY <1>0 DEF StreamOK, StateStream
        <3>2. Says(t, "daemon.state", StateEvent)
            BY <1>0, <2>1, <3>1, TailSays
        <3>3. ASSUME v.pc \in {"library", "paused", "following"}, Silent(t, "daemon.state")
              PROVE  Heard(v, e).state = Resolve(sources)
            <4>1. CASE e.channel = "daemon.state"
                <5>1. e = StateEvent
                    BY <1>0, <2>1, <3>1, <3>3, <4>1, TailSays
                <5> QED
                    BY <1>0, <2>2, <4>1, <5>1, HeardShape DEF StateEvent
            <4>2. CASE e.channel # "daemon.state"
                <5>1. Silent(s, "daemon.state")
                    BY <1>0, <2>1, <3>1, <3>3, <4>2, TailSays
                <5>2. v.state = Resolve(sources)
                    BY <1>0, <2>1, <3>3, <5>1 DEF StreamOK, StateStream
                <5> QED
                    BY <1>0, <2>2, <4>2, <5>2, HeardShape
            <4> QED
                BY <4>1, <4>2
        <3> HIDE DEF t, e, s
        <3> QED
            BY <1>1, <2>2, <2>3, <3>2, <3>3 DEF StateStream
    <2>5. PauseStream(inbox[f], view[f])'
        <3> SUFFICES ASSUME Paused
                     PROVE  /\ Says(t, "mcp.availability", PauseEvent)
                            /\ (v.pc = "following" /\ Silent(t, "mcp.availability"))
                                   => Heard(v, e).paused
            <4> HIDE DEF t, e, s
            <4> QED
                BY <1>1, <2>2, <2>3 DEF PauseStream, PauseEvent
        <3>1. Says(s, "mcp.availability", PauseEvent)
            BY <1>0 DEF StreamOK, PauseStream
        <3>2. Says(t, "mcp.availability", PauseEvent)
            BY <1>0, <2>1, <3>1, TailSays
        <3>3. ASSUME v.pc = "following", Silent(t, "mcp.availability")
              PROVE  Heard(v, e).paused
            <4>1. CASE e.channel = "mcp.availability"
                <5>1. e = PauseEvent
                    BY <1>0, <2>1, <3>1, <3>3, <4>1, TailSays
                <5> QED
                    BY <1>0, <2>2, <4>1, <5>1, HeardShape DEF PauseEvent
            <4>2. CASE e.channel # "mcp.availability"
                <5>1. Silent(s, "mcp.availability")
                    BY <1>0, <2>1, <3>1, <3>3, <4>2, TailSays
                <5>2. v.paused
                    BY <1>0, <2>1, <3>3, <5>1 DEF StreamOK, PauseStream
                <5> QED
                    BY <1>0, <2>2, <4>2, <5>2, HeardShape
            <4> QED
                BY <4>1, <4>2
        <3> QED
            BY <3>2, <3>3
    <2>6. ChangeStream(inbox[f], view[f])'
        <3> SUFFICES ASSUME NEW lib \in Library, v.pc = "following", lib \in Heard(v, e).stale
                     PROVE  Changing(lib) \/ \E k \in 1..Len(t) : t[k] = ChangeEvent(lib)
            <4> HIDE DEF t, e, s
            <4> QED
                BY <1>1, <2>1, <2>2, <2>3 DEF ChangeStream, ChangeEvent
        <3>1. lib \in v.stale /\ e # ChangeEvent(lib)
            BY <1>0, <2>2, HeardShape DEF ChangeEvent
        <3>2. Changing(lib) \/ \E k \in 1..Len(s) : s[k] = ChangeEvent(lib)
            BY <1>0, <2>1, <3>1 DEF StreamOK, ChangeStream
        <3>3. ASSUME NEW k \in 1..Len(s), s[k] = ChangeEvent(lib)
              PROVE  \E l \in 1..Len(t) : t[l] = ChangeEvent(lib)
            <4>1. /\ t \in Seq(Event) /\ Len(t) = Len(s) - 1 /\ Len(s) \in Nat
                  /\ \A l \in 1..Len(t) : t[l] = s[l + 1]
                  /\ e = s[1]
                BY <1>0, <2>1, HeadTailProperties
            <4>2. k # 1
                BY <3>1, <3>3, <4>1
            <4> HIDE DEF t, e, s
            <4>3. k - 1 \in 1..Len(t) /\ (k - 1) + 1 = k
                BY <4>1, <4>2
            <4> QED
                BY <3>3, <4>1, <4>3
        <3> QED
            BY <3>2, <3>3
    <2>7. EndOfStream(inbox[f], view[f])'
        <3> HIDE DEF t, e, s
        <3> QED
            BY <2>1, <2>2, <2>3 DEF EndOfStream
    <2>8. ResumeStream(inbox[f], view[f])'
        <3> SUFFICES ASSUME ~Pausing
                     PROVE  /\ Says(t, "mcp.availability", ResumeEvent)
                            /\ (v.pc = "following" /\ Silent(t, "mcp.availability"))
                                   => ~Heard(v, e).paused \/ Heard(v, e).late
            <4> HIDE DEF t, e, s
            <4> QED
                BY <1>1, <2>2, <2>3 DEF ResumeStream, ResumeEvent
        <3>1. Says(s, "mcp.availability", ResumeEvent)
            BY <1>0 DEF StreamOK, ResumeStream
        <3>2. Says(t, "mcp.availability", ResumeEvent)
            BY <1>0, <2>1, <3>1, TailSays
        <3>3. ASSUME v.pc = "following", Silent(t, "mcp.availability")
              PROVE  ~Heard(v, e).paused \/ Heard(v, e).late
            <4>1. CASE e.channel = "mcp.availability"
                <5>1. e = ResumeEvent
                    BY <1>0, <2>1, <3>1, <3>3, <4>1, TailSays
                <5> QED
                    BY <1>0, <2>2, <4>1, <5>1, HeardShape DEF ResumeEvent
            <4>2. CASE e.channel # "mcp.availability"
                <5>1. Silent(s, "mcp.availability")
                    BY <1>0, <2>1, <3>1, <3>3, <4>2, TailSays
                <5>2. ~v.paused \/ v.late
                    BY <1>0, <2>1, <3>3, <5>1 DEF StreamOK, ResumeStream
                <5> QED
                    BY <1>0, <2>2, <4>2, <5>2, HeardShape
            <4> QED
                BY <4>1, <4>2
        <3> QED
            BY <3>2, <3>3
    <2> QED
        BY <2>4, <2>5, <2>6, <2>7, <2>8 DEF StreamOK
<1> QED
    BY <1>3, <1>4, <1>5, <1>6, <1>7, <1>8, <1>9 DEF FollowerNext

\* A step of a session keeps every subscriber's stream.
LEMMA SessionStream ==
    ASSUME Types, SessionInv, KnowInv, NEW c \in Client, SessionStep(c), NEW f \in Follower
    PROVE  StreamOK(inbox[f], view[f])'
<1>0. /\ CallOK /\ sources \in Sources /\ StreamOK(inbox[f], view[f])
      /\ view \in [Follower -> View]
    BY DEF Types, TypeOK, KnowInv
<1>1. CASE OpenWithPlan(c)
    <2>1. \E new : call' = [call EXCEPT ![c] = new] /\ new.pc \in {"raise", "idle"}
        <3>1. CASE holder = NoClient
            <4>1. Goto(c, "raise")
                BY <1>1, <3>1 DEF OpenWithPlan, Goto
            <4>2. call' = [call EXCEPT ![c] = [call[c] EXCEPT !.pc = "raise"]]
                BY <4>1 DEF Goto
            <4>3. [call[c] EXCEPT !.pc = "raise"].pc = "raise"
                BY <1>0 DEF CallOK, Call
            <4> QED
                BY <4>2, <4>3
        <3>2. CASE holder # NoClient
            <4>1. call' = [call EXCEPT ![c] = NoCall] /\ NoCall.pc = "idle"
                BY <1>1, <3>2 DEF OpenWithPlan, NoCall
            <4> QED
                BY <4>1
        <3> QED
            BY <3>1, <3>2
    <2>2. PICK new : call' = [call EXCEPT ![c] = new] /\ new.pc \in {"raise", "idle"}
        BY <2>1
    <2>3. call'[c] = new /\ \A d \in Client \ {c} : call'[d] = call[d]
        BY <1>0, <2>2, OneCallIsReplaced
    <2>4. call[c].pc # "changed" /\ (call'[c].pc \in Announced => call[c].pc \in Announced)
          /\ (call[c].pc \in Unresumed => call'[c].pc \in Unresumed)
        BY <1>1, <2>2, <2>3 DEF OpenWithPlan, Announced, Unresumed
    <2>5. CallsKeep
        BY <2>3, <2>4, CallMoves
    <2>6. inbox' = inbox /\ view' = view /\ sources' = sources
        BY <1>1 DEF OpenWithPlan, streamVars
    <2> QED
        BY <1>0, <2>5, <2>6, QuietStream DEF CallsKeep
<1>2. CASE Raise(c) \/ Lower(c)
    <2>1. PICK s \in Sources : UpdateSources(s)
        BY <1>0, <1>2 DEF Raise, Lower, Sources
    <2>2. PICK pc \in {"pause", "unlock"} : Goto(c, pc)
        BY <1>2 DEF Raise, Lower
    <2>3. call'[c].pc = pc /\ \A d \in Client \ {c} : call'[d] = call[d]
        BY <1>0, <2>2, OneCallMoves
    <2>4. call[c].pc # "changed" /\ (call'[c].pc \in Announced => call[c].pc \in Announced)
          /\ (call[c].pc \in Unresumed => call'[c].pc \in Unresumed)
        BY <1>2, <2>3 DEF Raise, Lower, Announced, Unresumed
    <2>5. CallsKeep
        BY <2>3, <2>4, CallMoves
    <2>6. view' = view
        BY <1>2 DEF Raise, Lower
    <2> QED
        BY <1>0, <2>1, <2>5, <2>6, SourcesStream DEF CallsKeep
<1>3. CASE AnnouncePause(c)
    <2>1. /\ Publish(PauseEvent) /\ Goto(c, "run") /\ view' = view /\ sources' = sources
          /\ call[c].pc = "pause"
        BY <1>3 DEF AnnouncePause, PauseEvent
    <2>2. call'[c].pc = "run" /\ \A d \in Client \ {c} : call'[d] = call[d]
        BY <1>0, <2>1, OneCallMoves
    <2>3. \A lib \in Library : Changing(lib) => Changing(lib)'
        BY <2>1, <2>2 DEF Changing
    <2>5. Pausing'
        BY <2>2 DEF Pausing
    <2>4. PauseEvent \in Event /\ PauseEvent.channel # "daemon.state"
        BY EventType DEF PauseEvent
    <2> QED
        BY <1>0, <2>1, <2>3, <2>4, <2>5, PublishStream
<1>4. CASE Preview(c) \/ Register(c) \/ Fail(c)
    <2>1. PICK pc \in {"register", "resume"} : Goto(c, pc)
        BY <1>4 DEF Preview, Register, Fail
    <2>2. call'[c].pc = pc /\ \A d \in Client \ {c} : call'[d] = call[d]
        BY <1>0, <2>1, OneCallMoves
    <2>3. call[c].pc # "changed" /\ (call'[c].pc \in Announced => call[c].pc \in Announced)
          /\ (call[c].pc \in Unresumed => call'[c].pc \in Unresumed)
        BY <1>4, <2>2 DEF Preview, Register, Fail, Announced, Unresumed
    <2>4. CallsKeep
        BY <2>2, <2>3, CallMoves
    <2>5. inbox' = inbox /\ view' = view /\ sources' = sources
        BY <1>4 DEF Preview, Register, Fail, streamVars
    <2> QED
        BY <1>0, <2>4, <2>5, QuietStream DEF CallsKeep
<1>5. CASE Perform(c)
    <2> DEFINE moved == call[c].target.lib
    <2>1. /\ call[c].pc = "run" /\ Goto(c, "changed") /\ inbox' = inbox /\ sources' = sources
          /\ view'[f] = [view[f] EXCEPT !.stale = @ \cup {moved}]
        BY <1>0, <1>5 DEF Perform
    <2>2. call'[c].pc = "changed" /\ \A d \in Client \ {c} : call'[d] = call[d]
        BY <1>0, <2>1, OneCallMoves
    <2>3. call'[c].target = call[c].target
        BY <1>0, <2>1 DEF Goto, CallOK, Call
    <2>4. (Paused' => Paused) /\ Pausing'
        BY <2>1, <2>2 DEF Paused, Pausing
    <2>5. \A lib \in Library : Changing(lib) => Changing(lib)'
        BY <2>1, <2>2 DEF Changing
    <2>6. Changing(moved)'
        BY <2>2, <2>3 DEF Changing
    <2>7. /\ view'[f].pc = view[f].pc /\ view'[f].state = view[f].state
          /\ view'[f].paused = view[f].paused /\ view'[f].late = view[f].late
          /\ view'[f].stale = view[f].stale \cup {moved}
        <3> HIDE DEF moved
        <3> QED
            BY <1>0, <2>1 DEF View
    <2>8. StateStream(inbox[f], view[f])'
        BY <1>0, <2>1, <2>7 DEF StreamOK, StateStream, StateEvent
    <2>9. /\ PauseStream(inbox[f], view[f])' /\ ResumeStream(inbox[f], view[f])'
          /\ EndOfStream(inbox[f], view[f])'
        BY <1>0, <2>1, <2>4, <2>7 DEF StreamOK, PauseStream, ResumeStream, EndOfStream
    <2>10. ChangeStream(inbox[f], view[f])'
        <3> SUFFICES ASSUME NEW lib \in Library, ~inbox[f].lagged,
                            view[f].pc \in {"paused", "following"},
                            lib \in view[f].stale \/ lib = call[c].target.lib
                     PROVE  \/ Changing(lib)'
                            \/ \E k \in 1..Len(inbox[f].events) :
                                   inbox[f].events[k] = ChangeEvent(lib)
            BY <2>1, <2>7 DEF ChangeStream, ChangeEvent
        <3>1. CASE lib = call[c].target.lib
            BY <2>2, <2>3, <3>1 DEF Changing
        <3>2. CASE lib \in view[f].stale
            BY <1>0, <2>5, <3>2 DEF StreamOK, ChangeStream
        <3> QED
            BY <3>1, <3>2
    <2> QED
        BY <2>8, <2>9, <2>10 DEF StreamOK
<1>6. CASE AnnounceChange(c)
    <2> DEFINE e == ChangeEvent(call[c].target.lib)
    <2>1. /\ Publish(e) /\ Goto(c, "resume") /\ view' = view /\ sources' = sources
          /\ call[c].pc = "changed"
        BY <1>6 DEF AnnounceChange, ChangeEvent
    <2>2. call'[c].pc = "resume" /\ \A d \in Client \ {c} : call'[d] = call[d]
        BY <1>0, <2>1, OneCallMoves
    <2>3. \A lib \in Library : Changing(lib) => Changing(lib)' \/ e = ChangeEvent(lib)
        BY <2>2 DEF Changing
    <2>4. e \in Event /\ e.channel = "library.changed"
        BY <1>0, <2>1, EventType DEF CallOK, Plan, ChangeEvent
    <2>5. (Paused' => Paused) /\ Pausing'
        BY <2>1, <2>2 DEF Paused, Pausing
    <2> HIDE DEF e
    <2> QED
        BY <1>0, <2>1, <2>3, <2>4, <2>5, PublishStream
<1>7. CASE AnnounceResume(c)
    <2> DEFINE e == ResumeEvent
    <2>1. /\ Publish(e) /\ Goto(c, "lower") /\ view' = view /\ sources' = sources
          /\ call[c].pc = "resume"
        BY <1>7 DEF AnnounceResume, ResumeEvent
    <2>2. call'[c].pc = "lower" /\ \A d \in Client \ {c} : call'[d] = call[d]
        BY <1>0, <2>1, OneCallMoves
    <2>3. \A lib \in Library : Changing(lib) => Changing(lib)'
        BY <2>1, <2>2 DEF Changing
    <2>4. e \in Event /\ e.channel # "daemon.state"
        BY EventType DEF ResumeEvent
    <2>5. ~Paused'
        BY <2>1, <2>2 DEF Paused, SessionInv, InSession, Session
    <2> QED
        BY <1>0, <2>1, <2>3, <2>4, <2>5, PublishStream
<1>8. CASE Unlock(c)
    <2>1. /\ call' = [call EXCEPT ![c] = NoCall] /\ call[c].pc = "unlock"
          /\ inbox' = inbox /\ view' = view /\ sources' = sources
        BY <1>8 DEF Unlock, streamVars
    <2>2. call'[c] = NoCall /\ \A d \in Client \ {c} : call'[d] = call[d]
        BY <1>0, <2>1, OneCallIsReplaced
    <2>3. call'[c].pc = "idle" /\ \A d \in Client \ {c} : call'[d] = call[d]
        BY <2>2 DEF NoCall
    <2>4. CallsKeep
        BY <2>1, <2>3, CallMoves DEF Announced, Unresumed
    <2> QED
        BY <1>0, <2>1, <2>4, QuietStream DEF CallsKeep
<1> QED
    BY <1>1, <1>2, <1>3, <1>4, <1>5, <1>6, <1>7, <1>8 DEF SessionStep

\* A request coming in, a connection going away.
LEMMA RequestStream ==
    ASSUME Types, KnowInv, NEW c \in Client,
           \/ \E op \in Op, target \in Plan : Open(c, op, target)
           \/ \E id \in PlanId, target \in Plan : Execute(c, id, target)
           \/ Disconnect(c),
           NEW f \in Follower
    PROVE  StreamOK(inbox[f], view[f])'
<1>0. CallOK /\ StreamOK(inbox[f], view[f])
    BY DEF Types, KnowInv
<1>1. inbox' = inbox /\ view' = view /\ sources' = sources
    BY DEF Open, Execute, Disconnect, streamVars
<1>2. ASSUME call[c].pc = "idle",
             NEW new, call' = [call EXCEPT ![c] = new], new.pc \in {"raise", "taken"}
      PROVE  CallsKeep
    <2>1. call'[c] = new /\ \A d \in Client \ {c} : call'[d] = call[d]
        BY <1>0, <1>2, OneCallIsReplaced
    <2>2. call'[c].pc \notin Announced /\ call[c].pc \notin Unresumed
        BY <1>2, <2>1 DEF Announced, Unresumed
    <2> QED
        BY <1>2, <2>1, <2>2, CallMoves
<1>3. CallsKeep
    <2>1. ASSUME NEW op \in Op, NEW target \in Plan, Open(c, op, target)
          PROVE  CallsKeep
        <3> DEFINE new == [NoCall EXCEPT !.pc = "raise", !.op = op, !.target = target]
        <3>1. call[c].pc = "idle" /\ call' = [call EXCEPT ![c] = new]
            BY <2>1 DEF Open, Issue, Begin
        <3>2. new.pc = "raise"
            BY DEF NoCall
        <3> HIDE DEF new
        <3> QED
            BY <1>2, <3>1, <3>2
    <2>2. ASSUME NEW id \in PlanId, NEW target \in Plan, Execute(c, id, target)
          PROVE  CallsKeep
        <3>1. CASE Redeems(id, target)
            <4> DEFINE new == [NoCall EXCEPT !.pc = "taken", !.op = "execute", !.target = target]
            <4>1. call[c].pc = "idle" /\ call' = [call EXCEPT ![c] = new]
                BY <2>2, <3>1 DEF Execute, Issue
            <4>2. new.pc = "taken"
                BY DEF NoCall
            <4> HIDE DEF new
            <4> QED
                BY <1>2, <4>1, <4>2
        <3>2. CASE ~Redeems(id, target)
            BY <2>2, <3>2 DEF Execute, CallsKeep, Paused, Pausing, Changing
        <3> QED
            BY <3>1, <3>2
    <2>3. CASE Disconnect(c)
        <3>1. \A d \in Client : call'[d].pc = call[d].pc /\ call'[d].target = call[d].target
            BY <1>0, <2>3 DEF Disconnect, CallOK, Call
        <3> QED
            BY <3>1 DEF CallsKeep, Paused, Pausing, Changing
    <2> QED
        BY <2>1, <2>2, <2>3
<1> QED
    BY <1>0, <1>1, <1>3, QuietStream DEF CallsKeep

LEMMA KnowInvStep == Types /\ SessionInv /\ KnowInv /\ [Next]_vars => KnowInv'
<1> SUFFICES ASSUME Types, SessionInv, KnowInv, [Next]_vars
             PROVE  KnowInv'
    OBVIOUS
<1>0. sources \in Sources /\ (closing => sources.stopping)
    BY DEF Types, TypeOK, KnowInv
\* The shutdown, once begun, is not taken back.
<1>1. closing' => sources'.stopping
    <2>1. CASE ToggleSource \/ SetStopping \/ BroadcastShutdown \/ (\E id \in PlanId : Expire(id))
        BY <1>0, <2>1
        DEF ToggleSource, SetStopping, BroadcastShutdown, Expire, UpdateSources, Sources
    <2>2. ASSUME NEW c \in Client, SessionStep(c)
          PROVE  closing' => sources'.stopping
        BY <1>0, <2>2
        DEF SessionStep, OpenWithPlan, Raise, AnnouncePause, Preview, Register, Perform, Fail,
            AnnounceChange, AnnounceResume, Lower, Unlock, UpdateSources, Sources
    <2>3. ASSUME NEW c \in Client,
                 \/ \E op \in Op, target \in Plan : Open(c, op, target)
                 \/ \E id \in PlanId, target \in Plan : Execute(c, id, target)
                 \/ Disconnect(c)
          PROVE  closing' => sources'.stopping
        BY <1>0, <2>3 DEF Open, Execute, Disconnect
    <2>4. ASSUME NEW f \in Follower, FollowerNext(f)
          PROVE  closing' => sources'.stopping
        BY <1>0, <2>4
        DEF FollowerNext, FollowerStep, Subscribe, SnapshotState, SnapshotLibrary,
            SnapshotPaused, Deliver, DeliverLag, Close
    <2>5. CASE UNCHANGED vars
        BY <1>0, <2>5 DEF vars
    <2> QED
        BY <2>1, <2>2, <2>3, <2>4, <2>5 DEF Next, FollowerNext
<1>2. ASSUME NEW f \in Follower
      PROVE  StreamOK(inbox[f], view[f])'
    <2>0. StreamOK(inbox[f], view[f])
        BY DEF KnowInv
    <2>1. CASE ToggleSource \/ SetStopping
        <3>1. PICK s \in Sources : UpdateSources(s)
            BY <1>0, <2>1 DEF ToggleSource, SetStopping, Sources
        <3>2. view' = view /\ call' = call
            BY <2>1 DEF ToggleSource, SetStopping
        <3> QED
            BY <2>0, <3>1, <3>2, SourcesStream DEF Paused, Pausing, Changing
    <2>2. CASE BroadcastShutdown \/ (\E id \in PlanId : Expire(id)) \/ UNCHANGED vars
        <3>1. inbox' = inbox /\ view' = view /\ call' = call /\ sources' = sources
            BY <2>2 DEF BroadcastShutdown, Expire, streamVars, vars
        <3> QED
            BY <2>0, <3>1, QuietStream DEF Paused, Pausing, Changing
    <2>3. ASSUME NEW c \in Client, SessionStep(c)
          PROVE  StreamOK(inbox[f], view[f])'
        BY <2>3, SessionStream
    <2>4. ASSUME NEW c \in Client,
                 \/ \E op \in Op, target \in Plan : Open(c, op, target)
                 \/ \E id \in PlanId, target \in Plan : Execute(c, id, target)
                 \/ Disconnect(c)
          PROVE  StreamOK(inbox[f], view[f])'
        BY <2>4, RequestStream
    <2>5. ASSUME NEW g \in Follower, FollowerNext(g)
          PROVE  StreamOK(inbox[f], view[f])'
        <3>1. CASE g = f
            BY <2>5, <3>1, FollowerStream
        <3>2. CASE g # f
            <4>1. inbox'[f] = inbox[f] /\ view'[f] = view[f]
                BY <2>5, <3>2
                DEF FollowerNext, Subscribe, SnapshotState, SnapshotLibrary, SnapshotPaused,
                    Deliver, DeliverLag, Close, Types, TypeOK
            <4>2. call' = call /\ sources' = sources
                BY <2>5
                DEF FollowerNext, FollowerStep, Subscribe, SnapshotState, SnapshotLibrary,
                    SnapshotPaused, Deliver, DeliverLag, Close
            <4> QED
                BY <2>0, <4>1, <4>2, QuietStream DEF Paused, Pausing, Changing
        <3> QED
            BY <3>1, <3>2
    <2> QED
        BY <2>1, <2>2, <2>3, <2>4, <2>5 DEF Next, FollowerNext
<1> QED
    BY <1>1, <1>2 DEF KnowInv

\* A subscriber that has heard everything sent to it knows the state, the
\* pause and the changed libraries, save for an end of a pause it asked about
\* before the writing state was down, and one the shutdown closed knows that,
\* for receivers of any capacity and any number of subscribers.
THEOREM SubscribersAreTold == Spec => []SubscribersKnow
<1>1. Init => KnowInv
    <2> SUFFICES ASSUME Init, NEW f \in Follower
                 PROVE  StreamOK(inbox[f], view[f])
        BY DEF Init, KnowInv
    <2>1. inbox[f] = Empty /\ view[f] = Unsubscribed
        BY DEF Init
    <2>2. \A k \in 1..Len(<<>>) : FALSE
        OBVIOUS
    <2>3. /\ StateStream(inbox[f], view[f]) /\ PauseStream(inbox[f], view[f])
          /\ ResumeStream(inbox[f], view[f])
        BY <2>1, <2>2 DEF StateStream, PauseStream, ResumeStream, Says, Empty, Unsubscribed
    <2>4. ChangeStream(inbox[f], view[f]) /\ EndOfStream(inbox[f], view[f])
        BY <2>1 DEF ChangeStream, EndOfStream, Empty, Unsubscribed
    <2> QED
        BY <2>3, <2>4 DEF StreamOK
<1>2. KnowInv => SubscribersKnow
    <2> SUFFICES ASSUME KnowInv
                 PROVE  SubscribersKnow
        OBVIOUS
    <2>1. \A k \in 1..Len(<<>>) : FALSE
        OBVIOUS
    <2>2. ASSUME NEW f \in Follower, Told(f)
          PROVE  /\ view[f].state = Resolve(sources)
                 /\ Paused => view[f].paused
                 /\ Pausing \/ ~view[f].paused \/ view[f].late
                 /\ \A lib \in Library : lib \in view[f].stale => Changing(lib)
        <3>1. /\ view[f].pc = "following" /\ inbox[f].events = <<>> /\ ~inbox[f].lagged
              /\ StreamOK(inbox[f], view[f])
            BY <2>2 DEF Told, Empty, KnowInv
        <3>2. \A channel : Silent(inbox[f].events, channel)
            BY <2>1, <3>1 DEF Silent
        <3> QED
            BY <2>1, <3>1, <3>2
            DEF StreamOK, StateStream, PauseStream, ResumeStream, ChangeStream
    <2>3. StateIsHeard /\ PauseIsHeard /\ ResumeIsHeard /\ ChangesAreHeard
        BY <2>2
        DEF StateIsHeard, PauseIsHeard, ResumeIsHeard, ChangesAreHeard, Paused, Pausing, Changing
    <2>4. StoppingIsHeard
        BY DEF StoppingIsHeard, KnowInv, StreamOK, EndOfStream
    <2> QED
        BY <2>3, <2>4 DEF SubscribersKnow
<1> QED
    BY <1>1, <1>2, KnowInvStep, SessionsAlways, TypesAlways, PTL DEF Spec
============================================================================
