--------------------------- MODULE WriteSessions ---------------------------
(***************************************************************************)
(* Write sessions of the control plane, the plans their dry runs issue,    *)
(* and what subscribers of the event stream see of them.                   *)
(*                                                                         *)
(* A write takes the daemon-wide write mutex, raises the writing state,    *)
(* announces the MCP pause, runs, announces the change and undoes all of   *)
(* it in reverse.  The steps run on a blocking thread beside every other   *)
(* connection, so each is an action.  A subscriber gets a receiver, then a *)
(* snapshot of each channel, then the events; a receiver that falls behind *)
(* loses the oldest events and is told so.                                 *)
(***************************************************************************)
EXTENDS Naturals, Sequences, FiniteSets

CONSTANTS
    Client,        \* connections that issue writes
    NoClient,      \* nobody holds the write mutex
    Follower,      \* connections that subscribe to events
    Library,       \* the libraries writes act on
    Kind,          \* the methods that run from a plan
    Cause,         \* the degraded causes
    Capacity,      \* events a receiver can fall behind
    MaxPlans,      \* bound on the plans ever registered
    MaxRequests    \* bound on the requests, disconnects and state changes

PlanId == 1..MaxPlans

ASSUME WriteSessionsAssumption ==
    /\ NoClient \notin Client
    /\ Capacity \in Nat \ {0}
    /\ MaxPlans \in Nat
    /\ MaxRequests \in Nat

VARIABLES
    holder,    \* who holds the write mutex
    sources,   \* StateSources
    call,      \* what each client's request is doing
    plans,     \* what each plan id was registered for
    table,     \* the ids in the plan registry
    expired,   \* the ids whose time to live has passed
    redeemed,  \* how often each id was redeemed
    inbox,     \* each follower's broadcast receiver
    view,      \* what each follower has been told
    closing,   \* the shutdown broadcast has been sent
    requests   \* requests, disconnects and state changes so far

planVars   == <<plans, table, expired, redeemed>>
streamVars == <<inbox, view>>
vars == <<holder, sources, call, planVars, streamVars, closing, requests>>

-----------------------------------------------------------------------------
(* Values.                                                                 *)

Op == {"none", "write", "preview", "execute"}

\* "taken": the plan is redeemed, the mutex not tried yet.
\* "raise" to "unlock": the session, in the order it runs.
Session == {"raise", "pause", "run", "register", "changed", "resume", "lower", "unlock"}
CallPc  == {"idle", "taken"} \cup Session

Plan   == [kind : Kind, lib : Library]
NoPlan == [kind |-> "none"]

\* `attached`: the connection still waits for the reply.
Call == [pc : CallPc, op : Op, target : Plan \cup {NoPlan}, attached : BOOLEAN]
NoCall == [pc |-> "idle", op |-> "none", target |-> NoPlan, attached |-> TRUE]

Sources == [stopping : BOOLEAN, write : BOOLEAN, working : BOOLEAN, degraded : SUBSET Cause]

DaemonState == {"idle", "working", "writing", "degraded", "stopping"}

Event == [channel : {"daemon.state"}, state : DaemonState]
         \cup [channel : {"mcp.availability"}, paused : BOOLEAN]
         \cup [channel : {"library.changed"}, lib : Library]

\* "state", "library", "paused": the snapshot still to be written.
\* "resync": the lag marker was delivered, the client asks for a snapshot.
\* `late`, a history: the pause was read between its end being announced and
\* the writing state going down.
View == [pc : {"off", "state", "library", "paused", "following", "resync", "closed"},
         state : DaemonState, paused : BOOLEAN, late : BOOLEAN,
         stale : SUBSET Library]

Unsubscribed == [pc |-> "off", state |-> "idle", paused |-> FALSE, late |-> FALSE,
                 stale |-> {}]

Empty == [events |-> <<>>, lagged |-> FALSE]

Init ==
    /\ holder = NoClient
    /\ sources = [stopping |-> FALSE, write |-> FALSE, working |-> FALSE, degraded |-> {}]
    /\ call = [c \in Client |-> NoCall]
    /\ plans = [id \in PlanId |-> NoPlan]
    /\ table = {}
    /\ expired = {}
    /\ redeemed = [id \in PlanId |-> 0]
    /\ inbox = [f \in Follower |-> Empty]
    /\ view = [f \in Follower |-> Unsubscribed]
    /\ closing = FALSE
    /\ requests = 0

-----------------------------------------------------------------------------
(* The event stream.                                                       *)

Receives(f) == view[f].pc \notin {"off", "closed"}

\* A full receiver drops its oldest event and remembers that it lagged.
Pushed(box, event) ==
    IF Len(box.events) < Capacity
    THEN [box EXCEPT !.events = Append(@, event)]
    ELSE [events |-> Append(Tail(box.events), event), lagged |-> TRUE]

Publish(event) ==
    inbox' = [f \in Follower |-> IF Receives(f) THEN Pushed(inbox[f], event) ELSE inbox[f]]

Resolve(s) ==
    IF s.stopping THEN "stopping"
    ELSE IF s.write THEN "writing"
    ELSE IF s.working THEN "working"
    ELSE IF s.degraded # {} THEN "degraded" ELSE "idle"

\* update_sources: stored and published under one lock, and only when the
\* folded state changes.
UpdateSources(s) ==
    /\ sources' = s
    /\ IF Resolve(s) = Resolve(sources) THEN UNCHANGED inbox
       ELSE Publish([channel |-> "daemon.state", state |-> Resolve(s)])

Background == requests < MaxRequests /\ requests' = requests + 1

\* The worker's job guard, and the owners of the two degraded causes.
ToggleSource ==
    /\ Background
    /\ \/ UpdateSources([sources EXCEPT !.working = ~@])
       \/ \E cause \in Cause :
              UpdateSources([sources EXCEPT !.degraded =
                                 IF cause \in @ THEN @ \ {cause} ELSE @ \cup {cause}])
    /\ UNCHANGED <<holder, call, planVars, view, closing>>

SetStopping ==
    /\ Background
    /\ ~sources.stopping
    /\ UpdateSources([sources EXCEPT !.stopping = TRUE])
    /\ UNCHANGED <<holder, call, planVars, view, closing>>

\* initiate_shutdown: the transition first, the broadcast second.
BroadcastShutdown ==
    /\ sources.stopping
    /\ ~closing
    /\ closing' = TRUE
    /\ UNCHANGED <<holder, sources, call, planVars, streamVars, requests>>

-----------------------------------------------------------------------------
(* Plans.                                                                  *)

Issued == {id \in PlanId : plans[id] # NoPlan}

\* Plans live equally long, so they expire in the order they were made.
Expire(id) ==
    /\ id \in Issued \ expired
    /\ \A older \in Issued : older < id => older \in expired
    /\ expired' = expired \cup {id}
    /\ UNCHANGED <<holder, sources, call, plans, table, redeemed, streamVars, closing, requests>>

\* Mutant: a redeemed entry stays.
TakenAndKept(id, target) == IF id \in expired THEN table \ {id} ELSE table

\* take: an expired entry goes, a mismatched one stays for its rightful
\* caller, a match consumes it.
Taken(id, target) ==
    IF id \in expired \/ plans[id] = target THEN table \ {id} ELSE table

Redeems(id, target) == id \in table \ expired /\ plans[id] = target

-----------------------------------------------------------------------------
(* Requests.                                                               *)

Issue(c) == call[c].pc = "idle" /\ Background

Begin(c, op, target) ==
    /\ holder' = c
    /\ call' = [call EXCEPT ![c] = [NoCall EXCEPT !.pc = "raise", !.op = op, !.target = target]]

\* A write without a plan, or a dry run.  One that finds the mutex taken is
\* told BUSY.
Open(c, op, target) ==
    /\ Issue(c)
    /\ op \in {"write", "preview"}
    /\ holder = NoClient
    /\ Begin(c, op, target)
    /\ UNCHANGED <<sources, planVars, streamVars, closing>>

\* The execute leg redeems its plan first ...
Execute(c, id, target) ==
    /\ Issue(c)
    /\ id \in Issued
    /\ table' = Taken(id, target)
    /\ IF Redeems(id, target)
       THEN /\ redeemed' = [redeemed EXCEPT ![id] = @ + 1]
            /\ call' = [call EXCEPT ![c] = [NoCall EXCEPT !.pc = "taken", !.op = "execute",
                                                          !.target = target]]
       ELSE UNCHANGED <<redeemed, call>>
    /\ UNCHANGED <<holder, sources, plans, expired, streamVars, closing>>

\* ... and tries the mutex afterwards.
OpenWithPlan(c) ==
    /\ call[c].pc = "taken"
    /\ IF holder = NoClient
       THEN holder' = c /\ call' = [call EXCEPT ![c].pc = "raise"]
       ELSE UNCHANGED holder /\ call' = [call EXCEPT ![c] = NoCall]
    /\ UNCHANGED <<sources, planVars, streamVars, closing, requests>>

Goto(c, pc) == call' = [call EXCEPT ![c].pc = pc]

Raise(c) ==
    /\ call[c].pc = "raise"
    /\ UpdateSources([sources EXCEPT !.write = TRUE])
    /\ Goto(c, "pause")
    /\ UNCHANGED <<holder, planVars, view, closing, requests>>

AnnouncePause(c) ==
    /\ call[c].pc = "pause"
    /\ Publish([channel |-> "mcp.availability", paused |-> TRUE])
    /\ Goto(c, "run")
    /\ UNCHANGED <<holder, sources, planVars, view, closing, requests>>

\* The dry run looks at its library, then pins what it saw.
Preview(c) ==
    /\ call[c].pc = "run"
    /\ call[c].op = "preview"
    /\ Goto(c, "register")
    /\ UNCHANGED <<holder, sources, planVars, streamVars, closing, requests>>

\* register: the expired entries go, the new one comes under a fresh id.
Register(c) ==
    LET id == Cardinality(Issued) + 1
    IN  /\ call[c].pc = "register"
        /\ id \in PlanId
        /\ plans' = [plans EXCEPT ![id] = call[c].target]
        /\ table' = (table \ expired) \cup {id}
        /\ Goto(c, "resume")
        /\ UNCHANGED <<holder, sources, expired, redeemed, streamVars, closing, requests>>

\* The write, ending well, moves its library: what subscribers believe about
\* it is out of date.
Perform(c) ==
    /\ call[c].pc = "run"
    /\ call[c].op # "preview"
    /\ view' = [f \in Follower |-> [view[f] EXCEPT !.stale = @ \cup {call[c].target.lib}]]
    /\ Goto(c, "changed")
    /\ UNCHANGED <<holder, sources, planVars, inbox, closing, requests>>

\* It, or a dry run, may end in an error or a panic, which the guard's drop
\* sees alike.  Such an end is announced to nobody and is taken to have left
\* the library as it was.
Fail(c) ==
    /\ call[c].pc \in {"run", "register"}
    /\ Goto(c, "resume")
    /\ UNCHANGED <<holder, sources, planVars, streamVars, closing, requests>>

AnnounceChange(c) ==
    /\ call[c].pc = "changed"
    /\ Publish([channel |-> "library.changed", lib |-> call[c].target.lib])
    /\ Goto(c, "resume")
    /\ UNCHANGED <<holder, sources, planVars, view, closing, requests>>

\* Mutant: the mutex is free before the writing state is down.
ReleaseEarly(c) ==
    /\ call[c].pc = "resume"
    /\ Publish([channel |-> "mcp.availability", paused |-> FALSE])
    /\ holder' = NoClient
    /\ Goto(c, "lower")
    /\ UNCHANGED <<sources, planVars, view, closing, requests>>

\* Dropping the session: the announcement, the state, the mutex.
AnnounceResume(c) ==
    /\ call[c].pc = "resume"
    /\ Publish([channel |-> "mcp.availability", paused |-> FALSE])
    /\ Goto(c, "lower")
    /\ UNCHANGED <<holder, sources, planVars, view, closing, requests>>

Lower(c) ==
    /\ call[c].pc = "lower"
    /\ UpdateSources([sources EXCEPT !.write = FALSE])
    /\ Goto(c, "unlock")
    /\ UNCHANGED <<holder, planVars, view, closing, requests>>

\* Mutant: the mutex goes with the reply.
UnlockAttended(c) ==
    /\ call[c].pc = "unlock"
    /\ call[c].attached
    /\ holder' = NoClient
    /\ call' = [call EXCEPT ![c] = NoCall]
    /\ UNCHANGED <<sources, planVars, streamVars, closing, requests>>

Unlock(c) ==
    /\ call[c].pc = "unlock"
    /\ holder' = NoClient
    /\ call' = [call EXCEPT ![c] = NoCall]
    /\ UNCHANGED <<sources, planVars, streamVars, closing, requests>>

\* The connection goes away while the blocking task runs: the task owns the
\* guard and goes on.
Disconnect(c) ==
    /\ Background
    /\ call[c].pc \in Session \ {"raise", "pause"}
    /\ call[c].attached
    /\ call' = [call EXCEPT ![c].attached = FALSE]
    /\ UNCHANGED <<holder, sources, planVars, streamVars, closing>>

-----------------------------------------------------------------------------
(* Subscribers: serve_connection.                                          *)

FollowerStep == UNCHANGED <<holder, sources, call, planVars, closing, requests>>

\* The receiver is taken before the reply and the snapshot go out.
Subscribe(f) ==
    /\ view[f].pc = "off"
    /\ ~closing
    /\ view' = [view EXCEPT ![f].pc = "state"]
    /\ UNCHANGED inbox
    /\ FollowerStep

\* emit_snapshot_bundle, and the reply to events.snapshot: one channel after
\* the other.  What the client is told about a channel it believes.
SnapshotState(f) ==
    /\ view[f].pc \in {"state", "resync"}
    /\ view' = [view EXCEPT ![f].pc = "library", ![f].state = Resolve(sources)]
    /\ UNCHANGED inbox
    /\ FollowerStep

SnapshotLibrary(f) ==
    /\ view[f].pc = "library"
    /\ view' = [view EXCEPT ![f].pc = "paused", ![f].stale = {}]
    /\ UNCHANGED inbox
    /\ FollowerStep

SnapshotPaused(f) ==
    /\ view[f].pc = "paused"
    /\ view' = [view EXCEPT ![f].pc = "following", ![f].paused = sources.write,
                                ![f].late = \E c \in Client : call[c].pc = "lower"]
    /\ UNCHANGED inbox
    /\ FollowerStep

Heard(v, event) ==
    CASE event.channel = "daemon.state"     -> [v EXCEPT !.state = event.state]
      [] event.channel = "mcp.availability" -> [v EXCEPT !.paused = event.paused,
                                                       !.late = FALSE]
      [] event.channel = "library.changed"  -> [v EXCEPT !.stale = @ \ {event.lib}]

Deliver(f) ==
    /\ view[f].pc \in {"following", "resync"}
    /\ ~inbox[f].lagged
    /\ inbox[f].events # <<>>
    /\ inbox' = [inbox EXCEPT ![f].events = Tail(@)]
    /\ view' = [view EXCEPT ![f] = Heard(@, Head(inbox[f].events))]
    /\ FollowerStep

\* Mutant: a lag is logged and forgotten.
IgnoreLag(f) ==
    /\ view[f].pc \in {"following", "resync"}
    /\ inbox[f].lagged
    /\ inbox' = [inbox EXCEPT ![f].lagged = FALSE]
    /\ UNCHANGED view
    /\ FollowerStep

\* A receiver that lagged says so before it goes on; the connection writes
\* a lag marker for every snapshot channel.
DeliverLag(f) ==
    /\ view[f].pc \in {"following", "resync"}
    /\ inbox[f].lagged
    /\ inbox' = [inbox EXCEPT ![f].lagged = FALSE]
    /\ view' = [view EXCEPT ![f].pc = "resync"]
    /\ FollowerStep

\* The shutdown arm writes what is queued, an event at a time, up to a lag,
\* and closes; what stays in the receiver says whether the client was behind.
Close(f) ==
    /\ closing
    /\ view[f].pc \in {"following", "resync"}
    /\ inbox[f].lagged \/ inbox[f].events = <<>>
    /\ view' = [view EXCEPT ![f].pc = "closed"]
    /\ inbox' = [inbox EXCEPT ![f] = [events |-> <<>>,
                                      lagged |-> inbox[f].lagged \/ view[f].pc = "resync"]]
    /\ FollowerStep

-----------------------------------------------------------------------------

SessionStep(c) ==
    \/ OpenWithPlan(c) \/ Raise(c) \/ AnnouncePause(c)
    \/ Preview(c) \/ Register(c) \/ Perform(c) \/ Fail(c)
    \/ AnnounceChange(c) \/ AnnounceResume(c) \/ Lower(c) \/ Unlock(c)

Next ==
    \/ ToggleSource \/ SetStopping \/ BroadcastShutdown
    \/ \E id \in PlanId : Expire(id)
    \/ \E c \in Client :
           \/ \E op \in Op, target \in Plan : Open(c, op, target)
           \/ \E id \in PlanId, target \in Plan : Execute(c, id, target)
           \/ SessionStep(c)
           \/ Disconnect(c)
    \/ \E f \in Follower :
           \/ Subscribe(f) \/ SnapshotState(f) \/ SnapshotLibrary(f) \/ SnapshotPaused(f)
           \/ Deliver(f) \/ DeliverLag(f) \/ Close(f)

Spec == Init /\ [][Next]_vars

\* A blocking task, once spawned, runs to its end.
Fairness == \A c \in Client : WF_vars(SessionStep(c))

FairSpec == Spec /\ Fairness

-----------------------------------------------------------------------------
(* Properties.                                                             *)

TypeOK ==
    /\ holder \in Client \cup {NoClient}
    /\ sources \in Sources
    /\ call \in [Client -> Call]
    /\ plans \in [PlanId -> Plan \cup {NoPlan}]
    /\ table \subseteq PlanId
    /\ expired \subseteq PlanId
    /\ redeemed \in [PlanId -> Nat]
    /\ inbox \in [Follower -> [events : Seq(Event), lagged : BOOLEAN]]
    /\ \A f \in Follower : Len(inbox[f].events) <= Capacity
    /\ view \in [Follower -> View]
    /\ closing \in BOOLEAN
    /\ requests \in 0..MaxRequests

InSession(c) == call[c].pc \in Session

\* No two sessions are open at once, whatever connections come and go while
\* their blocking tasks run.
OneSessionAtATime ==
    \A c \in Client : InSession(c) => holder = c

\* While a write or a dry run is at work the daemon is writing, and once the
\* mutex is free it is not: the next writer finds the state it expects.
WritingSpansTheSession ==
    /\ \A c \in Client : call[c].pc \in {"run", "register", "changed"} => sources.write
    /\ holder = NoClient => ~sources.write

\* One writer at a time, and everybody can see it.
SessionsAreExclusive == OneSessionAtATime /\ WritingSpansTheSession

Told(f) == view[f].pc = "following" /\ inbox[f] = Empty

\* A subscriber that has heard everything sent to it knows the daemon's
\* state, whichever transitions fell between its receiver, its snapshot and
\* a lag.
StateIsHeard == \A f \in Follower : Told(f) => view[f].state = Resolve(sources)

\* It never takes the endpoint for available while a session is at work.
PauseIsHeard ==
    \A f \in Follower :
        Told(f) /\ (\E c \in Client : call[c].pc \in {"run", "register", "changed"})
            => view[f].paused

\* It does not go on believing in a pause that has ended, but for one case:
\* drop(WriteSession) announces the end before it lowers the writing state
\* the snapshot is read from, so a snapshot between the two tells a
\* subscriber that the end's announcement has passed already of the pause,
\* and the next session's announcements are the first to correct it.
ResumeIsHeard ==
    \A f \in Follower :
        Told(f) /\ view[f].paused /\ ~view[f].late
            => \E c \in Client :
                   call[c].pc \in {"pause", "run", "register", "changed", "resume"}

\* It has been told of every write to a library once the write's session is
\* past its announcement.
ChangesAreHeard ==
    \A f \in Follower, lib \in Library :
        Told(f) /\ lib \in view[f].stale =>
            \E c \in Client : call[c].pc = "changed" /\ call[c].target.lib = lib

\* A connection the shutdown closes has told its client so, unless it was
\* behind.
StoppingIsHeard ==
    \A f \in Follower :
        view[f].pc = "closed" /\ ~inbox[f].lagged => view[f].state = "stopping"

\* What subscribers believe, over slow readers, lags, resyncs and the
\* shutdown, is what the daemon did.  socket.rs claims as much: "the snapshot
\* channels are state-convergent"; ResumeIsHeard names the case it is not so.
SubscribersKnow ==
    /\ StateIsHeard
    /\ PauseIsHeard
    /\ ResumeIsHeard
    /\ ChangesAreHeard
    /\ StoppingIsHeard

\* A plan is redeemed at most once, and one that is still good leaves the
\* registry only by that: wrong methods, wrong libraries and sweeps leave it
\* for the caller it was made for (PlanRegistry::take).
PlansAreKept ==
    [][\A id \in PlanId :
           /\ redeemed'[id] # redeemed[id] => redeemed[id] = 0
           /\ id \in (table \ table') \ expired => redeemed'[id] = redeemed[id] + 1]_vars

\* Whatever becomes of its connection, a session ends.
SessionsEnd == \A c \in Client : InSession(c) ~> ~InSession(c)
=============================================================================
