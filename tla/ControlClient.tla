---------------------------- MODULE ControlClient ----------------------------
(***************************************************************************)
(* One connection of the control-plane client: calls multiplexed over it,  *)
(* the reader task that matches answers to them, the subscription its      *)
(* callers share, and the daemon's end, which serves a connection one      *)
(* request at a time.                                                      *)
(*                                                                         *)
(* Each await on a lock or on the socket lets another task in, so a call   *)
(* is a chain of actions: check, register, write, wait, reclaim.           *)
(***************************************************************************)
EXTENDS Naturals, Sequences, FiniteSets

CONSTANTS
    Caller,      \* tasks that share the client
    Timed,       \* those whose calls have a timeout
    NoCaller,    \* nobody holds the subscription's lock
    MaxCalls,    \* bound on the calls made over the connection
    MaxEvents    \* bound on the events the daemon pushes

ASSUME ControlClientAssumption ==
    /\ NoCaller \notin Caller
    /\ Timed \subseteq Caller
    /\ MaxCalls \in Nat
    /\ MaxEvents \in Nat

VARIABLES
    call,        \* what each caller is doing
    pending,     \* ids with a slot in the pending map
    slot,        \* what each id's oneshot holds
    nextId,      \* next_id
    lock,        \* who holds the subscription's lock
    subscribed,  \* the flag under it
    stream,      \* each caller's event receiver
    reader,      \* how far the reader task has got
    toDaemon,    \* requests on their way
    toClient,    \* answers and events on their way
    daemon,      \* the daemon's end of the connection
    pushed       \* events pushed so far

clientVars == <<call, pending, slot, nextId, lock, subscribed, stream>>
vars == <<clientVars, reader, toDaemon, toClient, daemon, pushed>>

-----------------------------------------------------------------------------
(* Values.                                                                 *)

Id == 1..MaxCalls

Outcome == {"ok", "refused", "closed", "timeout", "transport"}

\* `serial` names the request whatever id it went out under; `answer` is the
\* request the answer was made for.  `late`: begun after some receiver had
\* read the end of the stream.  `missed`: registered after the map was drained.
Call == [pc : {"idle", "lock", "check", "register", "write", "wait", "reclaim"},
         op : {"call", "subscribe"}, id : Id \cup {0}, serial : Id \cup {0},
         outcome : Outcome \cup {"none"}, answer : Id \cup {0}, late : BOOLEAN,
         missed : BOOLEAN]
NoCall == [pc |-> "idle", op |-> "call", id |-> 0, serial |-> 0,
           outcome |-> "none", answer |-> 0, late |-> FALSE, missed |-> FALSE]

NoAnswer == [value |-> "none", serial |-> 0]

Request == [id : Id, serial : Id, op : {"call", "subscribe"}]
Frame   == [kind : {"answer"}, id : Id, serial : Id, value : {"ok", "refused"}]
           \cup [kind : {"snapshot", "event"}]

\* `told`: the subscription was made for this receiver; `snapshot`: the
\* snapshot bundle reached it.
NoStream == [state |-> "off", told |-> FALSE, snapshot |-> FALSE]
NewStream == [NoStream EXCEPT !.state = "open"]

Init ==
    /\ call = [c \in Caller |-> NoCall]
    /\ pending = {}
    /\ slot = [id \in Id |-> NoAnswer]
    /\ nextId = 1
    /\ lock = NoCaller
    /\ subscribed = FALSE
    /\ stream = [c \in Caller |-> NoStream]
    /\ reader = "reading"
    /\ toDaemon = <<>>
    /\ toClient = <<>>
    /\ daemon = [state |-> "serving", subscribed |-> FALSE, owes |-> FALSE]
    /\ pushed = 0

-----------------------------------------------------------------------------
(* The reader task.                                                        *)

Closed        == reader # "reading"
Drained       == reader \in {"drained", "gone"}
SenderDropped == reader = "gone"

Connection == <<toDaemon, daemon, pushed>>

\* An answer goes to the slot of its id, if the slot is still there.
ReadAnswer ==
    LET frame == Head(toClient)
    IN  /\ reader = "reading"
        /\ toClient # <<>>
        /\ frame.kind = "answer"
        /\ toClient' = Tail(toClient)
        /\ pending' = pending \ {frame.id}
        /\ slot' = IF frame.id \in pending
                   THEN [slot EXCEPT ![frame.id] = [value |-> frame.value, serial |-> frame.serial]]
                   ELSE slot
        /\ UNCHANGED <<call, nextId, lock, subscribed, stream, reader, Connection>>

\* An event goes to every receiver there is.
ReadEvent ==
    LET frame == Head(toClient)
    IN  /\ reader = "reading"
        /\ toClient # <<>>
        /\ frame.kind \in {"snapshot", "event"}
        /\ toClient' = Tail(toClient)
        /\ stream' = [c \in Caller |->
               IF stream[c].state = "open" /\ frame.kind = "snapshot"
               THEN [stream[c] EXCEPT !.snapshot = TRUE] ELSE stream[c]]
        /\ UNCHANGED <<call, pending, slot, nextId, lock, subscribed, reader, Connection>>

ReadEnd ==
    /\ reader = "reading"
    /\ toClient = <<>>
    /\ daemon.state # "serving"
    /\ reader' = "closed"
    /\ UNCHANGED <<clientVars, toClient, Connection>>

\* Mutant: whoever waits at the end is forgotten.
LeaveThem ==
    /\ reader = "closed"
    /\ reader' = "drained"
    /\ UNCHANGED <<clientVars, toClient, Connection>>

\* The flag is up before the map is drained.
Drain ==
    /\ reader = "closed"
    /\ slot' = [id \in Id |-> IF id \in pending THEN [NoAnswer EXCEPT !.value = "closed"]
                                                ELSE slot[id]]
    /\ pending' = {}
    /\ reader' = "drained"
    /\ UNCHANGED <<call, nextId, lock, subscribed, stream, toClient, Connection>>

\* Returning drops the only strong sender.
ReaderReturns ==
    /\ reader = "drained"
    /\ reader' = "gone"
    /\ UNCHANGED <<clientVars, toClient, Connection>>

ReaderStep == ReadAnswer \/ ReadEvent \/ ReadEnd \/ Drain \/ ReaderReturns

-----------------------------------------------------------------------------
(* Calls.                                                                  *)

Outside == UNCHANGED <<reader, toClient, daemon, pushed>>

Goto(c, pc) == call' = [call EXCEPT ![c].pc = pc]

\* A call is over: the caller is free again and keeps the outcome.
Return(c, outcome, answer) ==
    call' = [call EXCEPT ![c].pc = "idle", ![c].outcome = outcome, ![c].answer = answer]

\* Mutant: the flag goes up whatever the daemon said.
SettleAnyhow(c, outcome) ==
    IF call[c].op = "subscribe"
    THEN /\ lock' = NoCaller
         /\ subscribed' = TRUE
         /\ stream' = [stream EXCEPT ![c] = IF outcome = "ok" THEN [@ EXCEPT !.told = TRUE]
                                                              ELSE NoStream]
    ELSE UNCHANGED <<lock, subscribed, stream>>

\* How a call's end settles the subscription it may have been for: the flag
\* only with an answer that says so, the receiver dropped with an error, the
\* lock given back.
Settle(c, outcome) ==
    IF call[c].op = "subscribe"
    THEN /\ lock' = NoCaller
         /\ subscribed' = (outcome = "ok")
         /\ stream' = [stream EXCEPT ![c] = IF outcome = "ok" THEN [@ EXCEPT !.told = TRUE]
                                                              ELSE NoStream]
    ELSE UNCHANGED <<lock, subscribed, stream>>

\* A plain call starts with the check, a subscriber queues for the lock.  The
\* bound leaves an id for every call that has not taken its own.
Begin(c, op) ==
    /\ call[c].pc = "idle"
    /\ op = "subscribe" => stream[c].state # "open"
    /\ nextId + Cardinality({d \in Caller : call[d].pc \in {"lock", "check", "register"}}) \in Id
    /\ call' = [call EXCEPT ![c] =
           [NoCall EXCEPT !.pc = IF op = "subscribe" THEN "lock" ELSE "check", !.op = op,
                          !.late = \E d \in Caller : stream[d].state = "ended"]]
    /\ UNCHANGED <<pending, slot, nextId, lock, subscribed, stream, toDaemon>>
    /\ Outside

\* subscribe: the receiver comes before the request; a connection that is
\* already subscribed needs none.
EnterSubscribe(c) ==
    /\ call[c].pc = "lock"
    /\ lock = NoCaller
    /\ IF SenderDropped
       THEN Return(c, "closed", 0) /\ UNCHANGED <<lock, stream>>
       ELSE /\ stream' = [stream EXCEPT ![c] = NewStream]
            /\ IF subscribed THEN Return(c, "ok", 0) /\ UNCHANGED lock
                             ELSE Goto(c, "check") /\ lock' = c
    /\ UNCHANGED <<pending, slot, nextId, subscribed, toDaemon>>
    /\ Outside

Check(c) ==
    /\ call[c].pc = "check"
    /\ IF Closed THEN Return(c, "closed", 0) /\ Settle(c, "closed")
                 ELSE Goto(c, "register") /\ UNCHANGED <<lock, subscribed, stream>>
    /\ UNCHANGED <<pending, slot, nextId, toDaemon>>
    /\ Outside

\* Mutant: the least id that is free.
LeastFreeId == CHOOSE id \in Id : id \notin pending /\ \A j \in Id \ pending : id <= j

FreshId == nextId

\* The slot is there before the request goes out.
Register(c) ==
    /\ call[c].pc = "register"
    /\ nextId \in Id
    /\ call' = [call EXCEPT ![c].pc = "write", ![c].id = FreshId, ![c].serial = nextId,
                            ![c].missed = Drained]
    /\ pending' = pending \cup {FreshId}
    /\ slot' = [slot EXCEPT ![FreshId] = NoAnswer]
    /\ nextId' = nextId + 1
    /\ UNCHANGED <<lock, subscribed, stream, toDaemon>>
    /\ Outside

\* Bytes are taken as long as the daemon's end is open, read or not.
Write(c) ==
    /\ call[c].pc = "write"
    /\ IF daemon.state = "gone"
       THEN /\ call' = [call EXCEPT ![c].pc = "reclaim", ![c].outcome = "transport"]
            /\ UNCHANGED toDaemon
       ELSE /\ Goto(c, "wait")
            /\ toDaemon' = Append(toDaemon, [id |-> call[c].id, serial |-> call[c].serial,
                                             op |-> call[c].op])
    /\ UNCHANGED <<pending, slot, nextId, lock, subscribed, stream>>
    /\ Outside

TakeAnswer(c) ==
    LET answer == slot[call[c].id]
    IN  /\ call[c].pc = "wait"
        /\ answer.value # "none"
        /\ Return(c, answer.value, answer.serial)
        /\ Settle(c, answer.value)
        /\ UNCHANGED <<pending, slot, nextId, toDaemon>>
        /\ Outside

\* The timer wins only against an empty slot.
TimeOut(c) ==
    /\ c \in Timed
    /\ call[c].pc = "wait"
    /\ slot[call[c].id].value = "none"
    /\ call' = [call EXCEPT ![c].pc = "reclaim", ![c].outcome = "timeout"]
    /\ UNCHANGED <<pending, slot, nextId, lock, subscribed, stream, toDaemon>>
    /\ Outside

\* A failed write or a timeout takes its slot back.
Reclaim(c) ==
    /\ call[c].pc = "reclaim"
    /\ pending' = pending \ {call[c].id}
    /\ Return(c, call[c].outcome, 0)
    /\ Settle(c, call[c].outcome)
    /\ UNCHANGED <<slot, nextId, toDaemon>>
    /\ Outside

CallStep(c) ==
    Check(c) \/ Register(c) \/ Write(c) \/ TakeAnswer(c) \/ TimeOut(c) \/ Reclaim(c)

\* A receiver the caller holds has read everything and finds the sender gone.
HearEnd(c) ==
    /\ stream[c].state = "open"
    /\ call[c].pc = "idle" \/ call[c].op = "call"
    /\ SenderDropped
    /\ stream' = [stream EXCEPT ![c].state = "ended"]
    /\ UNCHANGED <<call, pending, slot, nextId, lock, subscribed, toDaemon>>
    /\ Outside

-----------------------------------------------------------------------------
(* The daemon's end: serve_connection.                                     *)

Client == UNCHANGED <<clientVars, reader>>

\* One request is read, handled and answered before anything else happens on
\* the connection; an answered events.subscribe has its receiver by then and
\* owes the snapshot.
Serve ==
    LET request == Head(toDaemon)
    IN  /\ daemon.state = "serving"
        /\ ~daemon.owes
        /\ toDaemon # <<>>
        /\ toDaemon' = Tail(toDaemon)
        /\ \E value \in {"ok", "refused"} :
               /\ toClient' = Append(toClient, [kind |-> "answer", id |-> request.id,
                                                serial |-> request.serial, value |-> value])
               /\ daemon' = IF request.op = "subscribe" /\ value = "ok"
                            THEN [daemon EXCEPT !.subscribed = TRUE, !.owes = TRUE] ELSE daemon
        /\ UNCHANGED pushed
        /\ Client

SendSnapshot ==
    /\ daemon.state = "serving"
    /\ daemon.owes
    /\ toClient' = Append(toClient, [kind |-> "snapshot"])
    /\ daemon' = [daemon EXCEPT !.owes = FALSE]
    /\ UNCHANGED <<toDaemon, pushed>>
    /\ Client

Push ==
    /\ daemon.state = "serving"
    /\ daemon.subscribed /\ ~daemon.owes
    /\ pushed < MaxEvents
    /\ pushed' = pushed + 1
    /\ toClient' = Append(toClient, [kind |-> "event"])
    /\ UNCHANGED <<toDaemon, daemon>>
    /\ Client

\* The shutdown arm: the write half first ...
StopWriting ==
    /\ daemon.state = "serving"
    /\ ~daemon.owes
    /\ daemon' = [daemon EXCEPT !.state = "shut"]
    /\ UNCHANGED <<toDaemon, toClient, pushed>>
    /\ Client

\* ... then both; a daemon that dies leaves out the first.  What it has not
\* read is lost.
Hangup ==
    /\ daemon.state # "gone"
    /\ daemon' = [daemon EXCEPT !.state = "gone"]
    /\ toDaemon' = <<>>
    /\ UNCHANGED <<toClient, pushed>>
    /\ Client

-----------------------------------------------------------------------------

Next ==
    \/ ReaderStep
    \/ \E c \in Caller :
           \/ \E op \in {"call", "subscribe"} : Begin(c, op)
           \/ EnterSubscribe(c)
           \/ CallStep(c)
           \/ HearEnd(c)
    \/ Serve \/ SendSnapshot \/ Push \/ StopWriting \/ Hangup

Spec == Init /\ [][Next]_vars

\* The tasks run; the lock is a queue, so no subscriber is passed over for
\* ever; a daemon that has shut its write half goes on to drop the rest.
Fairness ==
    /\ WF_vars(ReaderStep)
    /\ \A c \in Caller : WF_vars(CallStep(c)) /\ SF_vars(EnterSubscribe(c))
    /\ WF_vars(Serve) /\ WF_vars(SendSnapshot)
    /\ WF_vars(daemon.state = "shut" /\ Hangup)

FairSpec == Spec /\ Fairness

-----------------------------------------------------------------------------
(* Properties.                                                             *)

TypeOK ==
    /\ call \in [Caller -> Call]
    /\ pending \subseteq Id
    /\ slot \in [Id -> [value : Outcome \cup {"none"}, serial : Id \cup {0}]]
    /\ nextId \in 1..(MaxCalls + 1)
    /\ lock \in Caller \cup {NoCaller}
    /\ subscribed \in BOOLEAN
    /\ stream \in [Caller -> [state : {"off", "open", "ended"}, told : BOOLEAN,
                              snapshot : BOOLEAN]]
    /\ reader \in {"reading", "closed", "drained", "gone"}
    /\ toDaemon \in Seq(Request)
    /\ toClient \in Seq(Frame)
    /\ daemon \in [state : {"serving", "shut", "gone"}, subscribed : BOOLEAN, owes : BOOLEAN]
    /\ pushed \in 0..MaxEvents

\* Every answer a caller is given was made for its own request, whatever
\* timed out before and is answered late, and no slot outlives its call
\* (call_raw_with_timeout: "so a late reply does not leak").
CallsAreMatched ==
    /\ \A c \in Caller : call[c].answer # 0 => call[c].answer = call[c].serial
    /\ pending \subseteq {call[c].id : c \in {d \in Caller : call[d].pc \in {"write", "wait", "reclaim"}}}

Serving == daemon.state = "serving"

\* Nobody takes the connection for subscribed unless the daemon is: a refused
\* or timed-out attempt is made again by the next subscriber.
NoPhantomSubscription == subscribed /\ Serving => daemon.subscribed

\* The subscriber that made the subscription hears the snapshot.
SnapshotIsHeard ==
    \A c \in Caller :
        stream[c].told /\ ~stream[c].snapshot /\ Serving =>
            daemon.owes \/ \E i \in DOMAIN toClient : toClient[i].kind = "snapshot"

\* A call made after a receiver read the end of the stream fails as closed.
EndIsFinal ==
    \A c \in Caller : call[c].late /\ call[c].pc = "idle" => call[c].outcome = "closed"

\* What subscribe promises those who share a connection.
SubscriptionHolds == NoPhantomSubscription /\ SnapshotIsHeard /\ EndIsFinal

InCall(c) == call[c].pc # "idle"

\* A call without a timeout that passed the check before the connection
\* ended and registered after the map was drained: nobody is left to answer.
Stranded(c) == c \notin Timed /\ call[c].pc = "wait" /\ call[c].missed

\* A call ends, by its answer, its timeout or the end of the connection,
\* unless it or the subscriber it queues behind was stranded.
CallsEnd ==
    \A c \in Caller : InCall(c) ~> ~InCall(c) \/ \E d \in Caller : Stranded(d)
=============================================================================
