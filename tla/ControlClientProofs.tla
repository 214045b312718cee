------------------------- MODULE ControlClientProofs -------------------------
(***************************************************************************)
(* Theorems about ControlClient for any callers, timeouts and bounds.      *)
(***************************************************************************)
EXTENDS ControlClient, SequenceTheorems, TLAPS

-----------------------------------------------------------------------------
(* What is on the wire.                                                    *)

In(s) == {s[i] : i \in DOMAIN s}

LEMMA AppendedIn ==
    ASSUME NEW S, NEW s \in Seq(S), NEW e \in S
    PROVE  Append(s, e) \in Seq(S) /\ In(Append(s, e)) = In(s) \cup {e}
<1>1. /\ Append(s, e) \in Seq(S)
      /\ Len(Append(s, e)) = Len(s) + 1 /\ Len(s) \in Nat
      /\ \A i \in 1..Len(s) : Append(s, e)[i] = s[i]
      /\ Append(s, e)[Len(s) + 1] = e
    BY AppendProperties
<1>2. DOMAIN Append(s, e) = 1..(Len(s) + 1) /\ DOMAIN s = 1..Len(s)
    BY <1>1
<1>3. 1..(Len(s) + 1) = 1..Len(s) \cup {Len(s) + 1}
    BY <1>1
<1> QED
    BY <1>1, <1>2, <1>3 DEF In

LEMMA TakenIn ==
    ASSUME NEW S, NEW s \in Seq(S), s # <<>>
    PROVE  /\ Head(s) \in S /\ Tail(s) \in Seq(S)
           /\ In(s) = In(Tail(s)) \cup {Head(s)}
<1>1. /\ Head(s) \in S /\ Tail(s) \in Seq(S) /\ Head(s) = s[1]
      /\ Len(Tail(s)) = Len(s) - 1 /\ Len(s) \in Nat \ {0}
      /\ \A i \in 1..Len(Tail(s)) : Tail(s)[i] = s[i + 1]
    BY HeadTailProperties
<1>2. DOMAIN Tail(s) = 1..(Len(s) - 1) /\ DOMAIN s = 1..Len(s)
    BY <1>1
<1>3. In(Tail(s)) = {s[i + 1] : i \in 1..(Len(s) - 1)}
    BY <1>1, <1>2 DEF In
<1>4. \A i \in 1..Len(s) : i = 1 \/ (i - 1 \in 1..(Len(s) - 1) /\ (i - 1) + 1 = i)
    BY <1>1
<1>5. \A i \in 1..(Len(s) - 1) : i + 1 \in 1..Len(s)
    BY <1>1
<1>6. 1 \in 1..Len(s)
    BY <1>1
<1>7. In(s) \subseteq In(Tail(s)) \cup {Head(s)}
    <2> SUFFICES ASSUME NEW i \in 1..Len(s) PROVE s[i] \in In(Tail(s)) \cup {Head(s)}
        BY <1>2 DEF In
    <2>1. CASE i = 1
        BY <2>1, <1>1
    <2>2. CASE i # 1
        <3> DEFINE j == i - 1
        <3>1. j \in 1..(Len(s) - 1) /\ s[j + 1] = s[i]
            BY <2>2, <1>4
        <3> HIDE DEF j
        <3> QED
            BY <3>1, <1>3
    <2> QED
        BY <2>1, <2>2
<1>8. In(Tail(s)) \cup {Head(s)} \subseteq In(s)
    BY <1>1, <1>2, <1>3, <1>5, <1>6 DEF In
<1> QED
    BY <1>1, <1>7, <1>8

LEMMA NothingIn == \A S : <<>> \in Seq(S) /\ In(<<>>) = {}
BY DEF In
-----------------------------------------------------------------------------
(* Type correctness.                                                       *)

LEMMA NoCallType == NoCall \in Call
BY DEF NoCall, Call

Calls   == [Caller -> Call]
Streams == [Caller -> [state : {"off", "open", "ended"}, told : BOOLEAN, snapshot : BOOLEAN]]

LEMMA StreamType ==
    ASSUME stream \in Streams, lock \in Caller \cup {NoCaller}, subscribed \in BOOLEAN,
           NEW c \in Caller, NEW outcome, Settle(c, outcome)
    PROVE  /\ lock' \in Caller \cup {NoCaller}
           /\ subscribed' \in BOOLEAN
           /\ stream' \in Streams
<1>1. CASE call[c].op = "subscribe"
    <2> DEFINE s == IF outcome = "ok" THEN [stream[c] EXCEPT !.told = TRUE] ELSE NoStream
    <2>1. stream[c] \in [state : {"off", "open", "ended"}, told : BOOLEAN, snapshot : BOOLEAN]
        BY DEF Streams
    <2>2. s \in [state : {"off", "open", "ended"}, told : BOOLEAN, snapshot : BOOLEAN]
        BY <2>1 DEF NoStream
    <2>3. stream' = [stream EXCEPT ![c] = s] /\ lock' = NoCaller
        BY <1>1 DEF Settle, Streams
    <2>4. subscribed' \in BOOLEAN
        BY <1>1 DEF Settle
    <2> HIDE DEF s
    <2> QED
        BY <2>2, <2>3, <2>4 DEF Streams
<1>2. CASE call[c].op # "subscribe"
    BY <1>2 DEF Settle
<1> QED
    BY <1>1, <1>2

\* A call in flight has an id, and it is its serial number.
InFlight(c) == call[c].pc \in {"write", "wait", "reclaim"}

Registered == \A c \in Caller : InFlight(c) => call[c].id \in Id /\ call[c].serial = call[c].id

Types == TypeOK /\ Registered

LEMMA ReturnType ==
    ASSUME call \in Calls, NEW c \in Caller, NEW outcome \in Outcome \cup {"none"},
           NEW answer \in Id \cup {0},
           Return(c, outcome, answer)
    PROVE  /\ call' \in Calls
           /\ call'[c].pc = "idle" /\ call'[c].outcome = outcome /\ call'[c].answer = answer
           /\ call'[c].serial = call[c].serial /\ call'[c].late = call[c].late
           /\ call'[c].op = call[c].op
           /\ \A d \in Caller \ {c} : call'[d] = call[d]
<1> DEFINE r == [call[c] EXCEPT !.pc = "idle", !.outcome = outcome, !.answer = answer]
<1>1. call' = [call EXCEPT ![c] = r]
    BY DEF Return, Calls
<1>2. r \in Call /\ r.pc = "idle" /\ r.outcome = outcome /\ r.answer = answer
      /\ r.serial = call[c].serial /\ r.late = call[c].late /\ r.op = call[c].op
    BY DEF Call, Calls
<1> HIDE DEF r
<1> QED
    BY <1>1, <1>2 DEF Calls

LEMMA GotoType ==
    ASSUME call \in Calls, NEW c \in Caller, NEW pc \in {"check", "register", "wait"}, Goto(c, pc)
    PROVE  /\ call' \in Calls
           /\ call'[c].pc = pc
           /\ call'[c].id = call[c].id /\ call'[c].serial = call[c].serial
           /\ call'[c].answer = call[c].answer /\ call'[c].outcome = call[c].outcome
           /\ call'[c].late = call[c].late /\ call'[c].op = call[c].op
           /\ \A d \in Caller \ {c} : call'[d] = call[d]
BY DEF Goto, Calls, Call

\* The caller gives up waiting and goes to take its slot back.
LEMMA GiveUpType ==
    ASSUME call \in Calls, NEW c \in Caller, NEW outcome \in Outcome,
           call' = [call EXCEPT ![c].pc = "reclaim", ![c].outcome = outcome]
    PROVE  /\ call' \in Calls
           /\ call'[c].pc = "reclaim"
           /\ call'[c].id = call[c].id /\ call'[c].serial = call[c].serial
           /\ call'[c].answer = call[c].answer /\ call'[c].outcome = outcome
           /\ call'[c].late = call[c].late /\ call'[c].op = call[c].op
           /\ \A d \in Caller \ {c} : call'[d] = call[d]
<1> DEFINE r == [call[c] EXCEPT !.pc = "reclaim", !.outcome = outcome]
<1>1. call' = [call EXCEPT ![c] = r]
    BY DEF Calls
<1>2. r \in Call /\ r.pc = "reclaim" /\ r.outcome = outcome
      /\ r.serial = call[c].serial /\ r.late = call[c].late /\ r.op = call[c].op
      /\ r.id = call[c].id /\ r.answer = call[c].answer
    BY DEF Call, Calls
<1> HIDE DEF r
<1> QED
    BY <1>1, <1>2 DEF Calls

LEMMA RegisterType ==
    ASSUME call \in Calls, NEW c \in Caller, nextId \in Id, Register(c)
    PROVE  /\ call' \in Calls
           /\ call'[c].pc = "write" /\ call'[c].id = nextId /\ call'[c].serial = nextId
           /\ call'[c].answer = call[c].answer
           /\ call'[c].late = call[c].late /\ call'[c].op = call[c].op
           /\ \A d \in Caller \ {c} : call'[d] = call[d]
<1> DEFINE r == [call[c] EXCEPT !.pc = "write", !.id = nextId, !.serial = nextId,
                                !.missed = Drained]
<1>0. Drained \in BOOLEAN
    BY DEF Drained
<1>1. call' = [call EXCEPT ![c] = r]
    BY DEF Register, FreshId, Calls
<1>2. r \in Call /\ r.pc = "write" /\ r.id = nextId /\ r.serial = nextId
      /\ r.answer = call[c].answer /\ r.late = call[c].late /\ r.op = call[c].op
    BY <1>0 DEF Call, Calls
<1> HIDE DEF r
<1> QED
    BY <1>1, <1>2 DEF Calls

\* What is on its way to the client, and how the reader leaves it.
LEMMA ReaderType == Types /\ ReaderStep => Types'
<1> SUFFICES ASSUME Types, ReaderStep PROVE TypeOK' /\ call' = call
    BY DEF Types, Registered, InFlight
<1> USE DEF Connection, clientVars, Types
<1>1. CASE ReadAnswer
    <2>1. Head(toClient) \in Frame /\ toClient' \in Seq(Frame)
        BY <1>1, TakenIn DEF ReadAnswer, TypeOK
    <2>2. slot' \in [Id -> [value : Outcome \cup {"none"}, serial : Id \cup {0}]]
        BY <1>1, <2>1 DEF ReadAnswer, TypeOK, Frame, Outcome
    <2> QED
        BY <1>1, <2>1, <2>2 DEF ReadAnswer, TypeOK
<1>2. CASE ReadEvent
    <2>1. toClient' \in Seq(Frame)
        BY <1>2, TakenIn DEF ReadEvent, TypeOK
    <2>2. stream' \in [Caller -> [state : {"off", "open", "ended"}, told : BOOLEAN,
                                 snapshot : BOOLEAN]]
        BY <1>2 DEF ReadEvent, TypeOK
    <2> QED
        BY <1>2, <2>1, <2>2 DEF ReadEvent, TypeOK
<1>3. CASE ReadEnd \/ ReaderReturns
    BY <1>3 DEF ReadEnd, ReaderReturns, TypeOK
<1>4. CASE Drain
    <2>1. slot' \in [Id -> [value : Outcome \cup {"none"}, serial : Id \cup {0}]]
        BY <1>4 DEF Drain, TypeOK, NoAnswer, Outcome
    <2> QED
        BY <1>4, <2>1 DEF Drain, TypeOK
<1> QED
    BY <1>1, <1>2, <1>3, <1>4 DEF ReaderStep

LEMMA BeginType ==
    ASSUME Types, NEW c \in Caller, NEW op \in {"call", "subscribe"}, Begin(c, op)
    PROVE  Types'
<1>1. call' \in [Caller -> Call]
    BY DEF Begin, Types, TypeOK, Call, NoCall
<1>2. Registered'
    BY DEF Begin, Types, TypeOK, Registered, InFlight, NoCall
<1> QED
    BY <1>1, <1>2 DEF Begin, Outside, Types, TypeOK

LEMMA CallStepType ==
    ASSUME Types, NEW c \in Caller, CallStep(c) \/ EnterSubscribe(c)
    PROVE  Types'
<1>0. call \in Calls /\ stream \in Streams /\ Registered
    BY DEF Types, TypeOK, Calls, Streams
<1> USE DEF Types, Registered, InFlight
<1> SUFFICES Registered' /\ TypeOK'
    OBVIOUS
<1>1. CASE Check(c)
    <2>1. call' \in Calls /\ Registered'
        BY <1>0, <1>1, ReturnType, GotoType DEF Check, Outcome
    <2> QED
        BY <1>0, <1>1, <2>1, StreamType DEF Check, Outside, TypeOK, Calls, Streams
<1>2. CASE Register(c)
    <2>1. nextId \in Id /\ nextId + 1 \in 1..(MaxCalls + 1)
        BY <1>2, ControlClientAssumption DEF Register, TypeOK, Id
    <2>2. call' \in Calls /\ Registered'
        BY <1>0, <1>2, <2>1, RegisterType
    <2>3. pending' \subseteq Id /\ nextId' \in 1..(MaxCalls + 1)
        BY <1>2, <2>1 DEF Register, FreshId, TypeOK
    <2>4. slot' \in [Id -> [value : Outcome \cup {"none"}, serial : Id \cup {0}]]
        BY <1>2 DEF Register, FreshId, TypeOK, NoAnswer
    <2> QED
        BY <1>2, <2>2, <2>3, <2>4 DEF Register, Outside, TypeOK, Calls
<1>3. CASE Write(c)
    <2>1. CASE daemon.state = "gone"
        <3>1. call' \in Calls /\ Registered'
            BY <1>0, <1>3, <2>1, GiveUpType DEF Write, Outcome
        <3> QED
            BY <1>3, <2>1, <3>1 DEF Write, Outside, TypeOK, Calls
    <2>2. CASE daemon.state # "gone"
        <3>1. call' \in Calls /\ Registered'
            BY <1>0, <1>3, <2>2, GotoType DEF Write
        <3>0. /\ call[c].id \in Id /\ call[c].serial \in Id
              /\ call[c].op \in {"call", "subscribe"}
            BY <1>0, <1>3 DEF Write, Calls, Call
        <3> DEFINE m == [id |-> call[c].id, serial |-> call[c].serial, op |-> call[c].op]
        <3>2. m \in Request
            BY <3>0 DEF Request
        <3>4. toDaemon' = Append(toDaemon, m) /\ toDaemon \in Seq(Request)
            BY <1>3, <2>2 DEF Write, TypeOK
        <3> HIDE DEF m
        <3>3. toDaemon' \in Seq(Request)
            BY <3>2, <3>4, AppendedIn
        <3> QED
            BY <1>3, <3>1, <3>3 DEF Write, Outside, TypeOK, Calls
    <2> QED
        BY <2>1, <2>2
<1>4. CASE TakeAnswer(c)
    <2>1. call[c].id \in Id
        BY <1>0, <1>4 DEF TakeAnswer
    <2>2. slot[call[c].id].value \in Outcome /\ slot[call[c].id].serial \in Id \cup {0}
        BY <1>4, <2>1 DEF TakeAnswer, TypeOK
    <2>3. call' \in Calls /\ Registered'
        BY <1>0, <1>4, <2>2, ReturnType DEF TakeAnswer
    <2>4. /\ lock' \in Caller \cup {NoCaller} /\ subscribed' \in BOOLEAN /\ stream' \in Streams
        BY <1>0, <1>4, StreamType DEF TakeAnswer, TypeOK
    <2> QED
        BY <1>4, <2>3, <2>4 DEF TakeAnswer, Outside, TypeOK, Calls, Streams
<1>5. CASE TimeOut(c)
    <2>0. "timeout" \in Outcome
        BY DEF Outcome
    <2>2. call' = [call EXCEPT ![c].pc = "reclaim", ![c].outcome = "timeout"] /\ InFlight(c)
        BY <1>5 DEF TimeOut
    <2>3. /\ call' \in Calls
          /\ call'[c].id = call[c].id /\ call'[c].serial = call[c].serial
          /\ \A d \in Caller \ {c} : call'[d] = call[d]
        BY <1>0, <2>0, <2>2, GiveUpType
    <2>1. call' \in Calls /\ Registered'
        BY <1>0, <2>2, <2>3
    <2> QED
        BY <1>5, <2>1 DEF TimeOut, Outside, TypeOK, Calls
<1>6. CASE Reclaim(c)
    <2>1. call[c].outcome \in Outcome \cup {"none"}
        BY <1>0 DEF Calls, Call
    <2>2. call' \in Calls /\ Registered'
        BY <1>0, <1>6, <2>1, ReturnType DEF Reclaim
    <2>3. /\ lock' \in Caller \cup {NoCaller} /\ subscribed' \in BOOLEAN /\ stream' \in Streams
        BY <1>0, <1>6, StreamType DEF Reclaim, TypeOK
    <2> QED
        BY <1>6, <2>2, <2>3 DEF Reclaim, Outside, TypeOK, Calls, Streams
<1>7. CASE EnterSubscribe(c)
    <2>1. call' \in Calls /\ Registered'
        BY <1>0, <1>7, ReturnType, GotoType DEF EnterSubscribe, Outcome
    <2>2. stream' \in Streams
        BY <1>0, <1>7 DEF EnterSubscribe, Streams, NewStream, NoStream
    <2> QED
        BY <1>7, <2>1, <2>2 DEF EnterSubscribe, Outside, TypeOK, Calls, Streams
<1> QED
    BY <1>1, <1>2, <1>3, <1>4, <1>5, <1>6, <1>7 DEF CallStep

LEMMA HearEndType ==
    ASSUME Types, NEW c \in Caller, HearEnd(c)
    PROVE  Types'
<1>1. stream' \in Streams
    BY DEF HearEnd, Types, TypeOK, Streams
<1> QED
    BY <1>1 DEF HearEnd, Outside, Types, TypeOK, Registered, InFlight, Streams

Daemons == [state : {"serving", "shut", "gone"}, subscribed : BOOLEAN, owes : BOOLEAN]

\* The frame an answer is.
Answer(request, value) ==
    [kind |-> "answer", id |-> request.id, serial |-> request.serial, value |-> value]

LEMMA ServeSends ==
    ASSUME toDaemon \in Seq(Request), toClient \in Seq(Frame), daemon \in Daemons, Serve
    PROVE  \E request \in Request, value \in {"ok", "refused"} :
               /\ In(toDaemon) = In(toDaemon') \cup {request}
               /\ toDaemon' \in Seq(Request)
               /\ toClient' \in Seq(Frame)
               /\ In(toClient') = In(toClient) \cup {Answer(request, value)}
               /\ Answer(request, value) \in Frame
               /\ daemon' \in Daemons /\ daemon'.state = daemon.state
               /\ daemon.subscribed => daemon'.subscribed
               /\ daemon.owes => daemon'.owes
               /\ request.op = "subscribe" /\ value = "ok" => daemon'.subscribed /\ daemon'.owes
<1> DEFINE q == Head(toDaemon)
<1>1. /\ q \in Request /\ toDaemon' \in Seq(Request)
      /\ In(toDaemon) = In(toDaemon') \cup {q}
    BY TakenIn DEF Serve
<1>2. PICK value \in {"ok", "refused"} :
          /\ toClient' = Append(toClient, Answer(q, value))
          /\ daemon' = IF q.op = "subscribe" /\ value = "ok"
                       THEN [daemon EXCEPT !.subscribed = TRUE, !.owes = TRUE] ELSE daemon
    BY DEF Serve, Answer
<1> HIDE DEF q
<1>3. Answer(q, value) \in Frame
    BY <1>1 DEF Answer, Frame, Request
<1>4. toClient' \in Seq(Frame) /\ In(toClient') = In(toClient) \cup {Answer(q, value)}
    BY <1>2, <1>3, AppendedIn
<1>5. /\ daemon' \in Daemons /\ daemon'.state = daemon.state
      /\ daemon.subscribed => daemon'.subscribed
      /\ daemon.owes => daemon'.owes
      /\ q.op = "subscribe" /\ value = "ok" => daemon'.subscribed /\ daemon'.owes
    BY <1>2 DEF Daemons
<1> QED
    BY <1>1, <1>3, <1>4, <1>5

DaemonStep == Serve \/ SendSnapshot \/ Push \/ StopWriting \/ Hangup

LEMMA DaemonType == Types /\ DaemonStep => Types'
<1> SUFFICES ASSUME Types, DaemonStep
             PROVE  /\ toDaemon' \in Seq(Request) /\ toClient' \in Seq(Frame)
                    /\ daemon' \in Daemons /\ pushed' \in 0..MaxEvents
                    /\ Client
    BY DEF Types, TypeOK, Registered, InFlight, Client, clientVars, Daemons
<1>0. /\ toDaemon \in Seq(Request) /\ toClient \in Seq(Frame)
      /\ daemon \in Daemons /\ pushed \in 0..MaxEvents
    BY DEF Types, TypeOK, Daemons
<1>1. CASE Serve
    <2>1. Client /\ pushed' = pushed
        BY <1>1 DEF Serve
    <2> QED
        BY <1>0, <1>1, <2>1, ServeSends
<1>2. CASE SendSnapshot
    <2>1. [kind |-> "snapshot"] \in Frame
        BY DEF Frame
    <2>2. toClient' \in Seq(Frame)
        BY <1>0, <1>2, <2>1, AppendedIn DEF SendSnapshot
    <2> QED
        BY <1>0, <1>2, <2>2 DEF SendSnapshot, Daemons
<1>3. CASE Push
    <2>1. [kind |-> "event"] \in Frame
        BY DEF Frame
    <2>2. toClient' \in Seq(Frame)
        BY <1>0, <1>3, <2>1, AppendedIn DEF Push
    <2>3. pushed' \in 0..MaxEvents
        BY <1>0, <1>3, ControlClientAssumption DEF Push
    <2> QED
        BY <1>0, <1>3, <2>2, <2>3 DEF Push
<1>4. CASE StopWriting
    BY <1>0, <1>4 DEF StopWriting, Daemons
<1>5. CASE Hangup
    BY <1>0, <1>5, NothingIn DEF Hangup, Daemons
<1> QED
    BY <1>1, <1>2, <1>3, <1>4, <1>5 DEF DaemonStep

LEMMA TypeInit == Init => Types
<1> SUFFICES ASSUME Init PROVE Types
    OBVIOUS
<1>1. call \in [Caller -> Call] /\ Registered
    BY NoCallType DEF Init, Registered, InFlight, NoCall
<1>2. slot \in [Id -> [value : Outcome \cup {"none"}, serial : Id \cup {0}]]
    BY DEF Init, NoAnswer
<1>3. nextId \in 1..(MaxCalls + 1) /\ pushed \in 0..MaxEvents
    BY ControlClientAssumption DEF Init
<1>4. toDaemon \in Seq(Request) /\ toClient \in Seq(Frame)
    BY NothingIn DEF Init
<1>5. stream \in Streams
    BY DEF Init, Streams, NoStream
<1> QED
    BY <1>1, <1>2, <1>3, <1>4, <1>5 DEF Init, Types, TypeOK, Streams

LEMMA TypeStep == Types /\ [Next]_vars => Types'
<1> SUFFICES ASSUME Types, [Next]_vars PROVE Types'
    OBVIOUS
<1>1. CASE UNCHANGED vars
    BY <1>1 DEF vars, clientVars, Types, TypeOK, Registered, InFlight
<1>2. CASE Next
    BY <1>2, ReaderType, BeginType, CallStepType, HearEndType, DaemonType DEF Next, DaemonStep
<1> QED
    BY <1>1, <1>2

\* Whatever callers, answers and ends of the connection interleave, every
\* variable of the client and of the wire keeps its type.
THEOREM TypeCorrect == Spec => []TypeOK
<1>1. Types => TypeOK
    BY DEF Types
<1> QED
    BY <1>1, TypeInit, TypeStep, PTL DEF Spec

-----------------------------------------------------------------------------
(* Answers reach the call they were made for.  The ids on the wire and in  *)
(* the slots are serial numbers because an id is never given out twice;    *)
(* an answered slot has left the pending map, so the call that takes the   *)
(* answer leaves no slot behind.                                           *)

WireMatched ==
    /\ \A r \in In(toDaemon) : r.id = r.serial
    /\ \A f \in In(toClient) : f.kind = "answer" => f.id = f.serial
    /\ \A id \in Id : slot[id].serial \in {0, id}

CallsMatched ==
    \A c \in Caller : /\ call[c].answer \in {0, call[c].serial}
                      /\ call[c].pc # "idle" => call[c].answer = 0

PendingMatched ==
    \A id \in pending : /\ slot[id].value = "none"
                        /\ \E c \in Caller : InFlight(c) /\ call[c].id = id

Matched == WireMatched /\ CallsMatched /\ PendingMatched

LEMMA MatchedInit == Init => Matched
BY NothingIn DEF Init, Matched, WireMatched, CallsMatched, PendingMatched, NoAnswer, NoCall

LEMMA ReaderMatched == Types /\ Matched /\ ReaderStep => Matched'
<1> SUFFICES ASSUME Types, Matched, ReaderStep PROVE Matched'
    OBVIOUS
<1>0. call' = call /\ toDaemon' = toDaemon
    BY DEF ReaderStep, ReadAnswer, ReadEvent, ReadEnd, Drain, ReaderReturns, clientVars, Connection
<1>1. CallsMatched'
    BY <1>0 DEF Matched, CallsMatched
<1>2. CASE ReadAnswer
    <2> DEFINE f == Head(toClient)
    <2>1. In(toClient) = In(toClient') \cup {f} /\ f \in Frame /\ f.kind = "answer"
        BY <1>2, TakenIn DEF ReadAnswer, Types, TypeOK
    <2>2. /\ pending' = pending \ {f.id}
          /\ slot' = IF f.id \in pending
                     THEN [slot EXCEPT ![f.id] = [value |-> f.value, serial |-> f.serial]]
                     ELSE slot
        BY <1>2 DEF ReadAnswer
    <2> HIDE DEF f
    <2>3. f.id = f.serial
        BY <2>1 DEF Matched, WireMatched
    <2>4. WireMatched'
        BY <1>0, <2>1, <2>2, <2>3 DEF Matched, WireMatched, Types, TypeOK
    <2>5. PendingMatched'
        BY <1>0, <2>2 DEF Matched, PendingMatched, Types, TypeOK, InFlight
    <2> QED
        BY <1>1, <2>4, <2>5 DEF Matched
<1>3. CASE ReadEvent
    <2>1. In(toClient') \subseteq In(toClient)
        BY <1>3, TakenIn DEF ReadEvent, Types, TypeOK
    <2> QED
        BY <1>0, <1>1, <1>3, <2>1 DEF ReadEvent, Matched, WireMatched, PendingMatched, InFlight
<1>4. CASE ReadEnd \/ ReaderReturns
    BY <1>0, <1>1, <1>4 DEF ReadEnd, ReaderReturns, clientVars, Matched, WireMatched,
       PendingMatched, InFlight
<1>5. CASE Drain
    <2>1. WireMatched' /\ PendingMatched'
        BY <1>0, <1>5 DEF Drain, Matched, WireMatched, PendingMatched, NoAnswer
    <2> QED
        BY <1>1, <2>1 DEF Matched
<1> QED
    BY <1>2, <1>3, <1>4, <1>5 DEF ReaderStep

LEMMA CallerMatched ==
    ASSUME Types, Matched, NEW c \in Caller,
           \/ \E op \in {"call", "subscribe"} : Begin(c, op)
           \/ EnterSubscribe(c) \/ CallStep(c) \/ HearEnd(c)
    PROVE  Matched'
<1>0. call \in Calls /\ Registered
    BY DEF Types, TypeOK, Calls
<1>1. CASE \E op \in {"call", "subscribe"} : Begin(c, op)
    <2>1. PICK op \in {"call", "subscribe"} : Begin(c, op)
        BY <1>1
    <2>2. /\ \A d \in Caller \ {c} : call'[d] = call[d]
          /\ call'[c].answer = 0 /\ ~InFlight(c)
        BY <1>0, <2>1 DEF Begin, Calls, NoCall, InFlight
    <2> QED
        BY <2>1, <2>2 DEF Begin, Outside, Matched, WireMatched, CallsMatched, PendingMatched, InFlight
<1>2. CASE HearEnd(c)
    BY <1>2 DEF HearEnd, Outside, Matched, WireMatched, CallsMatched, PendingMatched, InFlight
<1>3. CASE EnterSubscribe(c) \/ Check(c)
    <2>1. /\ \A d \in Caller \ {c} : call'[d] = call[d]
          /\ call'[c].answer = 0 /\ ~InFlight(c)
        <3>1. CASE \E outcome \in {"closed", "ok"} : Return(c, outcome, 0)
            BY <1>0, <1>3, <3>1, ReturnType DEF EnterSubscribe, Check, InFlight, Outcome
        <3>2. CASE \E pc \in {"check", "register"} : Goto(c, pc)
            BY <1>0, <1>3, <3>2, GotoType DEF EnterSubscribe, Check, InFlight, Matched, CallsMatched
        <3> QED
            BY <1>3, <3>1, <3>2 DEF EnterSubscribe, Check
    <2> QED
        BY <1>3, <2>1 DEF EnterSubscribe, Check, Outside, Matched, WireMatched, CallsMatched,
           PendingMatched, InFlight
<1>4. CASE Register(c)
    <2>1. nextId \in Id /\ call[c].answer = 0 /\ ~InFlight(c)
        BY <1>4 DEF Register, InFlight, Matched, CallsMatched
    <2>2. /\ \A d \in Caller \ {c} : call'[d] = call[d]
          /\ call'[c].answer = 0 /\ call'[c].pc = "write" /\ call'[c].id = nextId
        BY <1>0, <1>4, <2>1, RegisterType
    <2>3. /\ slot' = [slot EXCEPT ![nextId] = NoAnswer] /\ pending' = pending \cup {nextId}
          /\ toDaemon' = toDaemon /\ toClient' = toClient
        BY <1>4 DEF Register, FreshId, Outside
    <2>4. WireMatched'
        BY <2>3 DEF Matched, WireMatched, NoAnswer, Types, TypeOK
    <2>5. CallsMatched'
        BY <2>2 DEF Matched, CallsMatched
    <2>6. PendingMatched'
        BY <2>1, <2>2, <2>3 DEF Matched, PendingMatched, NoAnswer, InFlight, Types, TypeOK
    <2> QED
        BY <2>4, <2>5, <2>6 DEF Matched
<1>5. CASE Write(c)
    <2>1. InFlight(c) /\ slot' = slot /\ pending' = pending /\ toClient' = toClient
        BY <1>5 DEF Write, InFlight, Outside
    <2>2. /\ \A d \in Caller \ {c} : call'[d] = call[d]
          /\ call'[c].answer = call[c].answer /\ call'[c].pc \in {"wait", "reclaim"}
          /\ call'[c].id = call[c].id /\ call'[c].serial = call[c].serial
        <3>1. CASE daemon.state = "gone"
            <4>1. "transport" \in Outcome
                BY DEF Outcome
            <4>2. call' = [call EXCEPT ![c].pc = "reclaim", ![c].outcome = "transport"]
                BY <1>5, <3>1 DEF Write
            <4> QED
                BY <1>0, <4>1, <4>2, GiveUpType
        <3>2. CASE daemon.state # "gone"
            BY <1>0, <1>5, <3>2, GotoType DEF Write
        <3> QED
            BY <3>1, <3>2
    <2>3. \A r \in In(toDaemon') : r \in In(toDaemon) \/ r.id = r.serial
        <3> DEFINE m == [id |-> call[c].id, serial |-> call[c].serial, op |-> call[c].op]
        <3>1. call[c].id \in Id /\ call[c].serial = call[c].id
              /\ call[c].op \in {"call", "subscribe"}
            BY <1>0, <2>1 DEF Registered, Calls, Call
        <3>2. m \in Request /\ m.id = m.serial
            BY <3>1 DEF Request
        <3>3. toDaemon' = toDaemon \/ toDaemon' = Append(toDaemon, m)
            BY <1>5 DEF Write
        <3>4. toDaemon \in Seq(Request)
            BY DEF Types, TypeOK
        <3> HIDE DEF m
        <3>5. In(Append(toDaemon, m)) = In(toDaemon) \cup {m}
            BY <3>2, <3>4, AppendedIn
        <3>6. In(toDaemon') = In(toDaemon) \/ In(toDaemon') = In(toDaemon) \cup {m}
            BY <3>3, <3>5
        <3> QED
            BY <3>2, <3>6
    <2>4. WireMatched'
        BY <2>1, <2>3 DEF Matched, WireMatched
    <2>5. CallsMatched' /\ PendingMatched'
        BY <2>1, <2>2 DEF Matched, CallsMatched, PendingMatched, InFlight
    <2> QED
        BY <2>4, <2>5 DEF Matched
<1>6. CASE TakeAnswer(c)
    <2>1. /\ InFlight(c) /\ slot[call[c].id].value # "none" /\ call[c].id \in Id
          /\ call[c].serial = call[c].id
          /\ UNCHANGED <<slot, pending, toDaemon, toClient>>
        BY <1>0, <1>6 DEF TakeAnswer, InFlight, Outside, Registered
    <2>2. /\ slot[call[c].id].value \in Outcome \cup {"none"}
          /\ slot[call[c].id].serial \in Id \cup {0}
        BY <2>1 DEF Types, TypeOK
    <2>3. /\ \A d \in Caller \ {c} : call'[d] = call[d]
          /\ call'[c].answer = slot[call[c].id].serial /\ call'[c].pc = "idle"
          /\ call'[c].serial = call[c].serial
        BY <1>0, <1>6, <2>2, ReturnType DEF TakeAnswer
    <2>4. CallsMatched' /\ WireMatched'
        BY <2>1, <2>3 DEF Matched, CallsMatched, WireMatched
    <2>5. call[c].id \notin pending
        BY <2>1 DEF Matched, PendingMatched
    <2>6. PendingMatched'
        BY <2>1, <2>3, <2>5 DEF Matched, PendingMatched, InFlight
    <2> QED
        BY <2>4, <2>6 DEF Matched
<1>7. CASE TimeOut(c)
    <2>0. "timeout" \in Outcome
        BY DEF Outcome
    <2>1. call' = [call EXCEPT ![c].pc = "reclaim", ![c].outcome = "timeout"] /\ InFlight(c)
        BY <1>7 DEF TimeOut, InFlight
    <2>2. /\ \A d \in Caller \ {c} : call'[d] = call[d]
          /\ call'[c].answer = call[c].answer /\ call'[c].pc = "reclaim"
          /\ call'[c].id = call[c].id /\ call'[c].serial = call[c].serial
        BY <1>0, <2>0, <2>1, GiveUpType
    <2>3. UNCHANGED <<slot, pending, toDaemon, toClient>>
        BY <1>7 DEF TimeOut, Outside
    <2>4. WireMatched'
        BY <2>3 DEF Matched, WireMatched
    <2>5. CallsMatched'
        BY <2>1, <2>2 DEF Matched, CallsMatched, InFlight
    <2>6. PendingMatched'
        BY <2>2, <2>3 DEF Matched, PendingMatched, InFlight
    <2> QED
        BY <2>4, <2>5, <2>6 DEF Matched
<1>8. CASE Reclaim(c)
    <2>1. call[c].outcome \in Outcome \cup {"none"}
        BY <1>0 DEF Calls, Call
    <2>2. /\ \A d \in Caller \ {c} : call'[d] = call[d]
          /\ call'[c].answer = 0 /\ call'[c].pc = "idle"
        BY <1>0, <1>8, <2>1, ReturnType DEF Reclaim
    <2>3. pending' = pending \ {call[c].id} /\ UNCHANGED <<slot, toDaemon, toClient>>
        BY <1>8 DEF Reclaim, Outside
    <2> QED
        BY <2>2, <2>3 DEF Matched, WireMatched, CallsMatched, PendingMatched, InFlight
<1> QED
    BY <1>1, <1>2, <1>3, <1>4, <1>5, <1>6, <1>7, <1>8 DEF CallStep

LEMMA DaemonMatched == Types /\ Matched /\ DaemonStep => Matched'
<1> SUFFICES ASSUME Types, Matched, DaemonStep PROVE WireMatched' /\ UNCHANGED clientVars
    BY DEF Matched, CallsMatched, PendingMatched, InFlight, clientVars
<1>0. /\ toDaemon \in Seq(Request) /\ toClient \in Seq(Frame) /\ daemon \in Daemons
      /\ UNCHANGED clientVars
    BY DEF Types, TypeOK, Daemons, DaemonStep, Serve, SendSnapshot, Push, StopWriting, Hangup, Client
<1>1. /\ In(toDaemon') \subseteq In(toDaemon)
      /\ \A f \in In(toClient') : f \in In(toClient) \/ (f.kind = "answer" => f.id = f.serial)
    <2>1. CASE Serve
        <3>1. PICK request \in Request, value \in {"ok", "refused"} :
                  /\ In(toDaemon) = In(toDaemon') \cup {request}
                  /\ In(toClient') = In(toClient) \cup {Answer(request, value)}
            BY <1>0, <2>1, ServeSends
        <3>2. request.id = request.serial
            BY <3>1 DEF Matched, WireMatched
        <3>3. Answer(request, value).id = Answer(request, value).serial
            BY <3>2 DEF Answer
        <3> QED
            BY <3>1, <3>3
    <2>2. CASE SendSnapshot \/ Push
        <3>1. PICK f \in {[kind |-> "snapshot"], [kind |-> "event"]} :
                  toClient' = Append(toClient, f) /\ toDaemon' = toDaemon
            BY <2>2 DEF SendSnapshot, Push
        <3>2. f \in Frame /\ f.kind # "answer"
            BY DEF Frame
        <3> QED
            BY <1>0, <3>1, <3>2, AppendedIn
    <2>3. CASE StopWriting
        BY <2>3 DEF StopWriting
    <2>4. CASE Hangup
        BY <2>4, NothingIn DEF Hangup
    <2> QED
        BY <2>1, <2>2, <2>3, <2>4 DEF DaemonStep
<1> QED
    BY <1>0, <1>1 DEF Matched, WireMatched, clientVars

LEMMA MatchedStep == Types /\ Matched /\ [Next]_vars => Matched'
<1> SUFFICES ASSUME Types, Matched, [Next]_vars PROVE Matched'
    OBVIOUS
<1>1. CASE UNCHANGED vars
    BY <1>1 DEF vars, clientVars, Matched, WireMatched, CallsMatched, PendingMatched, InFlight
<1>2. CASE Next
    BY <1>2, ReaderMatched, CallerMatched, DaemonMatched DEF Next, DaemonStep
<1> QED
    BY <1>1, <1>2

\* Whatever times out and is answered late, a caller is only ever given the
\* answer to its own request, and no slot outlives its call.
THEOREM AnswersReachTheirCalls == Spec => []CallsAreMatched
<1>1. Matched => CallsAreMatched
    BY DEF Matched, CallsMatched, PendingMatched, CallsAreMatched, InFlight
<1> QED
    BY <1>1, TypeInit, TypeStep, MatchedInit, MatchedStep, PTL DEF Spec

-----------------------------------------------------------------------------
(* Ids are given out once, and a request says what its call is for.        *)

\* How a step of a caller moves its call: out of flight, into flight under a
\* new id, or on within it.
Leaves(c) == ~InFlight(c)' /\ UNCHANGED <<nextId, slot, toDaemon>>

Departs(c) ==
    /\ call[c].pc = "register" /\ InFlight(c)'
    /\ call'[c].id = nextId /\ call'[c].op = call[c].op
    /\ nextId \in Id /\ nextId' = nextId + 1
    /\ slot' = [slot EXCEPT ![nextId] = NoAnswer]
    /\ UNCHANGED <<toDaemon, subscribed, stream>>

RequestOf(c) == [id |-> call[c].id, serial |-> call[c].serial, op |-> call[c].op]

Stays(c) ==
    /\ InFlight(c) /\ InFlight(c)'
    /\ call'[c].id = call[c].id /\ call'[c].op = call[c].op
    /\ In(toDaemon') \subseteq In(toDaemon) \cup {RequestOf(c)}
    /\ UNCHANGED <<nextId, slot, subscribed, stream>>

CallerMoves(c) == (\E op \in {"call", "subscribe"} : Begin(c, op))
                  \/ EnterSubscribe(c) \/ CallStep(c)

LEMMA BeginCall ==
    ASSUME call \in Calls, NEW c \in Caller, NEW op \in {"call", "subscribe"}, Begin(c, op)
    PROVE  /\ \A d \in Caller \ {c} : call'[d] = call[d]
           /\ call'[c].pc \in {"lock", "check"} /\ (op = "subscribe" => call'[c].pc = "lock")
           /\ call'[c].op = op
           /\ call'[c].late = \E d \in Caller : stream[d].state = "ended"
<1> DEFINE late == \E d \in Caller : stream[d].state = "ended"
           r == [NoCall EXCEPT !.pc = IF op = "subscribe" THEN "lock" ELSE "check", !.op = op,
                               !.late = late]
<1>1. call' = [call EXCEPT ![c] = r]
    BY DEF Begin
<1> HIDE DEF late
<1>2. /\ r.pc \in {"lock", "check"} /\ (op = "subscribe" => r.pc = "lock")
      /\ r.op = op /\ r.late = late
    BY DEF NoCall
<1>3. call'[c] = r /\ \A d \in Caller \ {c} : call'[d] = call[d]
    BY <1>1 DEF Calls
<1> HIDE DEF r
<1> QED
    BY <1>2, <1>3 DEF late

LEMMA ReclaimCall ==
    ASSUME call \in Calls, NEW c \in Caller, Reclaim(c)
    PROVE  /\ call'[c].pc = "idle" /\ call'[c].late = call[c].late
           /\ call'[c].outcome = call[c].outcome
           /\ \A d \in Caller \ {c} : call'[d] = call[d]
<1>1. call[c].outcome \in Outcome \cup {"none"}
    BY DEF Calls, Call
<1> QED
    BY <1>1, ReturnType DEF Reclaim

LEMMA TakeAnswerCall ==
    ASSUME Types, NEW c \in Caller, TakeAnswer(c)
    PROVE  /\ call'[c].pc = "idle" /\ call'[c].late = call[c].late
           /\ call[c].id \in Id
           /\ \A d \in Caller \ {c} : call'[d] = call[d]
<1>0. call \in Calls /\ call[c].id \in Id
    BY DEF Types, TypeOK, Calls, Registered, InFlight, TakeAnswer
<1>1. /\ slot[call[c].id].value \in Outcome \cup {"none"}
      /\ slot[call[c].id].serial \in Id \cup {0}
    BY <1>0 DEF Types, TypeOK
<1> QED
    BY <1>0, <1>1, ReturnType DEF TakeAnswer

LEMMA WriteCall ==
    ASSUME Types, NEW c \in Caller, Write(c)
    PROVE  /\ \A d \in Caller \ {c} : call'[d] = call[d]
           /\ call'[c].late = call[c].late
           /\ call'[c].pc = "wait" \/ (call'[c].pc = "reclaim" /\ call'[c].outcome = "transport")
           /\ Stays(c)
<1>0. call \in Calls /\ Registered /\ toDaemon \in Seq(Request) /\ InFlight(c)
    BY DEF Types, TypeOK, Calls, Write, InFlight
<1>1. UNCHANGED <<nextId, slot, subscribed, stream>>
    BY DEF Write
<1>2. RequestOf(c) \in Request
    <2>1. call[c].id \in Id /\ call[c].serial = call[c].id /\ call[c].op \in {"call", "subscribe"}
        BY <1>0 DEF Registered, Calls, Call
    <2> QED
        BY <2>1 DEF RequestOf, Request
<1>3. CASE daemon.state = "gone"
    <2>1. "transport" \in Outcome
        BY DEF Outcome
    <2>2. call' = [call EXCEPT ![c].pc = "reclaim", ![c].outcome = "transport"]
          /\ toDaemon' = toDaemon
        BY <1>3 DEF Write
    <2>3. /\ call'[c].pc = "reclaim" /\ call'[c].id = call[c].id /\ call'[c].op = call[c].op
          /\ call'[c].outcome = "transport" /\ call'[c].late = call[c].late
          /\ \A d \in Caller \ {c} : call'[d] = call[d]
        BY <1>0, <2>1, <2>2, GiveUpType
    <2> QED
        BY <1>0, <1>1, <2>2, <2>3 DEF Stays, InFlight
<1>4. CASE daemon.state # "gone"
    <2>1. Goto(c, "wait") /\ toDaemon' = Append(toDaemon, RequestOf(c))
        BY <1>4 DEF Write, RequestOf
    <2>2. In(toDaemon') = In(toDaemon) \cup {RequestOf(c)}
        BY <1>0, <1>2, <2>1, AppendedIn
    <2>3. /\ call'[c].pc = "wait" /\ call'[c].id = call[c].id /\ call'[c].op = call[c].op
          /\ call'[c].late = call[c].late
          /\ \A d \in Caller \ {c} : call'[d] = call[d]
        BY <1>0, <2>1, GotoType
    <2> QED
        BY <1>0, <1>1, <2>2, <2>3 DEF Stays, InFlight
<1> QED
    BY <1>3, <1>4

LEMMA TimeOutCall ==
    ASSUME Types, NEW c \in Caller, TimeOut(c)
    PROVE  /\ \A d \in Caller \ {c} : call'[d] = call[d]
           /\ call'[c].late = call[c].late
           /\ call'[c].pc = "reclaim" /\ call'[c].outcome = "timeout"
           /\ Stays(c)
<1>0. call \in Calls /\ "timeout" \in Outcome
    BY DEF Types, TypeOK, Calls, Outcome
<1>1. /\ call' = [call EXCEPT ![c].pc = "reclaim", ![c].outcome = "timeout"]
      /\ InFlight(c) /\ UNCHANGED <<nextId, slot, subscribed, stream, toDaemon>>
    BY DEF TimeOut, InFlight
<1>2. /\ call'[c].pc = "reclaim" /\ call'[c].id = call[c].id /\ call'[c].op = call[c].op
      /\ call'[c].outcome = "timeout" /\ call'[c].late = call[c].late
      /\ \A d \in Caller \ {c} : call'[d] = call[d]
    BY <1>0, <1>1, GiveUpType
<1> QED
    BY <1>1, <1>2 DEF Stays, InFlight

\* EnterSubscribe and Check end the call or take it one step on.
LEMMA EarlyCall ==
    ASSUME call \in Calls, NEW c \in Caller, EnterSubscribe(c) \/ Check(c)
    PROVE  /\ \A d \in Caller \ {c} : call'[d] = call[d]
           /\ call'[c].late = call[c].late /\ call'[c].op = call[c].op
           /\ call'[c].pc \in {"idle", "check", "register"}
           /\ reader = "gone" => call'[c].pc = "idle" /\ call'[c].outcome = "closed"
<1>1. CASE \E outcome \in {"closed", "ok"} :
               Return(c, outcome, 0) /\ (reader = "gone" => outcome = "closed")
    BY <1>1, ReturnType DEF Outcome
<1>2. CASE reader # "gone" /\ \E pc \in {"check", "register"} : Goto(c, pc)
    BY <1>2, GotoType
<1> QED
    BY <1>1, <1>2 DEF EnterSubscribe, Check, SenderDropped, Closed

LEMMA CallerShape ==
    ASSUME Types, NEW c \in Caller, CallerMoves(c)
    PROVE  /\ \A d \in Caller \ {c} : call'[d] = call[d] /\ stream'[d] = stream[d]
           /\ UNCHANGED <<reader, toClient, daemon>>
           /\ Leaves(c) \/ Departs(c) \/ Stays(c)
<1>0. call \in Calls /\ stream \in Streams
    BY DEF Types, TypeOK, Calls, Streams
<1>1. UNCHANGED <<reader, toClient, daemon>>
    BY DEF CallerMoves, Begin, EnterSubscribe, CallStep, Check, Register, Write, TakeAnswer,
       TimeOut, Reclaim, Outside
<1>2. \A d \in Caller \ {c} : stream'[d] = stream[d]
    BY <1>0 DEF CallerMoves, Begin, EnterSubscribe, CallStep, Check, Register, Write, TakeAnswer,
       TimeOut, Reclaim, Settle, Streams
<1>3. CASE \E op \in {"call", "subscribe"} : Begin(c, op)
    BY <1>0, <1>1, <1>2, <1>3, BeginCall DEF Begin, Leaves, InFlight
<1>4. CASE EnterSubscribe(c) \/ Check(c)
    BY <1>0, <1>1, <1>2, <1>4, EarlyCall DEF EnterSubscribe, Check, Leaves, InFlight
<1>5. CASE Register(c)
    <2>1. nextId \in Id
        BY <1>5 DEF Register
    <2> QED
        BY <1>0, <1>1, <1>2, <1>5, <2>1, RegisterType DEF Register, FreshId, Departs, InFlight
<1>6. CASE Write(c)
    BY <1>1, <1>2, <1>6, WriteCall
<1>7. CASE TimeOut(c)
    BY <1>1, <1>2, <1>7, TimeOutCall
<1>8. CASE TakeAnswer(c)
    BY <1>1, <1>2, <1>8, TakeAnswerCall DEF TakeAnswer, Leaves, InFlight
<1>9. CASE Reclaim(c)
    BY <1>0, <1>1, <1>2, <1>9, ReclaimCall DEF Reclaim, Leaves, InFlight
<1> QED
    BY <1>3, <1>4, <1>5, <1>6, <1>7, <1>8, <1>9 DEF CallerMoves, CallStep

Fresh ==
    /\ \A r \in In(toDaemon) : r.id < nextId
    /\ \A f \in In(toClient) : f.kind = "answer" => f.id < nextId
    /\ \A c \in Caller : InFlight(c) => call[c].id < nextId
    /\ \A c, d \in Caller : InFlight(c) /\ InFlight(d) /\ c # d => call[c].id # call[d].id

SameOp == \A r \in In(toDaemon), c \in Caller :
              InFlight(c) /\ r.id = call[c].id => r.op = call[c].op

Numbered == Fresh /\ SameOp

LEMMA NumberedInit == Init => Numbered
BY NothingIn DEF Init, Numbered, Fresh, SameOp, InFlight, NoCall

LEMMA ReaderTakes ==
    ASSUME Types, ReaderStep
    PROVE  /\ UNCHANGED <<call, nextId, lock, subscribed, toDaemon, daemon>>
           /\ In(toClient') \subseteq In(toClient)
<1>1. CASE ReadAnswer \/ ReadEvent
    <2>1. /\ UNCHANGED <<call, nextId, lock, subscribed, toDaemon, daemon>>
          /\ toClient # <<>> /\ toClient' = Tail(toClient)
        BY <1>1 DEF ReadAnswer, ReadEvent, Connection
    <2>2. toClient \in Seq(Frame)
        BY DEF Types, TypeOK
    <2>3. In(toClient) = In(Tail(toClient)) \cup {Head(toClient)}
        BY <2>1, <2>2, TakenIn
    <2> QED
        BY <2>1, <2>3
<1>2. CASE ReadEnd \/ Drain \/ ReaderReturns
    BY <1>2 DEF ReadEnd, Drain, ReaderReturns, Connection, clientVars
<1> QED
    BY <1>1, <1>2 DEF ReaderStep

LEMMA DaemonSends ==
    ASSUME Types, DaemonStep
    PROVE  /\ UNCHANGED <<clientVars, reader>>
           /\ In(toDaemon') \subseteq In(toDaemon)
           /\ \A f \in In(toClient) : f \in In(toClient')
           /\ \A f \in In(toClient') : f \in In(toClient) \/ f.kind # "answer"
                  \/ \E request \in In(toDaemon), value \in {"ok", "refused"} :
                         /\ f = Answer(request, value)
                         /\ request.op = "subscribe" /\ value = "ok" =>
                                daemon'.subscribed /\ daemon'.owes
           /\ daemon'.state = "serving" => daemon.state = "serving"
           /\ daemon.subscribed => daemon'.subscribed
           /\ daemon.owes => daemon'.owes \/ daemon'.state # "serving"
                             \/ \E f \in In(toClient') : f.kind = "snapshot"
<1>0. /\ toDaemon \in Seq(Request) /\ toClient \in Seq(Frame) /\ daemon \in Daemons
      /\ UNCHANGED <<clientVars, reader>>
    BY DEF Types, TypeOK, Daemons, DaemonStep, Serve, SendSnapshot, Push, StopWriting, Hangup, Client
<1>1. CASE Serve
    BY <1>0, <1>1, ServeSends
<1>2. CASE SendSnapshot
    <2>1. [kind |-> "snapshot"] \in Frame /\ [kind |-> "snapshot"].kind = "snapshot"
        BY DEF Frame
    <2>2. In(toClient') = In(toClient) \cup {[kind |-> "snapshot"]}
        BY <1>0, <1>2, <2>1, AppendedIn DEF SendSnapshot
    <2> QED
        BY <1>0, <1>2, <2>1, <2>2 DEF SendSnapshot, Daemons
<1>3. CASE Push
    <2>1. [kind |-> "event"] \in Frame /\ [kind |-> "event"].kind = "event"
        BY DEF Frame
    <2>2. In(toClient') = In(toClient) \cup {[kind |-> "event"]}
        BY <1>0, <1>3, <2>1, AppendedIn DEF Push
    <2> QED
        BY <1>0, <1>3, <2>1, <2>2 DEF Push
<1>4. CASE StopWriting
    BY <1>0, <1>4 DEF StopWriting, Daemons
<1>5. CASE Hangup
    BY <1>0, <1>5, NothingIn DEF Hangup, Daemons
<1> QED
    BY <1>1, <1>2, <1>3, <1>4, <1>5 DEF DaemonStep

LEMMA NumberedStep == Types /\ Numbered /\ [Next]_vars => Numbered'
<1> SUFFICES ASSUME Types, Numbered, [Next]_vars PROVE Numbered'
    OBVIOUS
<1>0. nextId \in Nat /\ Registered
    BY ControlClientAssumption DEF Types, TypeOK
<1>1. CASE UNCHANGED vars
    BY <1>1 DEF vars, clientVars, Numbered, Fresh, SameOp, InFlight
<1>2. CASE ReaderStep
    BY <1>2, ReaderTakes DEF Numbered, Fresh, SameOp, InFlight
<1>3. CASE DaemonStep
    <2>1. UNCHANGED <<call, nextId>> /\ In(toDaemon') \subseteq In(toDaemon)
        BY <1>3, DaemonSends DEF clientVars
    <2>2. \A f \in In(toClient') : f.kind = "answer" => f.id < nextId
        BY <1>3, DaemonSends DEF Numbered, Fresh, Answer
    <2> QED
        BY <2>1, <2>2 DEF Numbered, Fresh, SameOp, InFlight
<1>4. ASSUME NEW c \in Caller, HearEnd(c) PROVE Numbered'
    BY <1>4 DEF HearEnd, Outside, Numbered, Fresh, SameOp, InFlight
<1>5. ASSUME NEW c \in Caller, CallerMoves(c) PROVE Numbered'
    <2>0. /\ \A d \in Caller \ {c} : call'[d] = call[d]
          /\ toClient' = toClient
          /\ Leaves(c) \/ Departs(c) \/ Stays(c)
        BY <1>5, CallerShape
    <2>1. CASE Leaves(c)
        BY <2>0, <2>1 DEF Leaves, Numbered, Fresh, SameOp, InFlight
    <2>2. CASE Departs(c)
        <3>1. /\ \A r \in In(toDaemon') : r.id < nextId
              /\ \A f \in In(toClient') : f.kind = "answer" => f.id < nextId
              /\ \A d \in Caller \ {c} : InFlight(d)' => InFlight(d) /\ call'[d].id < nextId
              /\ call'[c].id = nextId /\ nextId' = nextId + 1
            BY <2>0, <2>2 DEF Departs, Numbered, Fresh, InFlight
        <3>2. \A d \in Caller \ {c} : InFlight(d)' => call'[d].id \in Nat
            BY <2>0 DEF Types, Registered, InFlight, Id
        <3>3. /\ \A r \in In(toDaemon) : r.id \in Nat
              /\ \A f \in In(toClient) : f.kind = "answer" => f.id \in Nat
            <4>1. In(toDaemon) \subseteq Request /\ In(toClient) \subseteq Frame
                BY DEF Types, TypeOK, In
            <4>2. \A r \in Request : r.id \in Nat
                BY DEF Request, Id
            <4>3. \A f \in Frame : f.kind = "answer" => f.id \in Nat
                BY DEF Frame, Id
            <4> QED
                BY <4>1, <4>2, <4>3
        <3>4. toDaemon' = toDaemon
            BY <2>2 DEF Departs
        <3>5. Fresh'
            BY <1>0, <2>0, <3>1, <3>2, <3>3, <3>4 DEF Fresh, Numbered
        <3>6. SameOp'
            <4> SUFFICES ASSUME NEW r \in In(toDaemon), NEW d \in Caller, InFlight(d)',
                                r.id = call'[d].id
                         PROVE  r.op = call'[d].op
                BY <3>4 DEF SameOp
            <4>1. d # c
                BY <1>0, <3>1, <3>4
            <4> QED
                BY <2>0, <4>1 DEF Numbered, SameOp, InFlight
        <3> QED
            BY <3>5, <3>6 DEF Numbered
    <2>3. CASE Stays(c)
        <3>1. /\ nextId' = nextId /\ InFlight(c)
              /\ \A d \in Caller : /\ InFlight(d)' => InFlight(d)
                                   /\ call'[d].id = call[d].id /\ call'[d].op = call[d].op
              /\ \A r \in In(toDaemon') :
                     r \in In(toDaemon) \/ (r.id = call[c].id /\ r.op = call[c].op)
            BY <2>0, <2>3 DEF Stays, InFlight, RequestOf
        <3>2. Fresh'
            BY <2>0, <3>1 DEF Fresh, Numbered
        <3>3. SameOp'
            BY <2>0, <3>1 DEF SameOp, Fresh, Numbered
        <3> QED
            BY <3>2, <3>3 DEF Numbered
    <2> QED
        BY <2>0, <2>1, <2>2, <2>3
<1> QED
    BY <1>1, <1>2, <1>3, <1>4, <1>5 DEF Next, CallerMoves, DaemonStep

-----------------------------------------------------------------------------
(* After the end.  A receiver reads the end only when the reader is gone,  *)
(* and from then on no call gets past the check.                           *)

Ended ==
    /\ (\E c \in Caller : stream[c].state = "ended") => reader = "gone"
    /\ \A c \in Caller : call[c].late =>
           /\ reader = "gone"
           /\ call[c].pc \in {"idle", "lock", "check"}
           /\ call[c].pc = "idle" => call[c].outcome = "closed"

LEMMA EndedStep == Types /\ Ended /\ [Next]_vars => Ended'
<1> SUFFICES ASSUME Types, Ended, [Next]_vars PROVE Ended'
    OBVIOUS
<1>0. call \in Calls /\ stream \in Streams
    BY DEF Types, TypeOK, Calls, Streams
<1>1. CASE UNCHANGED vars
    BY <1>1 DEF vars, clientVars, Ended
<1>2. CASE ReaderStep
    <2>1. \A c \in Caller : stream'[c].state = stream[c].state
        BY <1>0, <1>2 DEF ReaderStep, ReadAnswer, ReadEvent, ReadEnd, Drain, ReaderReturns,
           clientVars, Streams
    <2>2. reader = "gone" => reader' = "gone"
        BY <1>2 DEF ReaderStep, ReadAnswer, ReadEvent, ReadEnd, Drain, ReaderReturns
    <2> QED
        BY <1>2, <2>1, <2>2, ReaderTakes DEF Ended
<1>3. CASE DaemonStep
    BY <1>3, DaemonSends DEF clientVars, Ended
<1>4. ASSUME NEW c \in Caller, HearEnd(c) PROVE Ended'
    BY <1>4 DEF HearEnd, Outside, SenderDropped, Ended
<1>5. ASSUME NEW c \in Caller, CallerMoves(c) PROVE Ended'
    <2>0. /\ \A d \in Caller \ {c} : call'[d] = call[d] /\ stream'[d] = stream[d]
          /\ reader' = reader
        BY <1>5, CallerShape
    <2>1. stream'[c].state = "ended" => stream[c].state = "ended"
        BY <1>0, <1>5 DEF CallerMoves, Begin, EnterSubscribe, CallStep, Check, Register, Write,
           TakeAnswer, TimeOut, Reclaim, Settle, Streams, NoStream, NewStream
    <2>2. call'[c].late => /\ reader = "gone"
                           /\ call'[c].pc \in {"idle", "lock", "check"}
                           /\ call'[c].pc = "idle" => call'[c].outcome = "closed"
        <3>1. CASE \E op \in {"call", "subscribe"} : Begin(c, op)
            BY <1>0, <3>1, BeginCall DEF Ended
        <3>2. CASE EnterSubscribe(c) \/ Check(c)
            BY <1>0, <3>2, EarlyCall DEF Ended
        <3>3. CASE Register(c)
            <4>1. nextId \in Id /\ ~call[c].late
                BY <3>3 DEF Register, Ended
            <4> QED
                BY <1>0, <3>3, <4>1, RegisterType
        <3>4. CASE Write(c) \/ TimeOut(c)
            <4>1. ~call[c].late
                BY <3>4 DEF Write, TimeOut, Ended
            <4> QED
                BY <3>4, <4>1, WriteCall, TimeOutCall
        <3>5. CASE TakeAnswer(c) \/ Reclaim(c)
            <4>1. ~call[c].late
                BY <3>5 DEF TakeAnswer, Reclaim, Ended
            <4> QED
                BY <1>0, <3>5, <4>1, TakeAnswerCall, ReclaimCall
        <3> QED
            BY <1>5, <3>1, <3>2, <3>3, <3>4, <3>5 DEF CallerMoves, CallStep
    <2> QED
        BY <2>0, <2>1, <2>2 DEF Ended
<1> QED
    BY <1>1, <1>2, <1>3, <1>4, <1>5 DEF Next, CallerMoves, DaemonStep

LEMMA EndedInit == Init => Ended
BY DEF Init, Ended, NoStream, NoCall

-----------------------------------------------------------------------------
(* The subscription.  An answer that says the connection is subscribed, on *)
(* its way or in its slot, is a promise the daemon keeps: it is subscribed, *)
(* and the snapshot is owed, on its way, or has reached the receiver, which *)
(* the caller had opened before it asked.                                   *)

Heard(c) ==
    Serving => \/ stream[c].snapshot \/ daemon.owes
               \/ \E f \in In(toClient) : f.kind = "snapshot"

Subscribing(c) == InFlight(c) /\ call[c].op = "subscribe"

Listening ==
    /\ reader # "reading" => ~Serving
    /\ \A c \in Caller :
           call[c].op = "subscribe" /\ call[c].pc \in {"check", "register", "write", "wait", "reclaim"}
               => stream[c].state = "open"
    /\ \A c \in Caller : stream[c].state = "off" => ~stream[c].told
    /\ \A c \in Caller : call[c].pc = "reclaim" => call[c].outcome # "ok"

Promised ==
    \A c \in Caller : Subscribing(c) =>
        /\ \A f \in In(toClient) :
               f.kind = "answer" /\ f.id = call[c].id /\ f.value = "ok" =>
                   daemon.subscribed /\ Heard(c)
        /\ slot[call[c].id].value = "ok" => daemon.subscribed /\ Heard(c)

Told ==
    /\ subscribed => daemon.subscribed
    /\ \A c \in Caller : stream[c].told => Heard(c)

LEMMA ListeningStep == Types /\ Ended /\ Listening /\ [Next]_vars => Listening'
<1> SUFFICES ASSUME Types, Ended, Listening, [Next]_vars PROVE Listening'
    OBVIOUS
<1>0. call \in Calls /\ stream \in Streams
    BY DEF Types, TypeOK, Calls, Streams
<1>1. CASE UNCHANGED vars
    BY <1>1 DEF vars, clientVars, Listening, Serving
<1>2. CASE ReaderStep
    <2>1. \A c \in Caller : stream'[c].state = stream[c].state /\ stream'[c].told = stream[c].told
        BY <1>0, <1>2 DEF ReaderStep, ReadAnswer, ReadEvent, ReadEnd, Drain, ReaderReturns,
           clientVars, Streams
    <2>2. reader' # "reading" => ~Serving
        BY <1>2 DEF ReaderStep, ReadAnswer, ReadEvent, ReadEnd, Drain, ReaderReturns,
           Serving, Listening
    <2>3. call' = call /\ Serving' = Serving
        BY <1>2, ReaderTakes DEF Serving
    <2> QED
        BY <2>1, <2>2, <2>3 DEF Listening
<1>3. CASE DaemonStep
    BY <1>3, DaemonSends DEF clientVars, Listening, Serving
<1>4. ASSUME NEW c \in Caller, HearEnd(c) PROVE Listening'
    <2>1. /\ stream' = [stream EXCEPT ![c].state = "ended"] /\ stream[c].state = "open"
          /\ call[c].pc = "idle" \/ call[c].op = "call"
          /\ UNCHANGED <<call, reader, daemon>>
        BY <1>4 DEF HearEnd, Outside
    <2>2. /\ \A d \in Caller \ {c} : stream'[d] = stream[d]
          /\ stream'[c].state = "ended"
        BY <1>0, <2>1 DEF Streams
    <2> QED
        BY <2>1, <2>2 DEF Listening, Serving
<1>5. ASSUME NEW c \in Caller, CallerMoves(c) PROVE Listening'
    <2>0. /\ \A d \in Caller \ {c} : call'[d] = call[d] /\ stream'[d] = stream[d]
          /\ UNCHANGED <<reader, daemon>>
        BY <1>5, CallerShape
    <2>1. stream'[c].state = "off" => ~stream'[c].told
        BY <1>0, <1>5 DEF Listening, CallerMoves, Begin, EnterSubscribe, CallStep, Check, Register,
           Write, TakeAnswer, TimeOut, Reclaim, Settle, Streams, NoStream, NewStream
    <2>2. /\ call'[c].pc = "reclaim" => call'[c].outcome # "ok"
          /\ call'[c].op = "subscribe"
             /\ call'[c].pc \in {"check", "register", "write", "wait", "reclaim"}
                 => stream'[c].state = "open"
        <3>1. CASE \E op \in {"call", "subscribe"} : Begin(c, op)
            BY <1>0, <3>1, BeginCall
        <3>2. CASE EnterSubscribe(c)
            <4>1. CASE \E outcome \in {"closed", "ok"} : Return(c, outcome, 0)
                BY <1>0, <4>1, ReturnType DEF Outcome
            <4>2. CASE stream' = [stream EXCEPT ![c] = NewStream] /\ Goto(c, "check")
                BY <1>0, <4>2, GotoType DEF Streams, NewStream, NoStream
            <4> QED
                BY <3>2, <4>1, <4>2 DEF EnterSubscribe
        <3>3. CASE Check(c)
            <4>1. CASE Return(c, "closed", 0)
                BY <1>0, <4>1, ReturnType DEF Outcome
            <4>2. CASE Goto(c, "register") /\ stream' = stream
                BY <1>0, <3>3, <4>2, GotoType DEF Check, Listening
            <4> QED
                BY <3>3, <4>1, <4>2 DEF Check
        <3>4. CASE Register(c)
            <4>1. nextId \in Id
                BY <3>4 DEF Register
            <4> QED
                BY <1>0, <3>4, <4>1, RegisterType DEF Register, Listening
        <3>5. CASE Write(c) \/ TimeOut(c)
            <4>1. call[c].pc \in {"write", "wait"}
                BY <3>5 DEF Write, TimeOut
            <4>2. /\ call'[c].op = call[c].op /\ stream' = stream
                  /\ call'[c].pc = "reclaim" => call'[c].outcome # "ok"
                BY <3>5, WriteCall, TimeOutCall DEF Stays
            <4> QED
                BY <4>1, <4>2 DEF Listening
        <3>6. CASE TakeAnswer(c) \/ Reclaim(c)
            BY <1>0, <3>6, TakeAnswerCall, ReclaimCall
        <3> QED
            BY <1>5, <3>1, <3>2, <3>3, <3>4, <3>5, <3>6 DEF CallerMoves, CallStep
    <2> QED
        BY <2>0, <2>1, <2>2 DEF Listening, Serving
<1> QED
    BY <1>1, <1>2, <1>3, <1>4, <1>5 DEF Next, CallerMoves, DaemonStep

LEMMA StillHeard ==
    ASSUME Types, Ended, Listening, NEW c \in Caller, Heard(c),
           DaemonStep \/ (ReaderStep /\ stream[c].state # "off")
    PROVE  Heard(c)'
<1>1. CASE DaemonStep
    BY <1>1, DaemonSends DEF Heard, Serving, clientVars
<1>2. CASE ReaderStep /\ stream[c].state # "off"
    <2>0. stream \in Streams /\ toClient \in Seq(Frame) /\ daemon' = daemon
        BY <1>2, ReaderTakes DEF Types, TypeOK, Streams
    <2>1. stream[c].state = "open"
        BY <1>2, <2>0 DEF Streams, Ended, ReaderStep, ReadAnswer, ReadEvent, ReadEnd, Drain,
           ReaderReturns
    <2>2. stream[c].snapshot => stream'[c].snapshot
        BY <1>2, <2>0 DEF ReaderStep, ReadAnswer, ReadEvent, ReadEnd, Drain, ReaderReturns,
           clientVars, Streams
    <2>3. CASE ReadEvent /\ Head(toClient).kind = "snapshot"
        <3>1. stream'[c].snapshot
            BY <2>0, <2>1, <2>3 DEF ReadEvent, Streams
        <3> QED
            BY <3>1 DEF Heard
    <2>4. CASE (ReadAnswer \/ ReadEvent) /\ Head(toClient).kind # "snapshot"
        <3>1. toClient # <<>> /\ toClient' = Tail(toClient)
            BY <2>4 DEF ReadAnswer, ReadEvent
        <3>2. In(toClient) = In(toClient') \cup {Head(toClient)}
            BY <2>0, <3>1, TakenIn
        <3> QED
            BY <2>0, <2>2, <2>4, <3>2 DEF Heard, Serving
    <2>5. CASE ReadEnd \/ Drain \/ ReaderReturns
        <3>1. toClient' = toClient
            BY <2>5 DEF ReadEnd, Drain, ReaderReturns
        <3> QED
            BY <2>0, <2>2, <3>1 DEF Heard, Serving
    <2>6. ReadAnswer => Head(toClient).kind # "snapshot"
        BY DEF ReadAnswer
    <2> QED
        BY <1>2, <2>3, <2>4, <2>5, <2>6 DEF ReaderStep
<1> QED
    BY <1>1, <1>2

LEMMA PromisedStep ==
    Types /\ Numbered /\ Ended /\ Listening /\ Promised /\ [Next]_vars => Promised'
<1> SUFFICES ASSUME Types, Numbered, Ended, Listening, Promised, [Next]_vars PROVE Promised'
    OBVIOUS
<1>0. call \in Calls /\ stream \in Streams /\ Registered
    BY DEF Types, TypeOK, Calls, Streams
<1>1. CASE UNCHANGED vars
    BY <1>1 DEF vars, clientVars, Promised, Subscribing, InFlight, Heard, Serving
<1>2. CASE ReaderStep
    <2>0. call' = call /\ daemon' = daemon /\ In(toClient') \subseteq In(toClient)
        BY <1>2, ReaderTakes
    <2>1. \A c \in Caller : Subscribing(c) /\ Heard(c) => Heard(c)'
        BY <1>2, StillHeard DEF Subscribing, InFlight, Listening
    <2>2. ASSUME NEW c \in Caller, Subscribing(c), slot'[call[c].id].value = "ok"
          PROVE  daemon.subscribed /\ Heard(c)
        <3>0. call[c].id \in Id
            BY <1>0, <2>2 DEF Subscribing, Registered
        <3>1. CASE slot[call[c].id].value = "ok"
            BY <2>2, <3>1 DEF Promised
        <3>2. CASE slot[call[c].id].value # "ok"
            <4> DEFINE f == Head(toClient)
            <4>1. ReadAnswer
                BY <1>2, <2>2, <3>0, <3>2 DEF ReaderStep, ReadEvent, ReadEnd, Drain, ReaderReturns,
                   clientVars, NoAnswer
            <4>2. f.kind = "answer" /\ f.id = call[c].id /\ f.value = "ok"
                BY <2>2, <3>0, <3>2, <4>1 DEF ReadAnswer, Types, TypeOK
            <4>3. f \in In(toClient)
                BY <4>1, TakenIn DEF ReadAnswer, Types, TypeOK
            <4> QED
                BY <2>2, <4>2, <4>3 DEF Promised
        <3> QED
            BY <3>1, <3>2
    <2> QED
        BY <2>0, <2>1, <2>2 DEF Promised, Subscribing, InFlight
<1>3. CASE DaemonStep
    <2>0. call' = call /\ slot' = slot
        BY <1>3, DaemonSends DEF clientVars
    <2>1. \A c \in Caller : daemon.subscribed /\ Heard(c) => daemon'.subscribed /\ Heard(c)'
        BY <1>3, StillHeard, DaemonSends
    <2>2. ASSUME NEW c \in Caller, Subscribing(c), NEW f \in In(toClient'),
                 f.kind = "answer", f.id = call[c].id, f.value = "ok"
          PROVE  daemon'.subscribed /\ Heard(c)'
        <3>1. CASE f \in In(toClient)
            BY <2>1, <2>2, <3>1 DEF Promised
        <3>2. CASE f \notin In(toClient)
            <4>1. PICK request \in In(toDaemon), value \in {"ok", "refused"} :
                      /\ f = Answer(request, value)
                      /\ request.op = "subscribe" /\ value = "ok" =>
                             daemon'.subscribed /\ daemon'.owes
                BY <1>3, <2>2, <3>2, DaemonSends
            <4>2. request.id = call[c].id /\ value = "ok"
                BY <2>2, <4>1 DEF Answer
            <4>3. request.op = "subscribe"
                BY <2>2, <4>2 DEF Numbered, SameOp, Subscribing
            <4> QED
                BY <4>1, <4>2, <4>3 DEF Heard
        <3> QED
            BY <3>1, <3>2
    <2> QED
        BY <2>0, <2>1, <2>2 DEF Promised, Subscribing, InFlight
<1>4. ASSUME NEW c \in Caller, HearEnd(c) PROVE Promised'
    <2>1. \A d \in Caller : stream'[d].snapshot = stream[d].snapshot
        BY <1>0, <1>4 DEF HearEnd, Streams
    <2> QED
        BY <1>4, <2>1 DEF HearEnd, Outside, Promised, Subscribing, InFlight, Heard, Serving
<1>5. ASSUME NEW c \in Caller, CallerMoves(c) PROVE Promised'
    <2>0. /\ \A d \in Caller \ {c} : call'[d] = call[d] /\ stream'[d] = stream[d]
          /\ UNCHANGED <<toClient, daemon>>
          /\ Leaves(c) \/ Departs(c) \/ Stays(c)
        BY <1>5, CallerShape
    <2>1. \A d \in Caller \ {c} : Heard(d)' <=> Heard(d)
        BY <2>0 DEF Heard, Serving
    <2>2. CASE Leaves(c)
        BY <2>0, <2>1, <2>2 DEF Leaves, Promised, Subscribing, InFlight
    <2>3. CASE Departs(c)
        <3>1. nextId \in Id /\ \A id \in Id : slot'[id].value = "ok" => slot[id].value = "ok" /\ id # nextId
            BY <2>3 DEF Departs, NoAnswer, Types, TypeOK
        <3>2. \A f \in In(toClient) : f.kind = "answer" => f.id # nextId
            BY <3>1 DEF Numbered, Fresh, Id
        <3>3. \A d \in Caller \ {c} : Subscribing(d)' => Subscribing(d) /\ call[d].id \in Id
            BY <1>0, <2>0 DEF Subscribing, InFlight, Registered
        <3>4. call'[c].id = nextId
            BY <2>3 DEF Departs
        <3> QED
            BY <2>0, <2>1, <3>1, <3>2, <3>3, <3>4 DEF Promised
    <2>4. CASE Stays(c)
        BY <2>0, <2>1, <2>4 DEF Stays, Promised, Subscribing, InFlight, Heard, Serving
    <2> QED
        BY <2>0, <2>2, <2>3, <2>4
<1> QED
    BY <1>1, <1>2, <1>3, <1>4, <1>5 DEF Next, CallerMoves, DaemonStep

LEMMA ToldStep ==
    Types /\ Ended /\ Listening /\ Promised /\ Told /\ [Next]_vars => Told'
<1> SUFFICES ASSUME Types, Ended, Listening, Promised, Told, [Next]_vars PROVE Told'
    OBVIOUS
<1>0. call \in Calls /\ stream \in Streams
    BY DEF Types, TypeOK, Calls, Streams
<1>1. CASE UNCHANGED vars
    BY <1>1 DEF vars, clientVars, Told, Heard, Serving
<1>2. CASE ReaderStep
    <2>1. \A c \in Caller : stream'[c].told = stream[c].told
        BY <1>0, <1>2 DEF ReaderStep, ReadAnswer, ReadEvent, ReadEnd, Drain, ReaderReturns,
           clientVars, Streams
    <2>2. \A c \in Caller : stream[c].told => Heard(c)'
        BY <1>2, StillHeard DEF Told, Listening
    <2> QED
        BY <1>2, <2>1, <2>2, ReaderTakes DEF Told
<1>3. CASE DaemonStep
    <2>1. \A c \in Caller : stream[c].told => Heard(c)'
        BY <1>3, StillHeard DEF Told
    <2> QED
        BY <1>3, <2>1, DaemonSends DEF Told, clientVars
<1>4. ASSUME NEW c \in Caller, HearEnd(c) PROVE Told'
    <2>1. \A d \in Caller : /\ stream'[d].snapshot = stream[d].snapshot
                            /\ stream'[d].told = stream[d].told
        BY <1>0, <1>4 DEF HearEnd, Streams
    <2> QED
        BY <1>4, <2>1 DEF HearEnd, Outside, Told, Heard, Serving
<1>5. ASSUME NEW c \in Caller, CallerMoves(c) PROVE Told'
    <2>0. /\ \A d \in Caller \ {c} : call'[d] = call[d] /\ stream'[d] = stream[d]
          /\ UNCHANGED <<toClient, daemon>>
        BY <1>5, CallerShape
    <2>1. \A d \in Caller \ {c} : stream'[d].told => Heard(d)'
        BY <2>0 DEF Told, Heard, Serving
    <2>2. CASE UNCHANGED <<stream, subscribed>>
        BY <2>0, <2>2 DEF Told, Heard, Serving
    <2>3. CASE EnterSubscribe(c) /\ stream' = [stream EXCEPT ![c] = NewStream]
        <3>1. ~stream'[c].told /\ subscribed' = subscribed
            BY <1>0, <2>3 DEF EnterSubscribe, NewStream, NoStream, Streams
        <3> QED
            BY <2>0, <2>1, <3>1 DEF Told
    <2>4. ASSUME NEW outcome, Settle(c, outcome), outcome # "ok" PROVE Told'
        <3>1. CASE call[c].op = "subscribe"
            <4>1. ~subscribed'
                BY <2>4, <3>1 DEF Settle
            <4>2. stream' = [stream EXCEPT ![c] = NoStream]
                BY <2>4, <3>1 DEF Settle
            <4>3. ~stream'[c].told
                BY <1>0, <4>2 DEF NoStream, Streams
            <4> QED
                BY <2>0, <2>1, <4>1, <4>3 DEF Told
        <3>2. CASE call[c].op # "subscribe"
            BY <2>2, <2>4, <3>2 DEF Settle
        <3> QED
            BY <3>1, <3>2
    <2>5. CASE TakeAnswer(c) /\ slot[call[c].id].value = "ok"
        <3>1. CASE call[c].op = "subscribe"
            <4>1. daemon.subscribed /\ Heard(c)
                BY <2>5, <3>1 DEF TakeAnswer, Promised, Subscribing, InFlight
            <4>2. stream'[c].snapshot = stream[c].snapshot
                BY <1>0, <2>5, <3>1 DEF TakeAnswer, Settle, Streams
            <4> QED
                BY <2>0, <2>1, <4>1, <4>2 DEF Told, Heard, Serving
        <3>2. CASE call[c].op # "subscribe"
            BY <2>2, <2>5, <3>2 DEF TakeAnswer, Settle
        <3> QED
            BY <3>1, <3>2
    <2>6. CASE TakeAnswer(c) /\ slot[call[c].id].value # "ok"
        BY <2>4, <2>6 DEF TakeAnswer
    <2>7. CASE Reclaim(c)
        BY <2>4, <2>7 DEF Reclaim, Listening
    <2>8. CASE Check(c)
        BY <2>2, <2>4, <2>8 DEF Check
    <2>9. CASE EnterSubscribe(c)
        BY <2>2, <2>3, <2>9 DEF EnterSubscribe
    <2>10. CASE Register(c) \/ Write(c) \/ TimeOut(c) \/ \E op \in {"call", "subscribe"} : Begin(c, op)
        BY <2>2, <2>10 DEF Register, Write, TimeOut, Begin
    <2> QED
        BY <1>5, <2>5, <2>6, <2>7, <2>8, <2>9, <2>10 DEF CallerMoves, CallStep
<1> QED
    BY <1>1, <1>2, <1>3, <1>4, <1>5 DEF Next, CallerMoves, DaemonStep

LEMMA SubscribedInit == Init => Listening /\ Promised /\ Told
BY NothingIn DEF Init, Listening, Promised, Told, Subscribing, InFlight, NoStream, NoCall

\* Whoever shares the connection: nobody takes it for subscribed unless the
\* daemon is, the subscriber that made the subscription hears the snapshot,
\* and a call made after a receiver read the end fails as closed.
THEOREM SubscriptionsHold == Spec => []SubscriptionHolds
<1>1. Ended => EndIsFinal
    BY DEF Ended, EndIsFinal
<1>2. Told => NoPhantomSubscription /\ SnapshotIsHeard
    BY DEF Told, Heard, In, NoPhantomSubscription, SnapshotIsHeard
<1>3. Ended /\ Told => SubscriptionHolds
    BY <1>1, <1>2 DEF SubscriptionHolds
<1> QED
    BY <1>3, TypeInit, TypeStep, NumberedInit, NumberedStep, EndedInit, EndedStep, ListeningStep,
       PromisedStep, ToldStep, SubscribedInit, PTL DEF Spec
=============================================================================
