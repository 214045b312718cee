---------------------------- MODULE JobWaitProofs ----------------------------
(***************************************************************************)
(* Theorems about JobWait for any queue, any receiver and any stall: the   *)
(* report adds up and is true, and an announced end stays in the stream.   *)
(***************************************************************************)
EXTENDS JobWait, SequenceTheorems, FiniteSetTheorems, TLAPS

-----------------------------------------------------------------------------
(* Sequences.                                                              *)

\* Listing a finite set names each of its members once.
LEMMA SetToSeqLists ==
    ASSUME NEW S, IsFiniteSet(S)
    PROVE  LET s == SetToSeq(S)
           IN  /\ s \in Seq(S)
               /\ \A k, l \in 1..Len(s) : s[k] = s[l] => k = l
               /\ \A x \in S : \E k \in 1..Len(s) : s[k] = x
<1> DEFINE n == Cardinality(S)
<1>1. n \in Nat /\ ExistsBijection(1..n, S)
    BY FS_CardinalityType
<1>2. PICK g \in [1..n -> S] : \A a, b \in 1..n : g[a] = g[b] => a = b
    BY <1>1 DEF ExistsBijection, Bijection, Injection, IsInjective
<1>3. IsInjective(g)
    BY <1>2 DEF IsInjective
<1>4. SetToSeq(S) \in [1..n -> S] /\ IsInjective(SetToSeq(S))
    BY <1>2, <1>3 DEF SetToSeq
<1> HIDE DEF n
<1> DEFINE s == SetToSeq(S)
<1>5. s \in Seq(S) /\ Len(s) = n
    BY <1>1, <1>4, SeqDef, LenProperties
<1>6. \A k, l \in 1..Len(s) : s[k] = s[l] => k = l
    BY <1>4, <1>5 DEF IsInjective
<1>7. s \in Injection(1..n, S) /\ IsFiniteSet(1..n) /\ Cardinality(1..n) = Cardinality(S)
    <2>1. s \in Injection(1..n, S)
        BY <1>4 DEF Injection
    <2>2. IsFiniteSet(1..n) /\ Cardinality(1..n) = n
        BY <1>1, FS_Interval
    <2> QED
        BY <2>1, <2>2 DEF n
<1>8. s \in Surjection(1..n, S)
    BY <1>7, FS_Injection
<1>9. \A x \in S : \E k \in 1..Len(s) : s[k] = x
    BY <1>5, <1>8 DEF Surjection
<1> QED
    BY <1>5, <1>6, <1>9

\* What a listing adds to the report: for each ended row its record, once,
\* after what was there.
LEMMA SettledShape ==
    ASSUME report \in Seq(Record), NEW over \in SUBSET Job, reply \in Listing,
           \A j \in over : reply.row[j] \in Ended
    PROVE  LET new == Settled(over)
           IN  /\ new \in Seq(Record)
               /\ Len(new) >= Len(report)
               /\ \A k \in 1..Len(report) : new[k] = report[k]
               /\ \A k \in 1..Len(new) : k > Len(report) =>
                      new[k].job \in over /\ new[k].outcome = reply.row[new[k].job]
               /\ \A k, l \in 1..Len(new) :
                      (k > Len(report) /\ l > Len(report) /\ new[k].job = new[l].job) => k = l
               /\ \A j \in over : \E k \in 1..Len(new) : new[k].job = j
<1> DEFINE records == {[job |-> j, outcome |-> reply.row[j]] : j \in over}
           s == SetToSeq(records)
           new == Settled(over)
<1>1. IsFiniteSet(records)
    <2> DEFINE g == [j \in over |-> [job |-> j, outcome |-> reply.row[j]]]
    <2>1. IsFiniteSet(over)
        BY FS_Subset, JobWaitAssumption
    <2>2. g \in Surjection(over, records)
        BY DEF Surjection
    <2> HIDE DEF g, records
    <2> QED
        BY <2>1, <2>2, FS_Surjection
<1>2. records \subseteq Record
    BY DEF Record
<1>3. \A x \in records : x.job \in over /\ x.outcome = reply.row[x.job]
    OBVIOUS
<1>4. ASSUME NEW x \in records, NEW y \in records, x.job = y.job
      PROVE  x = y
    <2>1. PICK i \in over : x = [job |-> i, outcome |-> reply.row[i]]
        OBVIOUS
    <2>2. PICK j \in over : y = [job |-> j, outcome |-> reply.row[j]]
        OBVIOUS
    <2>3. i = j
        BY <1>4, <2>1, <2>2
    <2> QED
        BY <2>1, <2>2, <2>3
<1>5. ASSUME NEW j \in over
      PROVE  \E x \in records : x.job = j
    <2>1. [job |-> j, outcome |-> reply.row[j]] \in records
        OBVIOUS
    <2>2. [job |-> j, outcome |-> reply.row[j]].job = j
        OBVIOUS
    <2> HIDE DEF records
    <2> QED
        BY <2>1, <2>2
<1>6. new = report \o s
    BY DEF Settled
<1> HIDE DEF records
<1>7. /\ s \in Seq(records)
      /\ \A k, l \in 1..Len(s) : s[k] = s[l] => k = l
      /\ \A x \in records : \E k \in 1..Len(s) : s[k] = x
    BY <1>1, SetToSeqLists
<1> HIDE DEF s, new
<1>8. /\ Len(s) \in Nat /\ Len(report) \in Nat /\ s \in Seq(Record)
      /\ \A k \in 1..Len(s) : s[k] \in records
    BY <1>2, <1>7, SeqMonotonic
<1>9. /\ new \in Seq(Record) /\ Len(new) = Len(report) + Len(s)
      /\ \A k \in 1..Len(new) : new[k] = IF k <= Len(report) THEN report[k]
                                         ELSE s[k - Len(report)]
    BY <1>6, <1>8, ConcatProperties
<1>10. Len(new) >= Len(report) /\ \A k \in 1..Len(report) : new[k] = report[k]
    BY <1>8, <1>9
<1>11. ASSUME NEW k \in 1..Len(new), k > Len(report)
       PROVE  /\ k - Len(report) \in 1..Len(s)
              /\ new[k] = s[k - Len(report)]
              /\ new[k] \in records
    BY <1>8, <1>9, <1>11
<1>12. ASSUME NEW k \in 1..Len(new), NEW l \in 1..Len(new), k > Len(report), l > Len(report),
              new[k].job = new[l].job
       PROVE  k = l
    <2>1. new[k] = new[l]
        BY <1>4, <1>11, <1>12
    <2>2. s[k - Len(report)] = s[l - Len(report)]
        BY <1>11, <1>12, <2>1
    <2>3. k - Len(report) \in 1..Len(s) /\ l - Len(report) \in 1..Len(s)
        BY <1>11, <1>12
    <2>4. k - Len(report) = l - Len(report)
        BY <1>7, <2>2, <2>3
    <2> QED
        BY <1>8, <2>4
<1>13. ASSUME NEW j \in over
       PROVE  \E k \in 1..Len(new) : new[k].job = j
    <2>1. PICK x \in records : x.job = j
        BY <1>5
    <2>2. PICK k \in 1..Len(s) : s[k] = x
        BY <1>7
    <2>3. k + Len(report) \in 1..Len(new) /\ new[k + Len(report)] = s[k]
        <3> DEFINE m == k + Len(report)
        <3>1. m \in 1..Len(new) /\ ~(m <= Len(report)) /\ m - Len(report) = k
            BY <1>8, <1>9
        <3> HIDE DEF m
        <3>2. new[m] = s[m - Len(report)]
            BY <1>9, <3>1
        <3> QED
            BY <3>1, <3>2 DEF m
    <2> QED
        BY <2>1, <2>2, <2>3
<1> QED
    BY <1>3, <1>9, <1>10, <1>11, <1>12, <1>13 DEF new

\* A receiver takes events: it keeps its capacity, and what it has is what it
\* had or what came; if it lost nothing, all of it.
LEMMA PushedShape ==
    ASSUME NEW box \in [events : Seq(Event), lagged : BOOLEAN], NEW events \in Seq(Event),
           Len(box.events) <= Capacity
    PROVE  LET new == Pushed(box, events)
           IN  /\ new \in [events : Seq(Event), lagged : BOOLEAN]
               /\ Len(new.events) <= Capacity
               /\ \A k \in 1..Len(new.events) :
                      \/ \E l \in 1..Len(box.events) : new.events[k] = box.events[l]
                      \/ \E l \in 1..Len(events) : new.events[k] = events[l]
               /\ ~new.lagged =>
                      /\ ~box.lagged
                      /\ \A l \in 1..Len(box.events) :
                             \E k \in 1..Len(new.events) : new.events[k] = box.events[l]
                      /\ \A l \in 1..Len(events) :
                             \E k \in 1..Len(new.events) : new.events[k] = events[l]
<1> DEFINE s == box.events
           all == s \o events
           new == Pushed(box, events)
<1>1. s \in Seq(Event) /\ Len(s) \in Nat /\ Len(events) \in Nat
    OBVIOUS
<1>2. /\ all \in Seq(Event) /\ Len(all) = Len(s) + Len(events)
      /\ \A k \in 1..Len(all) : all[k] = IF k <= Len(s) THEN s[k] ELSE events[k - Len(s)]
    BY <1>1, ConcatProperties
<1>3. ASSUME NEW k \in 1..Len(all)
      PROVE  \/ \E l \in 1..Len(s) : all[k] = s[l]
             \/ \E l \in 1..Len(events) : all[k] = events[l]
    <2>1. CASE k <= Len(s)
        BY <1>1, <1>2, <2>1
    <2>2. CASE ~(k <= Len(s))
        <3> k - Len(s) \in 1..Len(events)
            BY <1>1, <1>2, <2>2
        <3> QED
            BY <1>2, <2>2
    <2> QED
        BY <2>1, <2>2
<1>4. CASE Len(all) <= Capacity
    <2>1. new = [box EXCEPT !.events = all]
        BY <1>4 DEF Pushed
    <2>2. new.events = all /\ new.lagged = box.lagged /\ new \in [events : Seq(Event), lagged : BOOLEAN]
        BY <1>2, <2>1
    <2>3. \A l \in 1..Len(s) : l \in 1..Len(all) /\ all[l] = s[l]
        BY <1>1, <1>2
    <2>4. ASSUME NEW l \in 1..Len(events)
          PROVE  \E k \in 1..Len(all) : all[k] = events[l]
        <3>1. Len(s) + l \in 1..Len(all) /\ (Len(s) + l) - Len(s) = l /\ ~(Len(s) + l <= Len(s))
            BY <1>1, <1>2
        <3> QED
            BY <1>2, <3>1
    <2> HIDE DEF s, all, new
    <2> QED
        BY <1>3, <1>4, <2>2, <2>3, <2>4 DEF s, new
<1>5. CASE ~(Len(all) <= Capacity)
    <2> DEFINE m == Len(all) - Capacity + 1
               t == SubSeq(all, m, Len(all))
    <2>1. new = [events |-> t, lagged |-> TRUE]
        BY <1>5 DEF Pushed
    <2>2. m \in 1..Len(all) /\ Capacity \in Nat
        BY <1>1, <1>2, <1>5, JobWaitAssumption
    <2>3. /\ t \in Seq(Event)
          /\ Len(t) = Capacity
          /\ \A k \in 1..Len(t) : m + k - 1 \in 1..Len(all) /\ t[k] = all[m + k - 1]
        <3> HIDE DEF all
        <3>1. Len(all) \in Nat
            BY <1>1, <1>2
        <3>2. \A k \in m..Len(all) : all[k] \in Event
            BY <1>2, <2>2, <3>1
        <3>3. t \in Seq(Event) /\ Len(t) = IF m <= Len(all) THEN Len(all) - m + 1 ELSE 0
            BY <1>2, <2>2, <3>1, SubSeqProperties
        <3>4. \A k \in 1..(Len(all) - m + 1) : t[k] = all[m + k - 1]
            BY <1>2, <2>2, <3>1, SubSeqProperties
        <3>5. m <= Len(all) /\ Len(all) - m + 1 = Capacity
            BY <2>2, <3>1
        <3>6. Len(t) = Capacity
            BY <3>3, <3>5
        <3>7. \A k \in 1..Capacity : m + k - 1 \in 1..Len(all)
            BY <2>2, <3>1
        <3> HIDE DEF t, m
        <3> QED
            BY <3>3, <3>4, <3>5, <3>6, <3>7
    <2> HIDE DEF t
    <2>4. new.events = t /\ new.lagged /\ new \in [events : Seq(Event), lagged : BOOLEAN]
        BY <2>1, <2>3
    <2> HIDE DEF s, all, new, t, m
    <2>5. ASSUME NEW k \in 1..Len(t)
          PROVE  \/ \E l \in 1..Len(s) : t[k] = s[l]
                 \/ \E l \in 1..Len(events) : t[k] = events[l]
        <3>1. m + k - 1 \in 1..Len(all) /\ t[k] = all[m + k - 1]
            BY <2>3
        <3> QED
            BY <1>3, <3>1
    <2>6. Len(new.events) <= Capacity
        BY <2>2, <2>3, <2>4
    <2> QED
        BY <2>4, <2>5, <2>6 DEF s, new
<1> QED
    BY <1>4, <1>5

-----------------------------------------------------------------------------
(* Type correctness.                                                       *)

Box == [events : Seq(Event), lagged : BOOLEAN]

LEMMA EventType ==
    /\ \A j \in Job : Progress(j) \in Event
    /\ \A j \in Job, o \in Outcome : Finished(j, o) \in Event
    /\ Degraded \in Event /\ Other \in Event
BY DEF Event

\* What a tick, a progress report or an outcome puts on the stream.
LEMMA SomeEvents ==
    /\ <<>> \in Seq(Event)
    /\ \A e \in Event : <<e>> \in Seq(Event)
    /\ \A e \in Event : <<Degraded>> \o <<e>> \in Seq(Event) /\ <<>> \o <<e>> \in Seq(Event)
<1>1. <<>> \in Seq(Event) /\ \A e \in Event : <<e>> \in Seq(Event)
    OBVIOUS
<1>2. Degraded \in Event
    BY EventType
<1>3. <<Degraded>> \in Seq(Event)
    BY <1>1, <1>2
<1> QED
    BY <1>1, <1>3, ConcatProperties

LEMMA PublishType ==
    ASSUME inbox \in Box, Len(inbox.events) <= Capacity,
           NEW events \in Seq(Event), Publish(events)
    PROVE  inbox' \in Box /\ Len(inbox'.events) <= Capacity
<1>1. CASE Subscribed
    BY <1>1, PushedShape DEF Publish, Box
<1>2. CASE ~Subscribed
    BY <1>2 DEF Publish
<1> QED
    BY <1>1, <1>2

\* The events a finished job publishes.
FinishEvents(outcome, process, ok) ==
    IF ok THEN (IF process THEN <<Degraded>> ELSE <<>>) \o <<Finished(busy, outcome)>>
    ELSE <<>>

LEMMA FinishEventsType ==
    ASSUME busy \in Job, NEW outcome \in Outcome, NEW process \in BOOLEAN, NEW ok \in BOOLEAN
    PROVE  FinishEvents(outcome, process, ok) \in Seq(Event)
BY SomeEvents, EventType DEF FinishEvents

\* The daemon's steps.
LEMMA DaemonType ==
    ASSUME TypeOK, WorkerNext \/ DaemonNext
    PROVE  TypeOK'
<1>0. inbox \in Box /\ Len(inbox.events) <= Capacity
    BY DEF TypeOK, Box
<1> DEFINE Typed ==
           /\ inbox' \in Box /\ Len(inbox'.events) <= Capacity
           /\ row' \in [Job -> RowState] /\ had' \in [Job -> SUBSET Ended]
           /\ told' \subseteq Job /\ busy' \in Job \cup {NoJob}
           /\ paused' \in BOOLEAN /\ up' \in BOOLEAN /\ requests' \in 0..MaxRequests
           /\ UNCHANGED <<enabled, waitVars>>
<1>1. SUFFICES Typed
    BY DEF TypeOK, Box, waitVars
<1> USE DEF TypeOK, daemonVars, waitVars, RowState, Live, Ended, Outcome, Begins, Ends
<1>2. ASSUME NEW j \in Job, Pull(j)
      PROVE  Typed
    <2>1. inbox' \in Box /\ Len(inbox'.events) <= Capacity
        BY <1>0, <1>2, SomeEvents, EventType, PublishType DEF Pull
    <2> QED
        BY <1>2, <2>1 DEF Pull
<1>3. CASE ReportProgress \/ Chatter
    <2>1. inbox' \in Box /\ Len(inbox'.events) <= Capacity
        BY <1>0, <1>3, SomeEvents, EventType, PublishType DEF ReportProgress, Chatter
    <2> QED
        BY <1>3, <2>1 DEF ReportProgress, Chatter
<1>4. ASSUME NEW outcome \in Outcome, NEW process \in BOOLEAN, NEW ok \in BOOLEAN,
             Finish(outcome, process, ok)
      PROVE  Typed
    <2>1. busy \in Job /\ Publish(FinishEvents(outcome, process, ok))
        BY <1>4 DEF Finish, FinishEvents
    <2>2. inbox' \in Box /\ Len(inbox'.events) <= Capacity
        BY <1>0, <2>1, FinishEventsType, PublishType
    <2>3. /\ row' \in [Job -> RowState] /\ had' \in [Job -> SUBSET Ended]
          /\ told' \subseteq Job
        BY <1>4, <2>1 DEF Finish
    <2>4. /\ busy' \in Job \cup {NoJob} /\ paused' \in BOOLEAN
          /\ UNCHANGED <<up, requests, enabled, waitVars>>
        BY <1>4 DEF Finish
    <2> QED
        BY <2>2, <2>3, <2>4
<1>5. ASSUME NEW j \in Job, Cancel(j) \/ Retry(j)
      PROVE  Typed
    <2>1. inbox' \in Box /\ Len(inbox'.events) <= Capacity
        BY <1>0, <1>5, SomeEvents, EventType, PublishType DEF Cancel, Retry
    <2>2. requests' \in 0..MaxRequests /\ UNCHANGED <<busy, enabled, up, waitVars, paused>>
        BY <1>5, JobWaitAssumption DEF Cancel, Retry, Request
    <2>3. row' \in [Job -> RowState] /\ told' \subseteq Job
        BY <1>5 DEF Cancel, Retry
    <2>4. had' \in [Job -> SUBSET Ended]
        BY <1>5 DEF Cancel, Retry
    <2> QED
        BY <2>1, <2>2, <2>3, <2>4
<1>6. ASSUME NEW flag \in BOOLEAN, SetPaused(flag)
      PROVE  Typed
    <2>1. inbox' \in Box /\ Len(inbox'.events) <= Capacity
        BY <1>0, <1>6, SomeEvents, EventType, PublishType DEF SetPaused
    <2> QED
        BY <1>6, <2>1, JobWaitAssumption DEF SetPaused, Request
<1>7. CASE GoDown
    <2>1. PICK n \in 0..Len(inbox.events) :
              inbox' = [inbox EXCEPT !.events = SubSeq(@, 1, n)]
        BY <1>7 DEF GoDown
    <2>2. inbox.events \in Seq(Event) /\ Len(inbox.events) \in Nat /\ n \in Nat
        BY <1>0 DEF Box
    <2>3. SubSeq(inbox.events, 1, n) \in Seq(Event) /\ Len(SubSeq(inbox.events, 1, n)) = n
        <3>1. \A i \in 1..n : inbox.events[i] \in Event
            BY <2>2
        <3>2. /\ SubSeq(inbox.events, 1, n) \in Seq(Event)
              /\ Len(SubSeq(inbox.events, 1, n)) = IF 1 <= n THEN n - 1 + 1 ELSE 0
            BY <2>2, <3>1, SubSeqProperties
        <3> QED
            BY <2>2, <3>2
    <2> DEFINE t == SubSeq(inbox.events, 1, n)
    <2>4. inbox' = [inbox EXCEPT !.events = t] /\ t \in Seq(Event) /\ Len(t) = n
        BY <2>1, <2>3
    <2> HIDE DEF t
    <2>5. inbox'.events = t /\ inbox' \in Box
        BY <1>0, <2>4 DEF Box
    <2>6. Len(inbox'.events) <= Capacity
        BY <1>0, <2>2, <2>4, <2>5, JobWaitAssumption
    <2> QED
        BY <1>7, <2>5, <2>6 DEF GoDown
<1> QED
    BY <1>2, <1>3, <1>4, <1>5, <1>6, <1>7 DEF WorkerNext, DaemonNext

LEMMA EventShape ==
    ASSUME NEW e \in Event, e.kind = "finished"
    PROVE  /\ \E j \in Job, o \in Outcome : e = Finished(j, o)
           /\ e.job \in Job /\ e.outcome \in Outcome
           /\ [job |-> e.job, outcome |-> e.outcome] \in Record
BY DEF Event, Finished, Progress, Degraded, Other, Record, Ended

\* The wait's steps up to the first read.
LEMMA AttachType ==
    ASSUME TypeOK, AttachNext
    PROVE  TypeOK'
<1>0. inbox \in Box /\ Len(inbox.events) <= Capacity
    BY DEF TypeOK, Box
<1> USE DEF TypeOK, daemonVars
<1>1. CASE Subscribe
    BY <1>1 DEF Subscribe, WaitStep, Wait
<1>2. ASSUME NEW js \in SUBSET Job, AskFor(js)
      PROVE  TypeOK'
    BY <1>2 DEF AskFor, WaitStep, Wait
<1>3. ASSUME NEW js \in SUBSET Job, Submit(js)
      PROVE  TypeOK'
    <2>1. inbox' \in Box /\ Len(inbox'.events) <= Capacity
        BY <1>0, <1>3, SomeEvents, EventType, PublishType DEF Submit
    <2>2. row' \in [Job -> RowState]
        BY <1>3 DEF Submit, RowState, Live
    <2>3. wait' \in Wait
        BY <1>3 DEF Submit, Wait
    <2> QED
        BY <1>3, <2>1, <2>2, <2>3 DEF Submit, Box
<1>4. CASE FailCall
    BY <1>4 DEF FailCall, EndAs, WaitStep, Wait
<1> QED
    BY <1>1, <1>2, <1>3, <1>4 DEF AttachNext

\* What a turn of the wait's loop takes from the head of the stream.
LEMMA HeadShape ==
    ASSUME TypeOK, inbox.events # <<>>
    PROVE  /\ Len(inbox.events) \in Nat /\ Len(inbox.events) > 0
           /\ Head(inbox.events) \in Event /\ Head(inbox.events) = inbox.events[1]
           /\ Tail(inbox.events) \in Seq(Event)
           /\ Len(Tail(inbox.events)) = Len(inbox.events) - 1
           /\ \A k \in 1..Len(Tail(inbox.events)) :
                  k + 1 \in 1..Len(inbox.events) /\ Tail(inbox.events)[k] = inbox.events[k + 1]
<1>1. inbox.events \in Seq(Event)
    BY DEF TypeOK
<1> DEFINE s == inbox.events
<1>2. s \in Seq(Event) /\ s # <<>>
    BY <1>1
<1> HIDE DEF s
<1>3. /\ Len(s) \in Nat /\ Len(s) > 0 /\ Head(s) \in Event /\ Head(s) = s[1]
      /\ Tail(s) \in Seq(Event) /\ Len(Tail(s)) = Len(s) - 1
      /\ \A k \in 1..Len(Tail(s)) : k + 1 \in 1..Len(s) /\ Tail(s)[k] = s[k + 1]
    BY <1>2, HeadTailProperties
<1> QED
    BY <1>3 DEF s

\* Only rows of the listing that ended are settled.
LEMMA EndedInType ==
    \A js \in SUBSET Job : EndedIn(reply, js) \in SUBSET js
                           /\ \A j \in EndedIn(reply, js) : reply.row[j] \in Ended
BY DEF EndedIn

LEMMA LoopType ==
    ASSUME TypeOK, LoopNext \/ TimePasses
    PROVE  TypeOK'
<1> USE DEF TypeOK, daemonVars
<1>1. CASE LoseCall
    BY <1>1 DEF LoseCall, EndAs, WaitStep, Wait
<1>2. CASE Answer
    BY <1>2 DEF Answer, WaitStep, Wait, Listing
<1>3. CASE Attach
    <2> DEFINE covered == IF wait.named # {} THEN wait.named
                          ELSE {j \in Job : reply.row[j] \in Live}
               ended == EndedIn(reply, covered)
    <2>1. covered \subseteq Job /\ ended \subseteq Job /\ \A j \in ended : reply.row[j] \in Ended
        BY DEF Wait, EndedIn
    <2> DEFINE newpc  == IF covered = ended THEN "ended" ELSE "judging"
               newend == CASE covered = {} -> "nothing" [] covered = ended -> "complete"
                           [] OTHER -> "none"
    <2>2. newpc \in {"ended", "judging"} /\ newend \in {"nothing", "complete", "none"}
        OBVIOUS
    <2>3. /\ wait' = [wait EXCEPT !.first = FALSE, !.covered = covered,
                                  !.awaited = covered \ ended, !.pc = newpc, !.end = newend]
          /\ report' = Settled(ended)
          /\ UNCHANGED <<daemonVars, told, requests, inbox, reply, had>>
        BY <1>3 DEF Attach, WaitStep
    <2> HIDE DEF covered, ended, newpc, newend
    <2>4. wait' \in Wait
        BY <2>1, <2>2, <2>3 DEF Wait
    <2>5. report' \in Seq(Record)
        BY <2>1, <2>3, SettledShape
    <2> QED
        BY <2>3, <2>4, <2>5
<1>4. CASE Judge
    <2>1. wait' \in Wait
        <3>1. \/ \E end \in {"no_worker", "paused"} :
                     wait' = [wait EXCEPT !.pc = "ended", !.end = end]
              \/ wait' = [wait EXCEPT !.pc = "waiting", !.left = Stall]
            BY <1>4 DEF Judge, EndAs
        <3>2. Stall \in 0..Stall
            BY JobWaitAssumption
        <3> QED
            BY <3>1, <3>2 DEF Wait
    <2>2. reply' \in Listing
        BY <1>4 DEF Judge, NoReply, Listing, RowState
    <2> QED
        BY <1>4, <2>1, <2>2 DEF Judge, WaitStep
<1>5. CASE Reconcile
    BY <1>5 DEF Reconcile, WaitStep, Wait
<1>6. CASE Receive
    <2> DEFINE event    == Head(inbox.events)
               finished == Relevant(event) /\ event.kind = "finished"
               awaited  == IF finished THEN wait.awaited \ {event.job} ELSE wait.awaited
    <2>1. /\ report' = IF finished
                       THEN Append(report, [job |-> event.job, outcome |-> event.outcome])
                       ELSE report
          /\ wait' = [wait EXCEPT !.awaited = awaited,
                                  !.left = IF Relevant(event) THEN Stall ELSE @,
                                  !.pc = CASE awaited = {}      -> "ended"
                                           [] event = Degraded  -> "asking"
                                           [] OTHER             -> "waiting",
                                  !.end = IF awaited = {} THEN "complete" ELSE "none"]
          /\ inbox' = [inbox EXCEPT !.events = Tail(@)]
          /\ inbox.events # <<>>
          /\ UNCHANGED <<daemonVars, told, requests, reply, had>>
        BY <1>6 DEF Receive, WaitStep
    <2>2. event \in Event /\ Len(Tail(inbox.events)) <= Capacity /\ Tail(inbox.events) \in Seq(Event)
        BY <2>1, HeadShape, JobWaitAssumption
    <2>3. inbox' \in [events : Seq(Event), lagged : BOOLEAN] /\ Len(inbox'.events) <= Capacity
        <3> DEFINE t == Tail(inbox.events)
        <3>1. inbox' = [inbox EXCEPT !.events = t] /\ t \in Seq(Event) /\ Len(t) <= Capacity
            BY <2>1, <2>2
        <3> HIDE DEF t
        <3> QED
            BY <3>1
    <2>4. report' \in Seq(Record)
        BY <2>1, <2>2, EventShape
    <2>5. awaited \in SUBSET Job
        BY DEF Wait
    <2>6. wait' \in Wait
        <3> DEFINE left == IF Relevant(event) THEN Stall ELSE wait.left
                   pc == CASE awaited = {} -> "ended" [] event = Degraded -> "asking"
                           [] OTHER -> "waiting"
                   end == IF awaited = {} THEN "complete" ELSE "none"
        <3>1. wait' = [wait EXCEPT !.awaited = awaited, !.left = left, !.pc = pc, !.end = end]
            BY <2>1
        <3>2. left \in 0..Stall
            BY JobWaitAssumption DEF Wait
        <3>3. pc \in {"ended", "asking", "waiting"} /\ end \in {"complete", "none"}
            OBVIOUS
        <3> HIDE DEF awaited, left, pc, end
        <3> QED
            BY <2>5, <3>1, <3>2, <3>3 DEF Wait
    <2> QED
        BY <2>1, <2>3, <2>4, <2>6
<1>7. CASE Closed
    BY <1>7 DEF Closed, EndAs, WaitStep, Wait
<1>8. CASE Settle
    <2>1. report' = Settled(Over) /\ UNCHANGED <<daemonVars, told, requests, inbox, had>>
        BY <1>8 DEF Settle, WaitStep
    <2>2. Over \in SUBSET Job /\ \A j \in Over : reply.row[j] \in Ended
        BY DEF Over, EndedIn, Wait
    <2>3. report' \in Seq(Record)
        BY <2>1, <2>2, SettledShape
    <2>4. wait' \in Wait
        <3> DEFINE unfinished == wait.awaited \ Over
        <3>1. \/ wait' = [wait EXCEPT !.awaited = {}, !.pc = "ended", !.end = "complete"]
              \/ wait' = [wait EXCEPT !.awaited = unfinished, !.pc = "ended", !.end = "paused"]
              \/ wait' = [wait EXCEPT !.awaited = unfinished, !.pc = "waiting", !.left = Stall]
            <4>1. CASE unfinished = {}
                BY <1>8, <4>1 DEF Settle
            <4>2. CASE unfinished # {} /\ StuckIn(reply, unfinished)
                BY <1>8, <4>2 DEF Settle
            <4>3. CASE unfinished # {} /\ ~StuckIn(reply, unfinished)
                BY <1>8, <4>3 DEF Settle
            <4> QED
                BY <4>1, <4>2, <4>3
        <3>2. unfinished \in SUBSET Job /\ Stall \in 0..Stall
            BY JobWaitAssumption DEF Wait
        <3> HIDE DEF unfinished
        <3> QED
            BY <3>1, <3>2 DEF Wait
    <2>5. reply' \in Listing
        BY <1>8 DEF Settle, NoReply, Listing, RowState
    <2> QED
        BY <2>1, <2>3, <2>4, <2>5
<1>9. CASE TimePasses
    <2>1. wait' \in Wait
        <3>1. wait' = [wait EXCEPT !.left = wait.left - 1] /\ wait.left > 0
            BY <1>9 DEF TimePasses
        <3>2. wait.left - 1 \in 0..Stall
            BY <3>1, JobWaitAssumption DEF Wait
        <3> QED
            BY <3>1, <3>2 DEF Wait
    <2> QED
        BY <1>9, <2>1 DEF TimePasses, WaitStep
<1> QED
    BY <1>1, <1>2, <1>3, <1>4, <1>5, <1>6, <1>7, <1>8, <1>9 DEF LoopNext

LEMMA StartType == Init => TypeOK
BY JobWaitAssumption, SomeEvents
   DEF Init, TypeOK, Empty, Wait, NoReply, Listing, RowState, Live, Ended, Outcome

LEMMA StepType == TypeOK /\ [Next]_vars => TypeOK'
<1> SUFFICES ASSUME TypeOK, [Next]_vars
             PROVE  TypeOK'
    OBVIOUS
<1>1. CASE UNCHANGED vars
    BY <1>1 DEF TypeOK, vars, daemonVars, waitVars
<1>2. CASE Next
    BY <1>2, DaemonType, AttachType, LoopType DEF Next
<1> QED
    BY <1>1, <1>2

\* The wait's state keeps its type in every behaviour: the receiver within its
\* capacity, the clock within the stall, every record of the report an end.
THEOREM TypeCorrect == Spec => []TypeOK
BY StartType, StepType, PTL DEF Spec

-----------------------------------------------------------------------------
(* The report adds up.                                                     *)

\* A report and the jobs still awaited split the jobs covered.
AddsUp(rep, covered, awaited) ==
    /\ \A k, l \in 1..Len(rep) : rep[k].job = rep[l].job => k = l
    /\ \A k \in 1..Len(rep) : rep[k].job \in covered \ awaited
    /\ \A j \in covered \ awaited : \E k \in 1..Len(rep) : rep[k].job = j
    /\ awaited \subseteq covered

AddUpInv ==
    /\ wait.first => report = <<>> /\ wait.covered = {} /\ wait.awaited = {}
    /\ AddsUp(report, wait.covered, wait.awaited)
    /\ wait.end = "complete" => wait.awaited = {}

LEMMA NothingReported ==
    ASSUME NEW covered
    PROVE  AddsUp(<<>>, covered, covered)
BY DEF AddsUp

\* Settling awaited rows moves them to the report.
LEMMA SettledAddsUp ==
    ASSUME report \in Seq(Record), reply \in Listing, NEW covered \in SUBSET Job,
           NEW awaited \in SUBSET Job, NEW over \in SUBSET awaited,
           AddsUp(report, covered, awaited), \A j \in over : reply.row[j] \in Ended
    PROVE  AddsUp(Settled(over), covered, awaited \ over)
<1> DEFINE new == Settled(over)
<1>1. /\ new \in Seq(Record) /\ Len(new) \in Nat /\ Len(report) \in Nat
      /\ Len(new) >= Len(report)
      /\ \A k \in 1..Len(report) : new[k] = report[k]
      /\ \A k \in 1..Len(new) : k > Len(report) => new[k].job \in over
      /\ \A k, l \in 1..Len(new) :
             (k > Len(report) /\ l > Len(report) /\ new[k].job = new[l].job) => k = l
      /\ \A j \in over : \E k \in 1..Len(new) : new[k].job = j
    BY SettledShape
<1> HIDE DEF new
<1>2. ASSUME NEW k \in 1..Len(new)
      PROVE  IF k > Len(report) THEN new[k].job \in over
             ELSE k \in 1..Len(report) /\ new[k] = report[k] /\ new[k].job \in covered \ awaited
    BY <1>1 DEF AddsUp
<1>3. ASSUME NEW k \in 1..Len(new), NEW l \in 1..Len(new), new[k].job = new[l].job
      PROVE  k = l
    <2>1. CASE k > Len(report) /\ l > Len(report)
        BY <1>1, <1>3, <2>1
    <2>2. CASE ~(k > Len(report)) /\ ~(l > Len(report))
        BY <1>2, <1>3, <2>2 DEF AddsUp
    <2>3. CASE (k > Len(report)) # (l > Len(report))
        BY <1>2, <1>3, <2>3
    <2> QED
        BY <2>1, <2>2, <2>3
<1>4. \A k \in 1..Len(new) : new[k].job \in covered \ (awaited \ over)
    BY <1>2 DEF AddsUp
<1>5. ASSUME NEW j \in covered \ (awaited \ over)
      PROVE  \E k \in 1..Len(new) : new[k].job = j
    <2>1. CASE j \in over
        BY <1>1, <2>1
    <2>2. CASE j \notin over
        <3>1. PICK k \in 1..Len(report) : report[k].job = j
            BY <2>2 DEF AddsUp
        <3> QED
            BY <1>1, <3>1
    <2> QED
        BY <2>1, <2>2
<1> QED
    BY <1>3, <1>4, <1>5 DEF AddsUp, new

\* An outcome off the stream moves its job to the report.
LEMMA AppendedAddsUp ==
    ASSUME report \in Seq(Record), NEW covered, NEW awaited, NEW r \in Record,
           r.job \in awaited, AddsUp(report, covered, awaited)
    PROVE  AddsUp(Append(report, r), covered, awaited \ {r.job})
<1> DEFINE new == Append(report, r)
<1>1. /\ Len(report) \in Nat /\ Len(new) = Len(report) + 1
      /\ \A k \in 1..Len(report) : new[k] = report[k]
      /\ new[Len(report) + 1] = r
    BY AppendProperties
<1> HIDE DEF new
<1>2. ASSUME NEW k \in 1..Len(new)
      PROVE  \/ k = Len(report) + 1 /\ new[k].job = r.job
             \/ k \in 1..Len(report) /\ new[k] = report[k] /\ new[k].job \in covered \ awaited
    BY <1>1 DEF AddsUp
<1>3. \A k, l \in 1..Len(new) : new[k].job = new[l].job => k = l
    BY <1>2 DEF AddsUp
<1>4. \A k \in 1..Len(new) : new[k].job \in covered \ (awaited \ {r.job})
    BY <1>2 DEF AddsUp
<1>5. ASSUME NEW j \in covered \ (awaited \ {r.job})
      PROVE  \E k \in 1..Len(new) : new[k].job = j
    <2>1. CASE j = r.job
        <3>1. Len(report) + 1 \in 1..Len(new)
            BY <1>1
        <3> QED
            BY <1>1, <2>1, <3>1
    <2>2. CASE j # r.job
        <3>1. PICK k \in 1..Len(report) : report[k].job = j
            BY <2>2 DEF AddsUp
        <3> QED
            BY <1>1, <3>1
    <2> QED
        BY <2>1, <2>2
<1> QED
    BY <1>3, <1>4, <1>5 DEF AddsUp, new

\* Steps that leave the report and the awaited jobs alone.
LEMMA AddUpKept ==
    ASSUME TypeOK, AddUpInv, report' = report, wait'.first = wait.first,
           wait'.covered = wait.covered, wait'.awaited = wait.awaited,
           wait'.end = "complete" => wait.end = "complete"
    PROVE  AddUpInv'
<1>1. AddsUp(report', wait'.covered, wait'.awaited)
    BY DEF AddUpInv
<1>2. wait'.first => report' = <<>> /\ wait'.covered = {} /\ wait'.awaited = {}
    BY DEF AddUpInv
<1>3. wait'.end = "complete" => wait'.awaited = {}
    BY DEF AddUpInv
<1> QED
    BY <1>1, <1>2, <1>3 DEF AddUpInv, AddsUp

LEMMA AddUpStep ==
    ASSUME TypeOK, AddUpInv, [Next]_vars
    PROVE  AddUpInv'
<1> DEFINE Goal == AddUpInv'
           Same == UNCHANGED <<report, wait>>
<1>t. wait \in Wait /\ report \in Seq(Record) /\ reply \in Listing
    BY DEF TypeOK
<1>0. ASSUME Same
      PROVE  AddUpInv'
    BY <1>0, AddUpKept
<1>1. CASE WorkerNext \/ DaemonNext
    <2>1. Same
        BY <1>1 DEF WorkerNext, DaemonNext, Pull, Finish, ReportProgress, Cancel, Retry,
                    SetPaused, Request, Chatter, GoDown, waitVars
    <2> QED
        BY <2>1, <1>0
<1>2. CASE AttachNext \/ LoseCall \/ Answer \/ Judge \/ Reconcile \/ Closed \/ TimePasses
    <2>1. report' = report
        BY <1>2 DEF AttachNext, Subscribe, AskFor, Submit, FailCall, LoseCall, Answer, Judge,
                    Reconcile, Closed, TimePasses
    <2>2. \/ \E pc \in {"subscribed", "asking", "replied"} : wait' = [wait EXCEPT !.pc = pc]
          \/ \E js \in SUBSET Job : wait' = [wait EXCEPT !.pc = "asking", !.named = js]
          \/ wait' = [wait EXCEPT !.pc = "waiting", !.left = Stall]
          \/ wait' = [wait EXCEPT !.left = wait.left - 1]
          \/ \E end \in {"no_worker", "paused", "disconnected", "error"} :
                 wait' = [wait EXCEPT !.pc = "ended", !.end = end]
        BY <1>2 DEF AttachNext, Subscribe, AskFor, Submit, FailCall, LoseCall, Answer, Judge,
                    Reconcile, Closed, TimePasses, EndAs
    <2>3. /\ wait'.first = wait.first /\ wait'.covered = wait.covered
          /\ wait'.awaited = wait.awaited
          /\ wait'.end = "complete" => wait.end = "complete"
        BY <1>t, <2>2 DEF Wait
    <2> QED
        BY <2>1, <2>3, AddUpKept
<1>3. CASE Attach
    <2> DEFINE covered == IF wait.named # {} THEN wait.named
                          ELSE {j \in Job : reply.row[j] \in Live}
               ended == EndedIn(reply, covered)
               newpc  == IF covered = ended THEN "ended" ELSE "judging"
               newend == CASE covered = {} -> "nothing" [] covered = ended -> "complete"
                           [] OTHER -> "none"
    <2>1. covered \in SUBSET Job /\ ended \in SUBSET covered /\ \A j \in ended : reply.row[j] \in Ended
        BY <1>t DEF Wait, EndedIn
    <2>2. /\ wait' = [wait EXCEPT !.first = FALSE, !.covered = covered,
                                  !.awaited = covered \ ended, !.pc = newpc, !.end = newend]
          /\ report' = Settled(ended) /\ wait.first
        BY <1>3 DEF Attach
    <2>3. newend = "complete" => covered = ended
        OBVIOUS
    <2>4. report = <<>>
        BY <2>2 DEF AddUpInv
    <2>5. AddsUp(report, covered, covered)
        BY <2>4, NothingReported
    <2> HIDE DEF covered, ended, newpc, newend
    <2>6. AddsUp(Settled(ended), covered, covered \ ended)
        BY <1>t, <2>1, <2>5, SettledAddsUp
    <2>7. /\ wait'.first = FALSE /\ wait'.covered = covered /\ wait'.awaited = covered \ ended
          /\ wait'.end = newend
        BY <1>t, <2>2 DEF Wait
    <2> QED
        BY <2>2, <2>3, <2>6, <2>7 DEF AddUpInv, AddsUp
<1>4. CASE Receive
    <2> DEFINE event    == Head(inbox.events)
               finished == Relevant(event) /\ event.kind = "finished"
               awaited  == IF finished THEN wait.awaited \ {event.job} ELSE wait.awaited
               record   == [job |-> event.job, outcome |-> event.outcome]
    <2>1. /\ report' = IF finished THEN Append(report, record) ELSE report
          /\ wait' = [wait EXCEPT !.awaited = awaited,
                                  !.left = IF Relevant(event) THEN Stall ELSE @,
                                  !.pc = CASE awaited = {}      -> "ended"
                                           [] event = Degraded  -> "asking"
                                           [] OTHER             -> "waiting",
                                  !.end = IF awaited = {} THEN "complete" ELSE "none"]
          /\ inbox.events # <<>>
        BY <1>4 DEF Receive
    <2>2. /\ wait'.first = wait.first /\ wait'.covered = wait.covered
          /\ wait'.awaited = awaited /\ (wait'.end = "complete" => awaited = {})
        BY <1>t, <2>1 DEF Wait
    <2>3. event \in Event
        BY <2>1, HeadShape
    <2>4. CASE finished
        <3>1. event.kind = "finished" /\ event.job \in wait.awaited
            BY <2>4 DEF Relevant
        <3>2. record \in Record /\ record.job \in wait.awaited
            BY <2>3, <3>1, EventShape
        <3>3. awaited = wait.awaited \ {record.job} /\ report' = Append(report, record)
            BY <2>1, <2>4
        <3>4. ~wait.first
            BY <3>1 DEF AddUpInv
        <3> HIDE DEF record, awaited
        <3>5. AddsUp(report', wait.covered, awaited)
            BY <1>t, <3>2, <3>3, AppendedAddsUp DEF AddUpInv
        <3> QED
            BY <2>2, <3>4, <3>5 DEF AddUpInv, AddsUp
    <2>5. CASE ~finished
        <3>1. awaited = wait.awaited /\ report' = report
            BY <2>1, <2>5
        <3> HIDE DEF awaited
        <3> QED
            BY <2>2, <3>1 DEF AddUpInv, AddsUp
    <2> QED
        BY <2>4, <2>5
<1>5. CASE Settle
    <2> DEFINE unfinished == wait.awaited \ Over
    <2>1. report' = Settled(Over) /\ ~wait.first
        BY <1>5 DEF Settle
    <2>2. \/ unfinished = {}
             /\ wait' = [wait EXCEPT !.awaited = {}, !.pc = "ended", !.end = "complete"]
          \/ wait' = [wait EXCEPT !.awaited = unfinished, !.pc = "ended", !.end = "paused"]
          \/ wait' = [wait EXCEPT !.awaited = unfinished, !.pc = "waiting", !.left = Stall]
        <3>1. CASE unfinished = {}
            BY <1>5, <3>1 DEF Settle
        <3>2. CASE unfinished # {} /\ StuckIn(reply, unfinished)
            BY <1>5, <3>2 DEF Settle
        <3>3. CASE unfinished # {} /\ ~StuckIn(reply, unfinished)
            BY <1>5, <3>3 DEF Settle
        <3> QED
            BY <3>1, <3>2, <3>3
    <2>3. /\ wait.awaited \in SUBSET Job /\ wait.covered \in SUBSET Job
          /\ Over \in SUBSET wait.awaited /\ \A j \in Over : reply.row[j] \in Ended
        BY <1>t DEF Wait, Over, EndedIn
    <2>4. AddsUp(Settled(Over), wait.covered, unfinished)
        BY <1>t, <2>3, SettledAddsUp DEF AddUpInv
    <2> HIDE DEF unfinished
    <2>5. /\ wait'.first = FALSE /\ wait'.covered = wait.covered /\ wait'.awaited = unfinished
          /\ wait'.end = "complete" => unfinished = {} \/ wait.end = "complete"
        BY <1>t, <2>1, <2>2 DEF Wait
    <2>6. wait.end = "complete" => unfinished = {}
        BY DEF AddUpInv, unfinished
    <2> QED
        BY <2>1, <2>4, <2>5, <2>6 DEF AddUpInv, AddsUp
<1>6. CASE UNCHANGED vars
    <2>1. Same
        BY <1>6 DEF vars, waitVars
    <2> QED
        BY <2>1, <1>0
<1> QED
    BY <1>1, <1>2, <1>3, <1>4, <1>5, <1>6 DEF Next, LoopNext

LEMMA AddUpStart == Init => AddUpInv
BY NothingReported DEF Init, AddUpInv

LEMMA AddUpCounts ==
    ASSUME TypeOK, AddUpInv
    PROVE  ReportsAddUp
<1> DEFINE n == Len(report)
           reported == {report[k].job : k \in DOMAIN report}
           f == [k \in 1..n |-> report[k].job]
<1>1. n \in Nat /\ DOMAIN report = 1..n
    BY DEF TypeOK
<1>2. AddsUp(report, wait.covered, wait.awaited)
    BY DEF AddUpInv
<1>3. f \in Surjection(1..n, reported)
    BY <1>1 DEF Surjection
<1>4. f \in Injection(1..n, reported)
    <2>1. f \in [1..n -> reported]
        BY <1>3 DEF Surjection
    <2>2. \A k, l \in 1..n : f[k] = f[l] => k = l
        BY <1>2 DEF AddsUp
    <2> HIDE DEF f, reported
    <2> QED
        BY <2>1, <2>2 DEF Injection, IsInjective
<1>5. IsFiniteSet(1..n) /\ Cardinality(1..n) = n
    <2> HIDE DEF n
    <2> QED
        BY <1>1, FS_Interval
<1>6. reported \cap wait.awaited = {} /\ reported \cup wait.awaited = wait.covered
    BY <1>1, <1>2 DEF AddsUp
<1> HIDE DEF reported, f
<1>7. IsFiniteSet(reported) /\ Cardinality(reported) = n
    <2>1. f \in Bijection(1..n, reported)
        BY <1>3, <1>4 DEF Bijection
    <2> QED
        BY <1>5, <2>1, FS_Bijection DEF ExistsBijection
<1> QED
    BY <1>6, <1>7 DEF ReportsAddUp, AddUpInv, reported

\* The report and the jobs still awaited split the jobs the wait covers, over
\* listings, outcomes off the stream and reads repeated at any moment: no job
\* is reported twice or left out, and a complete report leaves none awaited
\* (attach, ProgressView.apply, settle and finish).
THEOREM ReportsSplitTheJobs == Spec => []ReportsAddUp
<1>1. TypeOK /\ AddUpInv /\ [Next]_vars => AddUpInv'
    BY AddUpStep
<1>2. TypeOK /\ AddUpInv => ReportsAddUp
    BY AddUpCounts
<1> QED
    BY <1>1, <1>2, AddUpStart, TypeCorrect, PTL DEF Spec

-----------------------------------------------------------------------------
(* What the report says is true.                                           *)

\* The outcomes a report, a stream or a listing holds are in the history h.
ReportTrue(rep, h) == \A k \in 1..Len(rep) : rep[k].outcome \in h[rep[k].job]
StreamTrue(s, h) ==
    \A k \in 1..Len(s) : s[k].kind = "finished" => s[k].outcome \in h[s[k].job]
RowsTrue(rows, h) == \A j \in Job : rows[j] \in Ended => rows[j] \in h[j]

TrueInv ==
    /\ wait.pc = "off" => report = <<>> /\ inbox = Empty /\ reply = NoReply
    /\ ReportTrue(report, had)
    /\ StreamTrue(inbox.events, had)
    /\ RowsTrue(reply.row, had)
    /\ Subscribed => RowsTrue(row, had)

\* A history that grew.
Grew(h1, h2) == \A j \in Job : h1[j] \subseteq h2[j]

LEMMA StillTrue ==
    ASSUME NEW h1, NEW h2, Grew(h1, h2)
    PROVE  /\ \A rep \in Seq(Record) : ReportTrue(rep, h1) => ReportTrue(rep, h2)
           /\ \A s \in Seq(Event) : StreamTrue(s, h1) => StreamTrue(s, h2)
           /\ \A rows : RowsTrue(rows, h1) => RowsTrue(rows, h2)
<1>1. ASSUME NEW rep \in Seq(Record), ReportTrue(rep, h1), NEW k \in 1..Len(rep)
      PROVE  rep[k].outcome \in h2[rep[k].job]
    <2>1. rep[k] \in Record
        OBVIOUS
    <2>2. rep[k].job \in Job
        BY <2>1 DEF Record
    <2> QED
        BY <1>1, <2>2 DEF ReportTrue, Grew
<1>2. ASSUME NEW s \in Seq(Event), StreamTrue(s, h1), NEW k \in 1..Len(s),
             s[k].kind = "finished"
      PROVE  s[k].outcome \in h2[s[k].job]
    <2>1. s[k] \in Event
        OBVIOUS
    <2>2. s[k].job \in Job
        BY <1>2, <2>1, EventShape
    <2> QED
        BY <1>2, <2>2 DEF StreamTrue, Grew
<1>3. \A rows : RowsTrue(rows, h1) => RowsTrue(rows, h2)
    BY DEF RowsTrue, Grew
<1> QED
    BY <1>1, <1>2, <1>3 DEF ReportTrue, StreamTrue

\* What is published keeps the stream true if it is true itself.
LEMMA PublishTrue ==
    ASSUME TypeOK, NEW h, StreamTrue(inbox.events, h),
           NEW events \in Seq(Event), StreamTrue(events, h), Publish(events)
    PROVE  StreamTrue(inbox'.events, h)
<1>1. CASE Subscribed
    <2> DEFINE new == Pushed(inbox, events)
    <2>1. \A k \in 1..Len(new.events) :
              \/ \E l \in 1..Len(inbox.events) : new.events[k] = inbox.events[l]
              \/ \E l \in 1..Len(events) : new.events[k] = events[l]
        BY PushedShape DEF TypeOK
    <2>2. inbox' = new
        BY <1>1 DEF Publish
    <2> HIDE DEF new
    <2> QED
        BY <2>1, <2>2 DEF StreamTrue
<1>2. CASE ~Subscribed
    BY <1>2 DEF Publish
<1> QED
    BY <1>1, <1>2

LEMMA NoOutcome ==
    ASSUME NEW h
    PROVE  /\ StreamTrue(<<Other>>, h)
           /\ \A j \in Job : StreamTrue(<<Progress(j)>>, h)
           /\ StreamTrue(<<>>, h)
BY DEF StreamTrue, Other, Progress

\* A job's end puts its outcome on the stream, if anything.
LEMMA FinishEventsAre ==
    ASSUME busy \in Job, NEW outcome \in Outcome, NEW process \in BOOLEAN, NEW ok \in BOOLEAN
    PROVE  LET fe == FinishEvents(outcome, process, ok)
           IN  /\ \A k \in 1..Len(fe) : fe[k] = Degraded \/ fe[k] = Finished(busy, outcome)
               /\ ok => \E k \in 1..Len(fe) : fe[k] = Finished(busy, outcome)
BY DEF FinishEvents

\* Steps of others that leave the wait alone.
LEMMA TrueKept ==
    ASSUME TypeOK, TrueInv, UNCHANGED waitVars, Grew(had, had'),
           StreamTrue(inbox'.events, had'), wait.pc = "off" => inbox' = inbox,
           Subscribed => RowsTrue(row', had')
    PROVE  TrueInv'
<1>1. wait' = wait /\ report' = report /\ reply' = reply /\ report \in Seq(Record)
    BY DEF waitVars, TypeOK
<1>2. ReportTrue(report, had') /\ RowsTrue(reply.row, had')
    BY <1>1, StillTrue DEF TrueInv
<1>3. wait'.pc = "off" => report' = <<>> /\ inbox' = Empty /\ reply' = NoReply
    BY <1>1 DEF TrueInv
<1>4. wait'.pc \notin {"off", "ended"} => RowsTrue(row', had')
    BY <1>1 DEF Subscribed
<1> QED
    BY <1>1, <1>2, <1>3, <1>4
       DEF TrueInv, ReportTrue, StreamTrue, RowsTrue, Subscribed, Empty, NoReply

\* A receiver that is not there receives nothing.
LEMMA NoReceiver ==
    ASSUME NEW events, Publish(events), wait.pc = "off"
    PROVE  inbox' = inbox
BY DEF Publish, Subscribed

LEMMA DaemonTrue ==
    ASSUME TypeOK, TrueInv, WorkerNext \/ DaemonNext
    PROVE  TrueInv'
<1>t. /\ row \in [Job -> RowState] /\ had \in [Job -> SUBSET Ended]
      /\ inbox.events \in Seq(Event) /\ busy \in Job \cup {NoJob}
    BY DEF TypeOK
<1>0. Grew(had, had)
    BY DEF Grew
<1>s. StreamTrue(inbox.events, had) /\ (Subscribed => RowsTrue(row, had))
    BY DEF TrueInv
<1>1. ASSUME NEW events \in Seq(Event), StreamTrue(events, had), Publish(events),
             had' = had, UNCHANGED waitVars,
             \A j \in Job : row'[j] \in Ended => row'[j] = row[j]
      PROVE  TrueInv'
    <2>1. StreamTrue(inbox'.events, had)
        BY <1>1, <1>s, PublishTrue
    <2>2. Subscribed => RowsTrue(row', had')
        BY <1>1, <1>s DEF RowsTrue
    <2>3. wait.pc = "off" => inbox' = inbox
        BY <1>1, NoReceiver
    <2>4. Grew(had, had') /\ StreamTrue(inbox'.events, had')
        BY <1>0, <1>1, <2>1
    <2> QED
        BY <1>1, <2>2, <2>3, <2>4, TrueKept
<1>2. CASE \/ \E j \in Job : Pull(j) \/ Retry(j)
           \/ \E flag \in BOOLEAN : SetPaused(flag)
           \/ Chatter
    <2>1. /\ Publish(<<Other>>) /\ had' = had /\ UNCHANGED waitVars
          /\ \A j \in Job : row'[j] \in Ended => row'[j] = row[j]
        BY <1>2, <1>t DEF Pull, Retry, SetPaused, Chatter, Begins, Request, Ended, Outcome,
                          daemonVars, waitVars
    <2>2. <<Other>> \in Seq(Event) /\ StreamTrue(<<Other>>, had)
        BY SomeEvents, EventType, NoOutcome
    <2> QED
        BY <1>1, <2>1, <2>2
<1>3. CASE ReportProgress
    <2>1. /\ Publish(<<Progress(busy)>>) /\ had' = had /\ UNCHANGED waitVars /\ row' = row
          /\ busy \in Job
        BY <1>3, <1>t DEF ReportProgress, daemonVars
    <2>2. <<Progress(busy)>> \in Seq(Event) /\ StreamTrue(<<Progress(busy)>>, had)
        BY <2>1, SomeEvents, EventType, NoOutcome
    <2>3. \A j \in Job : row'[j] \in Ended => row'[j] = row[j]
        BY <2>1
    <2> QED
        BY <1>1, <2>1, <2>2, <2>3
\* A row ends: its end enters the history with it.
<1>4. ASSUME NEW j \in Job, NEW state \in Ended, NEW announced, Ends(j, state, announced),
             UNCHANGED waitVars, Serving, NEW events \in Seq(Event), Publish(events),
             \A k \in 1..Len(events) :
                 events[k].kind = "finished" => events[k] = Finished(j, state)
      PROVE  TrueInv'
    <2>1. CASE Subscribed
        <3>1. had' = [had EXCEPT ![j] = @ \cup {state}] /\ row' = [row EXCEPT ![j] = state]
            BY <1>4, <2>1 DEF Ends
        <3>2. Grew(had, had') /\ state \in had'[j]
            BY <1>t, <3>1 DEF Grew
        <3>3. RowsTrue(row', had')
            BY <1>t, <1>s, <2>1, <3>1, <3>2 DEF RowsTrue, Grew
        <3>4. StreamTrue(events, had')
            BY <1>4, <3>2 DEF StreamTrue, Finished
        <3>5. StreamTrue(inbox.events, had')
            BY <1>t, <1>s, <3>2, StillTrue
        <3>6. StreamTrue(inbox'.events, had')
            BY <1>4, <3>4, <3>5, PublishTrue
        <3>7. wait.pc = "off" => inbox' = inbox
            BY <2>1 DEF Subscribed
        <3> QED
            BY <1>4, <3>2, <3>3, <3>6, <3>7, TrueKept
    <2>2. CASE ~Subscribed
        <3>1. had' = had /\ inbox' = inbox
            BY <1>4, <2>2 DEF Ends, Publish
        <3>2. Grew(had, had') /\ StreamTrue(inbox'.events, had')
            BY <1>0, <1>s, <3>1
        <3> QED
            BY <1>4, <2>2, <3>1, <3>2, TrueKept
    <2> QED
        BY <2>1, <2>2
<1>5. ASSUME NEW j \in Job, Cancel(j)
      PROVE  TrueInv'
    <2>1. /\ Ends(j, "cancelled", FALSE) /\ UNCHANGED waitVars /\ Serving /\ Publish(<<Other>>)
          /\ "cancelled" \in Ended
        BY <1>5 DEF Cancel, Request, Ended
    <2>2. <<Other>> \in Seq(Event)
          /\ \A k \in 1..Len(<<Other>>) : <<Other>>[k].kind # "finished"
        BY SomeEvents, EventType DEF Other
    <2> QED
        BY <1>4, <2>1, <2>2
<1>6. ASSUME NEW outcome \in Outcome, NEW process \in BOOLEAN, NEW ok \in BOOLEAN,
             Finish(outcome, process, ok)
      PROVE  TrueInv'
    <2>1. /\ busy \in Job /\ Publish(FinishEvents(outcome, process, ok))
          /\ Ends(busy, outcome, ok) /\ UNCHANGED waitVars /\ Serving /\ outcome \in Ended
        BY <1>6, <1>t DEF Finish, FinishEvents, Ended
    <2>2. FinishEvents(outcome, process, ok) \in Seq(Event)
        BY <2>1, FinishEventsType
    <2>3. \A k \in 1..Len(FinishEvents(outcome, process, ok)) :
              FinishEvents(outcome, process, ok)[k].kind = "finished" =>
                  FinishEvents(outcome, process, ok)[k] = Finished(busy, outcome)
        BY <2>1, FinishEventsAre DEF Degraded
    <2> QED
        BY <1>4, <2>1, <2>2, <2>3
<1>7. CASE GoDown
    <2>1. PICK n \in 0..Len(inbox.events) :
              inbox' = [inbox EXCEPT !.events = SubSeq(@, 1, n)]
        BY <1>7 DEF GoDown
    <2>2. n \in Nat /\ Len(inbox.events) \in Nat /\ n <= Len(inbox.events)
        BY <1>t
    <2>3. /\ Len(SubSeq(inbox.events, 1, n)) = n
          /\ \A k \in 1..n : SubSeq(inbox.events, 1, n)[k] = inbox.events[k]
        <3>1. \A i \in 1..n : inbox.events[i] \in Event
            BY <1>t, <2>2
        <3>2. /\ Len(SubSeq(inbox.events, 1, n)) = IF 1 <= n THEN n - 1 + 1 ELSE 0
              /\ \A k \in 1..(n - 1 + 1) :
                     SubSeq(inbox.events, 1, n)[k] = inbox.events[1 + k - 1]
            BY <2>2, <3>1, SubSeqProperties
        <3> QED
            BY <2>2, <3>2
    <2> DEFINE t == SubSeq(inbox.events, 1, n)
    <2>4. inbox'.events = t
        BY <2>1 DEF TypeOK
    <2>5. StreamTrue(t, had)
        BY <1>s, <2>2, <2>3 DEF StreamTrue
    <2>6. had' = had /\ UNCHANGED waitVars /\ row' = [j \in Job |-> "absent"]
        BY <1>7 DEF GoDown
    <2>7. wait.pc = "off" => inbox' = inbox
        <3>1. SUFFICES ASSUME wait.pc = "off"
                       PROVE  inbox' = inbox
            OBVIOUS
        <3>2. inbox = Empty
            BY <3>1 DEF TrueInv
        <3>3. n = 0 /\ Len(inbox.events) = 0
            BY <2>2, <3>2 DEF Empty
        <3>4. SubSeq(inbox.events, 1, n) = <<>>
            BY <2>3, <3>2, <3>3, SubSeqProperties, EmptySeq DEF Empty
        <3> QED
            BY <2>1, <3>2, <3>4 DEF Empty
    <2>8. RowsTrue(row', had')
        BY <2>6 DEF RowsTrue, Ended, Outcome
    <2> HIDE DEF t
    <2>9. Grew(had, had') /\ StreamTrue(inbox'.events, had')
        BY <1>0, <2>4, <2>5, <2>6
    <2> QED
        BY <2>6, <2>7, <2>8, <2>9, TrueKept
<1> QED
    BY <1>2, <1>3, <1>5, <1>6, <1>7 DEF WorkerNext, DaemonNext

LEMMA SettledTrue ==
    ASSUME report \in Seq(Record), reply \in Listing, NEW over \in SUBSET Job, NEW h,
           \A j \in over : reply.row[j] \in Ended,
           ReportTrue(report, h), RowsTrue(reply.row, h)
    PROVE  ReportTrue(Settled(over), h)
<1> DEFINE new == Settled(over)
<1>1. /\ new \in Seq(Record) /\ Len(report) \in Nat
      /\ \A k \in 1..Len(report) : new[k] = report[k]
      /\ \A k \in 1..Len(new) : k > Len(report) =>
             new[k].job \in over /\ new[k].outcome = reply.row[new[k].job]
    BY SettledShape
<1> HIDE DEF new
<1>2. ASSUME NEW k \in 1..Len(new)
      PROVE  new[k].outcome \in h[new[k].job]
    <2>1. CASE k > Len(report)
        BY <1>1, <2>1 DEF RowsTrue
    <2>2. CASE ~(k > Len(report))
        <3>1. k \in 1..Len(report)
            BY <1>1, <2>2
        <3> QED
            BY <1>1, <3>1 DEF ReportTrue
    <2> QED
        BY <2>1, <2>2
<1> QED
    BY <1>2 DEF ReportTrue, new

\* The wait's steps after the subscription.
LEMMA LaterTrue ==
    ASSUME TypeOK, TrueInv, had' = had, wait'.pc # "off", wait.pc # "off",
           wait'.pc # "ended" => Subscribed,
           \A j \in Job : row'[j] \in Ended => row'[j] = row[j],
           ReportTrue(report', had), StreamTrue(inbox'.events, had), RowsTrue(reply'.row, had)
    PROVE  TrueInv'
<1>1. wait'.pc \notin {"off", "ended"} => RowsTrue(row', had)
    BY DEF TrueInv, RowsTrue, Subscribed
<1> QED
    BY <1>1 DEF TrueInv, ReportTrue, StreamTrue, RowsTrue, Subscribed

LEMMA WaitTrue ==
    ASSUME TypeOK, TrueInv, AttachNext \/ LoopNext \/ TimePasses
    PROVE  TrueInv'
<1>t. /\ wait \in Wait /\ report \in Seq(Record) /\ reply \in Listing
      /\ row \in [Job -> RowState] /\ inbox.events \in Seq(Event)
    BY DEF TypeOK
<1>s. /\ ReportTrue(report, had) /\ StreamTrue(inbox.events, had) /\ RowsTrue(reply.row, had)
      /\ Subscribed => RowsTrue(row, had)
    BY DEF TrueInv
<1>n. RowsTrue(NoReply.row, had)
    BY DEF RowsTrue, NoReply, Ended, Outcome
<1>1. CASE Subscribe
    <2>1. report = <<>> /\ inbox = Empty /\ reply = NoReply
        BY <1>1 DEF Subscribe, TrueInv
    <2>2. /\ report' = report /\ inbox' = inbox /\ reply' = reply /\ row' = row
          /\ had' = [j \in Job |-> {row[j]} \cap Ended] /\ wait'.pc = "subscribed"
        BY <1>1, <1>t DEF Subscribe, WaitStep, daemonVars, Wait
    <2>3. ReportTrue(report', had') /\ StreamTrue(inbox'.events, had')
        BY <2>1, <2>2 DEF Empty, ReportTrue, StreamTrue
    <2>4. RowsTrue(reply'.row, had')
        BY <2>1, <2>2 DEF RowsTrue, NoReply, Ended, Outcome
    <2>5. RowsTrue(row', had')
        BY <2>2 DEF RowsTrue
    <2> QED
        BY <2>2, <2>3, <2>4, <2>5 DEF TrueInv, ReportTrue, StreamTrue, RowsTrue
\* Steps that only move the wait on, or read the receiver's flag.
<1>2. CASE \/ \E js \in SUBSET Job : AskFor(js)
           \/ FailCall \/ LoseCall \/ Reconcile \/ Closed \/ TimePasses
    <2>1. /\ report' = report /\ reply' = reply /\ had' = had /\ row' = row
          /\ inbox'.events = inbox.events
        BY <1>2 DEF AskFor, FailCall, LoseCall, Reconcile, Closed, TimePasses, WaitStep,
                    daemonVars, TypeOK
    <2>2. wait'.pc # "off" /\ wait.pc # "off" /\ Subscribed
        BY <1>2, <1>t DEF AskFor, FailCall, LoseCall, Reconcile, Closed, TimePasses, EndAs,
                          Subscribed, Wait
    <2>3. /\ ReportTrue(report', had) /\ StreamTrue(inbox'.events, had)
          /\ RowsTrue(reply'.row, had)
        BY <1>s, <2>1
    <2>4. \A j \in Job : row'[j] \in Ended => row'[j] = row[j]
        BY <2>1
    <2> QED
        BY <2>1, <2>2, <2>3, <2>4, LaterTrue
<1>3. ASSUME NEW js \in SUBSET Job, Submit(js)
      PROVE  TrueInv'
    <2>1. /\ report' = report /\ reply' = reply /\ had' = had /\ Publish(<<Other>>)
          /\ row' = [j \in Job |-> IF j \in js THEN "pending" ELSE row[j]]
          /\ wait'.pc = "asking" /\ wait.pc = "subscribed"
        BY <1>3, <1>t DEF Submit, Wait
    <2>2. StreamTrue(inbox'.events, had)
        BY <1>s, <2>1, SomeEvents, EventType, NoOutcome, PublishTrue
    <2>3. \A j \in Job : row'[j] \in Ended => row'[j] = row[j]
        BY <2>1 DEF Ended, Outcome
    <2>4. ReportTrue(report', had) /\ RowsTrue(reply'.row, had)
        BY <1>s, <2>1
    <2>5. Subscribed
        BY <2>1 DEF Subscribed
    <2> QED
        BY <2>1, <2>2, <2>3, <2>4, <2>5, LaterTrue
<1>4. CASE Answer
    <2>1. /\ report' = report /\ inbox' = inbox /\ had' = had /\ row' = row
          /\ reply'.row = row /\ wait.pc = "asking" /\ wait'.pc = "replied"
        BY <1>4, <1>t DEF Answer, WaitStep, daemonVars, Wait
    <2>2. Subscribed
        BY <2>1 DEF Subscribed
    <2>3. /\ ReportTrue(report', had) /\ StreamTrue(inbox'.events, had)
          /\ RowsTrue(reply'.row, had)
        BY <1>s, <2>1, <2>2
    <2>4. \A j \in Job : row'[j] \in Ended => row'[j] = row[j]
        BY <2>1
    <2> QED
        BY <2>1, <2>2, <2>3, <2>4, LaterTrue
<1>5. CASE Attach
    <2> DEFINE covered == IF wait.named # {} THEN wait.named
                          ELSE {j \in Job : reply.row[j] \in Live}
               ended == EndedIn(reply, covered)
    <2>1. ended \in SUBSET Job /\ \A j \in ended : reply.row[j] \in Ended
        BY <1>t DEF Wait, EndedIn
    <2>2. /\ report' = Settled(ended) /\ inbox' = inbox /\ reply' = reply /\ had' = had
          /\ row' = row /\ wait.pc = "replied" /\ wait'.pc \in {"ended", "judging"}
        BY <1>5, <1>t DEF Attach, WaitStep, daemonVars, Wait
    <2> HIDE DEF ended
    <2>3. ReportTrue(report', had)
        BY <1>t, <1>s, <2>1, <2>2, SettledTrue
    <2>4. StreamTrue(inbox'.events, had) /\ RowsTrue(reply'.row, had)
        BY <1>s, <2>2
    <2>5. Subscribed /\ \A j \in Job : row'[j] \in Ended => row'[j] = row[j]
        BY <2>2 DEF Subscribed
    <2> QED
        BY <2>2, <2>3, <2>4, <2>5, LaterTrue
<1>6. CASE Judge
    <2>1. /\ report' = report /\ inbox' = inbox /\ had' = had /\ row' = row
          /\ reply' = NoReply /\ wait.pc = "judging" /\ wait'.pc \in {"ended", "waiting"}
        BY <1>6, <1>t DEF Judge, EndAs, WaitStep, daemonVars, Wait
    <2>2. /\ ReportTrue(report', had) /\ StreamTrue(inbox'.events, had)
          /\ RowsTrue(reply'.row, had)
        BY <1>s, <1>n, <2>1
    <2>3. Subscribed /\ \A j \in Job : row'[j] \in Ended => row'[j] = row[j]
        BY <2>1 DEF Subscribed
    <2> QED
        BY <2>1, <2>2, <2>3, LaterTrue
<1>7. CASE Receive
    <2> DEFINE event    == Head(inbox.events)
               finished == Relevant(event) /\ event.kind = "finished"
               record   == [job |-> event.job, outcome |-> event.outcome]
    <2>1. /\ report' = IF finished THEN Append(report, record) ELSE report
          /\ inbox' = [inbox EXCEPT !.events = Tail(@)]
          /\ inbox.events # <<>> /\ reply' = reply /\ had' = had /\ row' = row
          /\ wait.pc = "waiting" /\ wait'.pc \in {"ended", "asking", "waiting"}
        BY <1>7, <1>t DEF Receive, WaitStep, daemonVars, Wait
    <2>2. /\ event \in Event /\ event = inbox.events[1] /\ 1 \in 1..Len(inbox.events)
          /\ inbox'.events = Tail(inbox.events)
          /\ \A k \in 1..Len(Tail(inbox.events)) :
                 k + 1 \in 1..Len(inbox.events) /\ Tail(inbox.events)[k] = inbox.events[k + 1]
        BY <2>1, HeadShape DEF TypeOK
    <2>3. StreamTrue(inbox'.events, had)
        <3>1. \A k \in 1..Len(Tail(inbox.events)) :
                  Tail(inbox.events)[k].kind = "finished" =>
                      Tail(inbox.events)[k].outcome \in had[Tail(inbox.events)[k].job]
            BY <1>s, <2>2 DEF StreamTrue
        <3> QED
            BY <2>2, <3>1 DEF StreamTrue
    <2>4. ReportTrue(report', had)
        <3>1. CASE finished
            <4>1. record \in Record
                BY <2>2, <3>1, EventShape
            <4>2. record.outcome \in had[record.job]
                BY <1>s, <2>2, <3>1 DEF StreamTrue
            <4>3. report' = Append(report, record)
                BY <2>1, <3>1
            <4> HIDE DEF record
            <4>4. /\ Len(report) \in Nat /\ Len(Append(report, record)) = Len(report) + 1
                  /\ \A k \in 1..Len(report) : Append(report, record)[k] = report[k]
                  /\ Append(report, record)[Len(report) + 1] = record
                BY <1>t, <4>1, AppendProperties
            <4>5. \A k \in 1..Len(Append(report, record)) :
                      k \in 1..Len(report) \/ k = Len(report) + 1
                BY <4>4
            <4>6. ReportTrue(Append(report, record), had)
                BY <1>s, <4>2, <4>4, <4>5 DEF ReportTrue
            <4> QED
                BY <4>3, <4>6
        <3>2. CASE ~finished
            BY <1>s, <2>1, <3>2
        <3> QED
            BY <3>1, <3>2
    <2>5. Subscribed /\ RowsTrue(reply'.row, had)
          /\ \A j \in Job : row'[j] \in Ended => row'[j] = row[j]
        BY <1>s, <2>1 DEF Subscribed
    <2> QED
        BY <2>1, <2>3, <2>4, <2>5, LaterTrue
<1>8. CASE Settle
    <2>1. /\ report' = Settled(Over) /\ reply' = NoReply /\ inbox' = inbox /\ had' = had
          /\ row' = row /\ wait.pc = "replied" /\ wait'.pc \in {"ended", "waiting"}
        BY <1>8, <1>t DEF Settle, WaitStep, daemonVars, Wait
    <2>2. Over \in SUBSET Job /\ \A j \in Over : reply.row[j] \in Ended
        BY <1>t DEF Over, EndedIn, Wait
    <2>3. ReportTrue(report', had)
        BY <1>t, <1>s, <2>1, <2>2, SettledTrue
    <2>4. StreamTrue(inbox'.events, had) /\ RowsTrue(reply'.row, had)
        BY <1>s, <1>n, <2>1
    <2>5. Subscribed /\ \A j \in Job : row'[j] \in Ended => row'[j] = row[j]
        BY <2>1 DEF Subscribed
    <2> QED
        BY <2>1, <2>3, <2>4, <2>5, LaterTrue
<1> QED
    BY <1>1, <1>2, <1>3, <1>4, <1>5, <1>6, <1>7, <1>8 DEF AttachNext, LoopNext

LEMMA TrueStart == Init => TrueInv
<1> SUFFICES ASSUME Init
             PROVE  TrueInv
    OBVIOUS
<1>1. /\ report = <<>> /\ inbox = Empty /\ reply = NoReply /\ wait.pc = "off"
    BY DEF Init
<1>2. ReportTrue(report, had) /\ StreamTrue(inbox.events, had) /\ RowsTrue(reply.row, had)
    BY <1>1 DEF Empty, NoReply, ReportTrue, StreamTrue, RowsTrue, Ended, Outcome
<1> QED
    BY <1>1, <1>2 DEF TrueInv, Subscribed

LEMMA TrueStep == TypeOK /\ TrueInv /\ [Next]_vars => TrueInv'
<1> SUFFICES ASSUME TypeOK, TrueInv, [Next]_vars
             PROVE  TrueInv'
    OBVIOUS
<1>1. CASE UNCHANGED vars
    BY <1>1 DEF TrueInv, Subscribed, ReportTrue, StreamTrue, RowsTrue, Empty, NoReply,
                vars, daemonVars, waitVars
<1>2. CASE Next
    BY <1>2, DaemonTrue, WaitTrue DEF Next
<1> QED
    BY <1>1, <1>2

\* Every outcome in a report is one its row had since the wait subscribed,
\* whether a listing or the stream told it, over cancels, retries and outcomes
\* that overwrite each other (settle in progress_view.rs).
THEOREM NothingIsMadeUp == Spec => []ReportsAreTrue
<1>1. TypeOK /\ TrueInv => ReportsAreTrue
    BY DEF TypeOK, TrueInv, ReportTrue, ReportsAreTrue
<1> QED
    BY <1>1, TrueStart, TrueStep, TypeCorrect, PTL DEF Spec

-----------------------------------------------------------------------------
(* Announced ends stay in the stream.                                      *)

\* The stream s holds the outcome of job j.
InStream(s, j) == \E k \in 1..Len(s) : s[k].kind = "finished" /\ s[k].job = j

\* A listing that is being judged, and the jobs it left awaited, lack only
\* ends that the stream still holds.
StreamInv ==
    /\ \A j \in told : row[j] \in Ended
    /\ (up /\ ~inbox.lagged) =>
           /\ wait.pc = "replied" =>
                  \A j \in told : reply.row[j] \in Ended \/ InStream(inbox.events, j)
           /\ wait.pc \in {"judging", "waiting"} =>
                  \A j \in wait.awaited \cap told : InStream(inbox.events, j)

\* A receiver that has not lagged has what it had and what was published.
LEMMA PublishKeeps ==
    ASSUME TypeOK, Subscribed, NEW events \in Seq(Event), Publish(events), ~inbox'.lagged
    PROVE  /\ ~inbox.lagged
           /\ \A j \in Job : InStream(inbox.events, j) => InStream(inbox'.events, j)
           /\ \A j \in Job : InStream(events, j) => InStream(inbox'.events, j)
<1> DEFINE new == Pushed(inbox, events)
<1>1. inbox' = new
    BY DEF Publish
<1>2. ~new.lagged =>
          /\ ~inbox.lagged
          /\ \A l \in 1..Len(inbox.events) :
                 \E k \in 1..Len(new.events) : new.events[k] = inbox.events[l]
          /\ \A l \in 1..Len(events) :
                 \E k \in 1..Len(new.events) : new.events[k] = events[l]
    BY PushedShape DEF TypeOK
<1> HIDE DEF new
<1>3. ~new.lagged
    BY <1>1
<1>4. \A j \in Job : InStream(inbox.events, j) => InStream(new.events, j)
    BY <1>2, <1>3 DEF InStream
<1>5. \A j \in Job : InStream(events, j) => InStream(new.events, j)
    BY <1>2, <1>3 DEF InStream
<1> QED
    BY <1>1, <1>2, <1>3, <1>4, <1>5

\* Steps of others that publish: a job newly told has its outcome among the
\* events.
LEMMA StreamKept ==
    ASSUME TypeOK, StreamInv, UNCHANGED waitVars, up' = up, told' \subseteq Job,
           NEW events \in Seq(Event), Publish(events),
           \A j \in told' : row'[j] \in Ended,
           \A j \in told' : j \in told \/ InStream(events, j)
    PROVE  StreamInv'
<1>1. wait' = wait /\ reply' = reply
    BY DEF waitVars
<1>2. ASSUME up', ~inbox'.lagged, Subscribed
      PROVE  /\ up /\ ~inbox.lagged
             /\ \A j \in told' : (j \in told /\ InStream(inbox.events, j)) => InStream(inbox'.events, j)
             /\ \A j \in told' : j \notin told => InStream(inbox'.events, j)
    BY <1>2, PublishKeeps
<1>3. ASSUME up', ~inbox'.lagged, wait'.pc = "replied", NEW j \in told'
      PROVE  reply'.row[j] \in Ended \/ InStream(inbox'.events, j)
    <2>1. Subscribed
        BY <1>1, <1>3 DEF Subscribed
    <2> QED
        BY <1>1, <1>2, <1>3, <2>1 DEF StreamInv
<1>4. ASSUME up', ~inbox'.lagged, wait'.pc \in {"judging", "waiting"},
             NEW j \in wait'.awaited \cap told'
      PROVE  InStream(inbox'.events, j)
    <2>1. Subscribed
        BY <1>1, <1>4 DEF Subscribed
    <2> QED
        BY <1>1, <1>2, <1>4, <2>1 DEF StreamInv
<1> QED
    BY <1>3, <1>4 DEF StreamInv, InStream

LEMMA DaemonStream ==
    ASSUME TypeOK, StreamInv, WorkerNext \/ DaemonNext
    PROVE  StreamInv'
<1>t. /\ row \in [Job -> RowState] /\ busy \in Job \cup {NoJob} /\ told \subseteq Job
      /\ <<Other>> \in Seq(Event) /\ \A j \in told : row[j] \in Ended
    BY SomeEvents, EventType DEF TypeOK, StreamInv
<1>1. CASE \/ \E j \in Job : Pull(j) \/ Retry(j) \/ Cancel(j)
           \/ \E flag \in BOOLEAN : SetPaused(flag)
           \/ Chatter
    <2>1. /\ Publish(<<Other>>) /\ UNCHANGED waitVars /\ up' = up /\ told' \subseteq told
          /\ \A j \in told' : row'[j] = row[j]
        BY <1>1, <1>t DEF Pull, Retry, Cancel, SetPaused, Chatter, Begins, Ends, Request,
                          daemonVars, waitVars
    <2>2. \A j \in told' : row'[j] \in Ended /\ j \in told /\ j \in Job
        BY <1>t, <2>1
    <2> QED
        BY <1>t, <2>1, <2>2, StreamKept
<1>2. CASE ReportProgress
    <2>1. /\ Publish(<<Progress(busy)>>) /\ UNCHANGED waitVars /\ up' = up /\ told' = told
          /\ row' = row /\ busy \in Job
        BY <1>2, <1>t DEF ReportProgress, daemonVars
    <2>2. <<Progress(busy)>> \in Seq(Event)
        BY <2>1, SomeEvents, EventType
    <2>3. told' \subseteq Job /\ \A j \in told' : row'[j] \in Ended /\ j \in told
        BY <1>t, <2>1
    <2> QED
        BY <2>1, <2>2, <2>3, StreamKept
<1>3. ASSUME NEW outcome \in Outcome, NEW process \in BOOLEAN, NEW ok \in BOOLEAN,
             Finish(outcome, process, ok)
      PROVE  StreamInv'
    <2>1. /\ busy \in Job /\ Publish(FinishEvents(outcome, process, ok))
          /\ UNCHANGED waitVars /\ up' = up
          /\ row' = [row EXCEPT ![busy] = outcome]
          /\ told' = IF ok THEN told \cup {busy} ELSE told \ {busy}
        BY <1>3, <1>t DEF Finish, FinishEvents, Ends
    <2>2. FinishEvents(outcome, process, ok) \in Seq(Event)
        BY <2>1, FinishEventsType
    <2>3. ok => InStream(FinishEvents(outcome, process, ok), busy)
        <3>1. Finished(busy, outcome).kind = "finished" /\ Finished(busy, outcome).job = busy
            BY DEF Finished
        <3> DEFINE fe == FinishEvents(outcome, process, ok)
        <3>2. ok => \E k \in 1..Len(fe) : fe[k] = Finished(busy, outcome)
            BY <2>1, FinishEventsAre
        <3> HIDE DEF fe
        <3>3. ok => InStream(fe, busy)
            BY <3>1, <3>2 DEF InStream
        <3> QED
            BY <3>3 DEF fe
    <2>4. told' \subseteq Job /\ \A j \in told' : row'[j] \in Ended
        BY <1>t, <2>1 DEF Ended
    <2>5. \A j \in told' : j \in told \/ InStream(FinishEvents(outcome, process, ok), j)
        BY <2>1, <2>3
    <2> QED
        BY <2>1, <2>2, <2>4, <2>5, StreamKept
<1>4. CASE GoDown
    <2>1. told' = {} /\ up' = FALSE
        BY <1>4 DEF GoDown
    <2> QED
        BY <2>1 DEF StreamInv
<1> QED
    BY <1>1, <1>2, <1>3, <1>4 DEF WorkerNext, DaemonNext

LEMMA WaitStream ==
    ASSUME TypeOK, StreamInv, AttachNext \/ LoopNext \/ TimePasses
    PROVE  StreamInv'
<1>t. /\ wait \in Wait /\ reply \in Listing /\ told \subseteq Job
      /\ inbox \in [events : Seq(Event), lagged : BOOLEAN]
    BY DEF TypeOK
<1>s. \A j \in told : row[j] \in Ended
    BY DEF StreamInv
\* The wait moves to where nothing is said of the stream.
<1>1. ASSUME told' = told, \A j \in told : row'[j] = row[j],
             wait'.pc \notin {"replied", "judging", "waiting"}
      PROVE  StreamInv'
    BY <1>1, <1>s DEF StreamInv
<1>2. CASE \/ Subscribe \/ FailCall \/ LoseCall \/ Reconcile \/ Closed
           \/ \E js \in SUBSET Job : AskFor(js)
    <2>1. told' = told /\ row' = row /\ wait'.pc \notin {"replied", "judging", "waiting"}
        BY <1>2, <1>t DEF Subscribe, FailCall, LoseCall, Reconcile, Closed, AskFor, EndAs,
                          WaitStep, daemonVars, Wait
    <2> QED
        BY <1>1, <2>1
<1>3. ASSUME NEW js \in SUBSET Job, Submit(js)
      PROVE  StreamInv'
    <2>1. told' = told /\ wait'.pc = "asking"
        BY <1>3, <1>t DEF Submit, Wait
    <2>2. \A j \in told : row'[j] = row[j]
        BY <1>3, <1>s, <1>t DEF Submit, Ended, Outcome
    <2> QED
        BY <1>1, <2>1, <2>2
<1>4. CASE Answer
    <2>1. /\ told' = told /\ row' = row /\ reply'.row = row /\ wait'.pc = "replied"
        BY <1>4, <1>t DEF Answer, WaitStep, daemonVars, Wait
    <2> QED
        BY <1>s, <2>1 DEF StreamInv
<1>5. CASE Attach
    <2> DEFINE covered == IF wait.named # {} THEN wait.named
                          ELSE {j \in Job : reply.row[j] \in Live}
               ended == EndedIn(reply, covered)
    <2>1. /\ told' = told /\ row' = row /\ inbox' = inbox /\ up' = up
          /\ wait.pc = "replied" /\ wait'.pc \in {"ended", "judging"}
          /\ wait'.awaited = covered \ ended
        BY <1>5, <1>t DEF Attach, WaitStep, daemonVars, Wait
    <2>2. \A j \in covered \ ended : reply.row[j] \notin Ended
        BY DEF EndedIn
    <2> HIDE DEF covered, ended
    <2>3. ASSUME up, ~inbox.lagged, NEW j \in wait'.awaited \cap told
          PROVE  InStream(inbox.events, j)
        BY <2>1, <2>2, <2>3 DEF StreamInv
    <2> QED
        BY <1>s, <2>1, <2>3 DEF StreamInv
<1>6. CASE Judge \/ TimePasses
    <2>1. /\ told' = told /\ row' = row /\ inbox' = inbox /\ up' = up
          /\ wait.pc \in {"judging", "waiting"} /\ wait'.pc \in {"ended", "waiting"}
          /\ wait'.awaited = wait.awaited
        BY <1>6, <1>t DEF Judge, TimePasses, EndAs, WaitStep, daemonVars, Wait
    <2> QED
        BY <1>s, <2>1 DEF StreamInv
<1>7. CASE Receive
    <2> DEFINE event    == Head(inbox.events)
               finished == Relevant(event) /\ event.kind = "finished"
               awaited  == IF finished THEN wait.awaited \ {event.job} ELSE wait.awaited
               t        == Tail(inbox.events)
    <2>1. /\ told' = told /\ row' = row /\ up' = up /\ inbox' = [inbox EXCEPT !.events = Tail(@)]
          /\ ~inbox.lagged /\ inbox.events # <<>>
          /\ wait.pc = "waiting" /\ wait'.pc \in {"ended", "asking", "waiting"}
          /\ wait'.awaited = awaited
        BY <1>7, <1>t DEF Receive, WaitStep, daemonVars, Wait
    <2>2. /\ event = inbox.events[1] /\ Len(inbox.events) \in Nat
          /\ inbox'.events = t /\ Len(t) = Len(inbox.events) - 1
          /\ \A k \in 1..Len(t) : t[k] = inbox.events[k + 1]
        BY <1>t, <2>1, HeadShape
    <2>3. ASSUME up, NEW j \in awaited \cap told
          PROVE  InStream(inbox'.events, j)
        <3>1. j \in wait.awaited
            OBVIOUS
        <3>2. PICK k \in 1..Len(inbox.events) :
                  inbox.events[k].kind = "finished" /\ inbox.events[k].job = j
            BY <2>1, <2>3, <3>1 DEF StreamInv, InStream
        <3>3. k # 1
            <4>1. SUFFICES ASSUME k = 1
                           PROVE  FALSE
                OBVIOUS
            <4>2. event.kind = "finished" /\ event.job = j
                BY <2>2, <3>2, <4>1
            <4>3. finished
                BY <3>1, <4>2 DEF Relevant
            <4>4. j \notin awaited
                BY <4>2, <4>3
            <4> QED
                BY <2>3, <4>4
        <3> HIDE DEF t, event, awaited
        <3>4. k - 1 \in 1..Len(t) /\ (k - 1) + 1 = k
            BY <2>2, <3>3
        <3>5. t[k - 1] = inbox.events[k]
            BY <2>2, <3>4
        <3> QED
            BY <2>2, <3>2, <3>4, <3>5 DEF InStream
    <2> HIDE DEF awaited, t
    <2> QED
        BY <1>s, <2>1, <2>3 DEF StreamInv
<1>8. CASE Settle
    <2> DEFINE unfinished == wait.awaited \ Over
    <2>1. /\ told' = told /\ row' = row /\ inbox' = inbox /\ up' = up
          /\ wait.pc = "replied"
          /\ \/ wait'.pc = "ended"
             \/ wait'.pc = "waiting" /\ wait'.awaited = unfinished
        <3>1. CASE unfinished = {}
            BY <1>8, <1>t, <3>1 DEF Settle, WaitStep, daemonVars, Wait
        <3>2. CASE unfinished # {} /\ StuckIn(reply, unfinished)
            BY <1>8, <1>t, <3>2 DEF Settle, WaitStep, daemonVars, Wait
        <3>3. CASE unfinished # {} /\ ~StuckIn(reply, unfinished)
            BY <1>8, <1>t, <3>3 DEF Settle, WaitStep, daemonVars, Wait
        <3> QED
            BY <3>1, <3>2, <3>3
    <2>2. \A j \in unfinished : reply.row[j] \notin Ended
        BY DEF Over, EndedIn
    <2> HIDE DEF unfinished
    <2>3. ASSUME up, ~inbox.lagged, NEW j \in unfinished \cap told
          PROVE  InStream(inbox.events, j)
        BY <2>1, <2>2, <2>3 DEF StreamInv
    <2> QED
        BY <1>s, <2>1, <2>3 DEF StreamInv
<1> QED
    BY <1>2, <1>3, <1>4, <1>5, <1>6, <1>7, <1>8 DEF AttachNext, LoopNext

LEMMA StreamStart == Init => StreamInv
BY DEF Init, StreamInv

LEMMA StreamStep == TypeOK /\ StreamInv /\ [Next]_vars => StreamInv'
<1> SUFFICES ASSUME TypeOK, StreamInv, [Next]_vars
             PROVE  StreamInv'
    OBVIOUS
<1>1. CASE UNCHANGED vars
    BY <1>1 DEF StreamInv, InStream, vars, daemonVars, waitVars
<1>2. CASE Next
    BY <1>2, DaemonStream, WaitStream DEF Next
<1> QED
    BY <1>1, <1>2

\* While the receiver has not said that it dropped something, an announced end
\* of a job the wait still awaits is in it, whether it ended before or after
\* the listing the wait works from, so the read-then-listen of the wait loses
\* no announced end (wait and await_jobs_reconciling in job_wait.rs).
THEOREM NoAnnouncedEndIsMissed == Spec => []EndsAreInTheStream
<1>1. TypeOK /\ StreamInv => EndsAreInTheStream
    BY DEF TypeOK, StreamInv, InStream, EndsAreInTheStream
<1> QED
    BY <1>1, StreamStart, StreamStep, TypeCorrect, PTL DEF Spec
=============================================================================
