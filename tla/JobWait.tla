------------------------------ MODULE JobWait ------------------------------
(***************************************************************************)
(* `bookrack queue wait` and `ingest --wait`: how the command line waits   *)
(* for queue jobs over the control plane.                                  *)
(*                                                                         *)
(* The wait subscribes to the events, reads the queue once, and then takes *)
(* the outcomes off the event stream.  The stream loses events when the    *)
(* client falls behind, and some ends are never announced: a cancel sends  *)
(* a tick without an outcome, and an outcome whose save failed sends no    *)
(* tick.  So the wait reads the queue again whenever the stream says it    *)
(* dropped something, the daemon reports itself degraded, or nothing       *)
(* about an awaited job came in for a while.  The daemon is here what the  *)
(* wait can see of it; JobQueue has the rest.                              *)
(***************************************************************************)
EXTENDS Naturals, Sequences, FiniteSets, SequencesExt

CONSTANTS
    Job,           \* the rows of the queue, and those a submission adds
    InitialRows,   \* the queues a run of the model starts from
    NoJob,         \* the worker runs nothing
    Capacity,      \* events the client's receiver can fall behind
    Stall,         \* ticks of the clock without a relevant event
    MaxRequests    \* bound on the requests of other clients

VARIABLES
    row,       \* the state of each row in the daemon's memory
    paused,    \* the queue's pause flag
    busy,      \* the job the runner is running
    enabled,   \* the daemon was started with a queue worker
    up,        \* the daemon is there
    inbox,     \* the client's event receiver
    wait,      \* the wait
    report,    \* the outcome records collected so far
    reply,     \* the queue.list reply the client works on
    had,       \* history: the ended states a row had since the subscription
    told,      \* history: rows whose present end was announced
    requests

daemonVars == <<row, paused, busy, enabled, up>>
waitVars   == <<wait, report, reply>>
vars == <<daemonVars, inbox, waitVars, had, told, requests>>

-----------------------------------------------------------------------------
(* Values.                                                                 *)

\* "done" stands for every state a row cannot be retried from.
Outcome  == {"done", "failed"}
Ended    == Outcome \cup {"cancelled"}
Live     == {"pending", "running"}
RowState == {"absent"} \cup Live \cup Ended

ASSUME JobWaitAssumption ==
    /\ NoJob \notin Job
    /\ IsFiniteSet(Job)
    /\ InitialRows \subseteq [Job -> {"absent", "pending"} \cup Ended]
    /\ Capacity \in Nat \ {0}
    /\ Stall \in Nat \ {0}
    /\ MaxRequests \in Nat

Finished(j, outcome) == [kind |-> "finished", job |-> j, outcome |-> outcome]
Progress(j)          == [kind |-> "progress", job |-> j]
Degraded             == [kind |-> "degraded"]
Other                == [kind |-> "other"]

Event == {Finished(j, o) : j \in Job, o \in Outcome}
         \cup {Progress(j) : j \in Job} \cup {Degraded, Other}

Empty == [events |-> <<>>, lagged |-> FALSE]

Record  == [job : Job, outcome : Ended]
Listing == [row : [Job -> RowState], paused : BOOLEAN]

NoReply == [row |-> [j \in Job |-> "absent"], paused |-> FALSE]

\* "asking": a queue.list is out; "replied": its answer is in.
\* `first`: this is the read the wait attaches with.
\* `named`: the jobs asked for, none for every live one.
Wait == [pc    : {"off", "subscribed", "asking", "replied", "judging", "waiting", "ended"},
         first : BOOLEAN, named : SUBSET Job, covered : SUBSET Job,
         awaited : SUBSET Job, left : 0..Stall,
         end : {"none", "nothing", "complete", "no_worker", "paused", "disconnected", "error"}]

Init ==
    /\ row \in InitialRows
    /\ paused \in BOOLEAN
    /\ busy = NoJob
    /\ enabled \in BOOLEAN
    /\ up = TRUE
    /\ inbox = Empty
    /\ wait = [pc |-> "off", first |-> TRUE, named |-> {}, covered |-> {},
               awaited |-> {}, left |-> 0, end |-> "none"]
    /\ report = <<>>
    /\ reply = NoReply
    /\ had = [j \in Job |-> {}]
    /\ told = {}
    /\ requests = 0

-----------------------------------------------------------------------------
(* The daemon.                                                             *)

Subscribed == wait.pc \notin {"off", "ended"}

\* The model stops with the wait.
Serving == up /\ wait.pc # "ended"

\* Mutant: the stream does not say that it dropped something.
PushedSilently(box, events) ==
    LET all == box.events \o events
    IN  [box EXCEPT !.events = IF Len(all) <= Capacity THEN all
                               ELSE SubSeq(all, Len(all) - Capacity + 1, Len(all))]

\* A receiver has room for so many events; with more it drops the oldest and
\* remembers that it lagged.
Pushed(box, events) ==
    LET all == box.events \o events
    IN  IF Len(all) <= Capacity THEN [box EXCEPT !.events = all]
        ELSE [events |-> SubSeq(all, Len(all) - Capacity + 1, Len(all)), lagged |-> TRUE]

Publish(events) == inbox' = IF Subscribed THEN Pushed(inbox, events) ELSE inbox

\* Row j ends as `state`; `announced` says whether a tick carries it.
Ends(j, state, announced) ==
    /\ row' = [row EXCEPT ![j] = state]
    /\ had' = IF Subscribed THEN [had EXCEPT ![j] = @ \cup {state}] ELSE had
    /\ told' = IF announced THEN told \cup {j} ELSE told \ {j}

\* Row j becomes live.
Begins(j, state) ==
    /\ row' = [row EXCEPT ![j] = state]
    /\ told' = told \ {j}
    /\ UNCHANGED had

Pull(j) ==
    /\ Serving
    /\ enabled
    /\ ~paused
    /\ busy = NoJob
    /\ row[j] = "pending"
    /\ busy' = j
    /\ Begins(j, "running")
    /\ Publish(<<Other>>)
    /\ UNCHANGED <<paused, enabled, up, waitVars, requests>>

ReportProgress ==
    /\ Serving
    /\ busy # NoJob
    /\ Publish(<<Progress(busy)>>)
    /\ UNCHANGED <<daemonVars, waitVars, had, told, requests>>

\* The outcome is written whatever became of the row meanwhile.  A failed
\* save announces nothing; a process-level failure pauses the queue, and is
\* published before the outcome.
Finish(outcome, process, ok) ==
    /\ Serving
    /\ busy # NoJob
    /\ process => outcome = "failed"
    /\ Ends(busy, outcome, ok)
    /\ paused' = IF process THEN ok ELSE paused
    /\ Publish(IF ok THEN (IF process THEN <<Degraded>> ELSE <<>>) \o <<Finished(busy, outcome)>>
                     ELSE <<>>)
    /\ busy' = NoJob
    /\ UNCHANGED <<enabled, up, waitVars, requests>>

\* The next request of another client.
Request ==
    /\ Serving
    /\ requests < MaxRequests
    /\ requests' = requests + 1
    /\ UNCHANGED <<busy, enabled, up, waitVars>>

\* ingest.cancel and queue.clear: the tick carries no outcome.
Cancel(j) ==
    /\ Request
    /\ row[j] \in Live
    /\ Ends(j, "cancelled", FALSE)
    /\ Publish(<<Other>>)
    /\ UNCHANGED paused

Retry(j) ==
    /\ Request
    /\ row[j] \in {"failed", "cancelled"}
    /\ Begins(j, "pending")
    /\ Publish(<<Other>>)
    /\ UNCHANGED paused

SetPaused(flag) ==
    /\ Request
    /\ paused' = flag
    /\ Publish(<<Other>>)
    /\ UNCHANGED <<row, had, told>>

\* Ticks and progress of jobs the wait does not cover, and the channels it
\* does not look at.
Chatter ==
    /\ Serving
    /\ Subscribed
    /\ Publish(<<Other>>)
    /\ UNCHANGED <<daemonVars, waitVars, had, told, requests>>

\* The daemon exits or dies; events still on their way may be lost with it.
GoDown ==
    /\ Serving
    /\ up' = FALSE
    /\ \E n \in 0..Len(inbox.events) :
           inbox' = [inbox EXCEPT !.events = SubSeq(@, 1, n)]
    /\ row' = [j \in Job |-> "absent"]
    /\ paused' = FALSE
    /\ busy' = NoJob
    /\ told' = {}
    /\ UNCHANGED <<enabled, waitVars, had, requests>>

-----------------------------------------------------------------------------
(* The wait.                                                               *)

WaitStep == UNCHANGED <<daemonVars, told, requests>>

EndAs(end) == wait' = [wait EXCEPT !.pc = "ended", !.end = end]

\* The receiver is there before anything is read or submitted.
Subscribe ==
    /\ wait.pc = "off"
    /\ up
    /\ wait' = [wait EXCEPT !.pc = "subscribed"]
    /\ had' = [j \in Job |-> {row[j]} \cap Ended]
    /\ WaitStep
    /\ UNCHANGED <<inbox, report, reply>>

\* queue wait: the rows named, or every live one.
AskFor(named) ==
    /\ wait.pc = "subscribed"
    /\ \A j \in named : row[j] # "absent"
    /\ wait' = [wait EXCEPT !.pc = "asking", !.named = named]
    /\ WaitStep
    /\ UNCHANGED <<inbox, report, reply, had>>

\* ingest --wait: submit, then wait for the ids the daemon answered with.
Submit(new) ==
    /\ wait.pc = "subscribed"
    /\ up
    /\ new # {}
    /\ \A j \in new : row[j] = "absent"
    /\ row' = [j \in Job |-> IF j \in new THEN "pending" ELSE row[j]]
    /\ wait' = [wait EXCEPT !.pc = "asking", !.named = new]
    /\ Publish(<<Other>>)
    /\ UNCHANGED <<paused, busy, enabled, up, report, reply, had, told, requests>>

\* The daemon answers queue.list.
Answer ==
    /\ wait.pc = "asking"
    /\ up
    /\ reply' = [row |-> row, paused |-> paused]
    /\ wait' = [wait EXCEPT !.pc = "replied"]
    /\ WaitStep
    /\ UNCHANGED <<inbox, report, had>>

\* The connection is gone under a call.  Only the reconciling read turns
\* that into a refusal with the outcomes collected so far.
LoseCall ==
    /\ wait.pc \in {"subscribed", "asking", "judging"}
    /\ ~up
    /\ EndAs(IF wait.pc = "asking" /\ ~wait.first THEN "disconnected" ELSE "error")
    /\ WaitStep
    /\ UNCHANGED <<inbox, report, reply, had>>

\* A queue.list that fails in any other way.
FailCall ==
    /\ wait.pc = "asking"
    /\ up
    /\ EndAs("error")
    /\ WaitStep
    /\ UNCHANGED <<inbox, report, reply, had>>

\* Mutant: a listed end reads as done.
SettledAsDone(over) ==
    LET records == {[job |-> j, outcome |-> "done"] : j \in over}
    IN  report \o SetToSeq(records)

\* The records of rows in `over`, as the listing has them.
Settled(over) ==
    LET records == {[job |-> j, outcome |-> reply.row[j]] : j \in over}
    IN  report \o SetToSeq(records)

EndedIn(listing, js) == {j \in js : listing.row[j] \in Ended}

\* attach.
Attach ==
    /\ wait.pc = "replied"
    /\ wait.first
    /\ LET covered == IF wait.named # {} THEN wait.named
                      ELSE {j \in Job : reply.row[j] \in Live}
           ended   == EndedIn(reply, covered)
       IN  /\ wait' = [wait EXCEPT !.first = FALSE, !.covered = covered,
                                   !.awaited = covered \ ended,
                                   !.pc = IF covered = ended THEN "ended" ELSE "judging",
                                   !.end = CASE covered = {}   -> "nothing"
                                             [] covered = ended -> "complete"
                                             [] OTHER           -> "none"]
           /\ report' = Settled(ended)
    /\ WaitStep
    /\ UNCHANGED <<inbox, reply, had>>

\* Whether the listing shows an awaited row no worker will pull.
StuckIn(listing, js) == listing.paused /\ \E j \in js : listing.row[j] = "pending"

\* judge, by the listing the wait attached with.
Judge ==
    /\ wait.pc = "judging"
    /\ up
    /\ IF ~enabled THEN EndAs("no_worker")
       ELSE IF StuckIn(reply, wait.awaited) THEN EndAs("paused")
       ELSE wait' = [wait EXCEPT !.pc = "waiting", !.left = Stall]
    /\ reply' = NoReply
    /\ WaitStep
    /\ UNCHANGED <<inbox, report, had>>

-----------------------------------------------------------------------------
(* await_jobs_reconciling.                                                 *)

TimePasses ==
    /\ wait.pc = "waiting"
    /\ wait.left > 0
    /\ wait' = [wait EXCEPT !.left = @ - 1]
    /\ WaitStep
    /\ UNCHANGED <<inbox, report, reply, had>>

\* Mutant: the wait relies on the stream alone.
ReconcileOnLag ==
    /\ wait.pc = "waiting"
    /\ inbox.lagged
    /\ inbox' = [inbox EXCEPT !.lagged = FALSE]
    /\ wait' = [wait EXCEPT !.pc = "asking"]
    /\ WaitStep
    /\ UNCHANGED <<report, reply, had>>

\* The deadline is compared before every turn on the receiver.
Reconcile ==
    /\ wait.pc = "waiting"
    /\ IF wait.left = 0 THEN UNCHANGED inbox
       ELSE inbox.lagged /\ inbox' = [inbox EXCEPT !.lagged = FALSE]
    /\ wait' = [wait EXCEPT !.pc = "asking"]
    /\ WaitStep
    /\ UNCHANGED <<report, reply, had>>

\* What extends the deadline: progress or the outcome of an awaited job.
Relevant(event) == event.kind \in {"progress", "finished"} /\ event.job \in wait.awaited

\* ProgressView.apply.
Receive ==
    /\ wait.pc = "waiting"
    /\ wait.left > 0
    /\ ~inbox.lagged
    /\ inbox.events # <<>>
    /\ LET event    == Head(inbox.events)
           finished == Relevant(event) /\ event.kind = "finished"
           awaited  == IF finished THEN wait.awaited \ {event.job} ELSE wait.awaited
       IN  /\ report' = IF finished
                        THEN Append(report, [job |-> event.job, outcome |-> event.outcome])
                        ELSE report
           /\ wait' = [wait EXCEPT !.awaited = awaited,
                                   !.left = IF Relevant(event) THEN Stall ELSE @,
                                   !.pc = CASE awaited = {}      -> "ended"
                                            [] event = Degraded  -> "asking"
                                            [] OTHER             -> "waiting",
                                   !.end = IF awaited = {} THEN "complete" ELSE "none"]
    /\ inbox' = [inbox EXCEPT !.events = Tail(@)]
    /\ WaitStep
    /\ UNCHANGED <<reply, had>>

\* The stream closed: everything that arrived has been read.
Closed ==
    /\ wait.pc = "waiting"
    /\ wait.left > 0
    /\ ~up
    /\ inbox = Empty
    /\ EndAs("disconnected")
    /\ WaitStep
    /\ UNCHANGED <<inbox, report, reply, had>>

\* Mutant: an outcome the stream already delivered is recorded again.
OverAgain == EndedIn(reply, wait.covered)

\* Awaited rows the listing shows ended.
Over == EndedIn(reply, wait.awaited)

\* The rest of a turn, with the listing in hand.
Settle ==
    /\ wait.pc = "replied"
    /\ ~wait.first
    /\ LET unfinished == wait.awaited \ Over
       IN  wait' = CASE unfinished = {} ->
                            [wait EXCEPT !.awaited = {}, !.pc = "ended", !.end = "complete"]
                     [] unfinished # {} /\ StuckIn(reply, unfinished) ->
                            [wait EXCEPT !.awaited = unfinished, !.pc = "ended", !.end = "paused"]
                     [] OTHER ->
                            [wait EXCEPT !.awaited = unfinished, !.pc = "waiting", !.left = Stall]
    /\ report' = Settled(Over)
    /\ reply' = NoReply
    /\ WaitStep
    /\ UNCHANGED <<inbox, had>>

-----------------------------------------------------------------------------

WorkerNext ==
    \/ \E j \in Job : Pull(j)
    \/ \E outcome \in Outcome, process, ok \in BOOLEAN : Finish(outcome, process, ok)

DaemonNext ==
    \/ ReportProgress
    \/ \E j \in Job : Cancel(j) \/ Retry(j)
    \/ \E flag \in BOOLEAN : SetPaused(flag)
    \/ Chatter
    \/ GoDown

AttachNext ==
    \/ Subscribe
    \/ \E js \in SUBSET Job : AskFor(js) \/ Submit(js)
    \/ FailCall

LoopNext == LoseCall \/ Answer \/ Attach \/ Judge \/ Reconcile \/ Receive \/ Closed \/ Settle

Next == WorkerNext \/ DaemonNext \/ AttachNext \/ LoopNext \/ TimePasses

Spec == Init /\ [][Next]_vars

\* The worker pulls and its jobs come to an end, time passes, and a wait that
\* subscribed goes on.
FairSpec ==
    /\ Spec
    /\ WF_vars(WorkerNext)
    /\ WF_vars(\E js \in SUBSET Job : AskFor(js) \/ Submit(js))
    /\ WF_vars(LoopNext)
    /\ WF_vars(TimePasses)

-----------------------------------------------------------------------------
(* Properties.                                                             *)

TypeOK ==
    /\ row \in [Job -> RowState]
    /\ paused \in BOOLEAN
    /\ busy \in Job \cup {NoJob}
    /\ enabled \in BOOLEAN
    /\ up \in BOOLEAN
    /\ inbox \in [events : Seq(Event), lagged : BOOLEAN] /\ Len(inbox.events) <= Capacity
    /\ wait \in Wait
    /\ report \in Seq(Record)
    /\ reply \in Listing
    /\ had \in [Job -> SUBSET Ended]
    /\ told \subseteq Job
    /\ requests \in 0..MaxRequests

\* The report and the jobs still awaited split the jobs the wait covers: each
\* is reported once or named as unfinished, however its end was learned, and
\* a complete report leaves none out (WaitEnd in job_wait.rs, settle and
\* finish in progress_view.rs).
ReportsAddUp ==
    LET reported == {report[k].job : k \in DOMAIN report}
    IN  wait.covered # {} =>
            /\ Len(report) = Cardinality(reported)
            /\ reported \cap wait.awaited = {}
            /\ reported \cup wait.awaited = wait.covered
            /\ wait.end = "complete" => wait.awaited = {}

\* An outcome in the report is one the row had since the wait subscribed,
\* over cancels, retries and outcomes that overwrite each other.
ReportsAreTrue ==
    \A k \in DOMAIN report : report[k].outcome \in had[report[k].job]

\* While the stream has not said that it dropped something, an announced end
\* of an awaited job is still in it: "a job that ends after the read reaches
\* it" (wait in job_wait.rs).
EndsAreInTheStream ==
    (wait.pc = "waiting" /\ ~inbox.lagged /\ up) =>
        \A j \in wait.awaited \cap told :
            \E k \in DOMAIN inbox.events :
                inbox.events[k].kind = "finished" /\ inbox.events[k].job = j

\* A wait ends: with its jobs, with a queue that is paused under them, or with
\* the daemon, also when the end was not announced and when a stream that is
\* never silent says nothing about the jobs (await_jobs_reconciling).
WaitsEnd == (wait.pc = "subscribed") ~> (wait.pc = "ended")
=============================================================================
