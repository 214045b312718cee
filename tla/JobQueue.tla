------------------------------ MODULE JobQueue ------------------------------
(***************************************************************************)
(* The daemon's ingest queue: one worker task, the control-plane handlers  *)
(* that rewrite the queue document beside it, the document on disk, and    *)
(* the mounted-library set the two of them consult.                        *)
(*                                                                         *)
(* Every hold of the queue mutex is one action.  What a handler does after *)
(* it lets go of the mutex (storing the pause atomic, clearing the         *)
(* degraded cause, publishing its tick) is an action of its own, since     *)
(* handlers run on a multi-threaded executor beside the worker.            *)
(***************************************************************************)
EXTENDS QueueDocument

CONSTANTS
    Client,            \* control-plane connections issuing requests
    StartPlans,        \* the library sets a bring-up may plan to serve
    PinTarget,         \* the library unnamed rows are pinned to
    InitialJobs,       \* the rows an earlier binary may have left on disk
    SubmitPriorities,  \* the priorities submits use
    SaveFailures,      \* whether a save_atomic may fail
    ProcessFailures,   \* whether a run may end in JobError::Process
    MaxJobs,           \* bound on the rows of the document
    MaxRequests,       \* bound on the queue requests of one behaviour
    MaxRestarts        \* bound on the daemon's exits

ASSUME PlansAssumption ==
    /\ StartPlans \subseteq SUBSET Library
    /\ {} \notin StartPlans
    /\ PinTarget \in Library

ASSUME InitialJobsAssumption ==
    InitialJobs \subseteq Seq({job \in QueueJob : RowConsistent(job)})

ASSUME BoundsAssumption ==
    /\ SubmitPriorities \subseteq Priority
    /\ SaveFailures \in BOOLEAN
    /\ ProcessFailures \in BOOLEAN
    /\ MaxJobs \in Nat
    /\ MaxRequests \in Nat
    /\ MaxRestarts \in Nat

VARIABLES
    up,          \* the daemon process is running
    stopping,    \* the shutdown broadcast has been sent
    mounted,     \* names in the library registry's mounted map
    primary,     \* the library the daemon came up under
    jobs,        \* QueueState::jobs behind the queue mutex
    paused,      \* QueueState::paused behind the queue mutex
    pausedFlag,  \* the queue_paused atomic the worker polls
    degraded,    \* DegradedCause::QueueFailurePause is set
    disk,        \* the document at queue.json
    worker,      \* the worker task
    rpc,         \* what each client's request still has to do
    published,   \* the last queue.tick sent on the event stream
    requests,    \* requests issued so far
    restarts     \* exits so far

docVars  == <<jobs, paused, disk>>
flagVars == <<pausedFlag, degraded>>
libVars  == <<mounted, primary>>
procVars == <<up, stopping, restarts>>
vars     == <<docVars, flagVars, libVars, procVars, worker, rpc, published, requests>>

-----------------------------------------------------------------------------
(* Values.                                                                 *)

NoTick == [current |-> 0, pending |-> 0, running |-> 0]
Tick   == [current : Nat, pending : Nat, running : Nat]

Document == [jobs : Seq(QueueJob), paused : BOOLEAN]

\* "ready": past the atomic's check, not yet at the queue mutex.
\* "pulled": the row is running, the runner has not resolved its library.
\* "executing": the runner holds the library's handle.
\* "finished": the runner returned, the outcome is not recorded yet.
WorkerPc == {"boot", "idle", "ready", "pulled", "executing", "finished", "exited"}

Worker == [pc : WorkerPc, job : Nat, result : Outcome, process : BOOLEAN]

At(pc) == [pc |-> pc, job |-> 0, result |-> "done", process |-> FALSE]

CallPc == {"idle", "resolved", "store", "undegrade", "publish"}

Call == [pc : CallPc, lib : Library \cup {Unnamed}, flag : BOOLEAN, tick : Tick]

NoCall == [pc |-> "idle", lib |-> Unnamed, flag |-> FALSE, tick |-> NoTick]

\* Whether one save_atomic succeeds.
SaveResult == IF SaveFailures THEN BOOLEAN ELSE {TRUE}

Busy == worker.pc \in {"pulled", "executing", "finished"}

-----------------------------------------------------------------------------
(* save_atomic: a successful save replaces the document by the one in      *)
(* memory, a failed one leaves it alone.                                   *)

Save(ok, newJobs, newPaused) ==
    disk' = IF ok THEN [jobs |-> newJobs, paused |-> newPaused] ELSE disk

\* Mutant: memory keeps what could not be saved.
KeptOnFailure(ok, new, old) == new

\* Request handlers put back what they changed when the save fails.
RestoredOnFailure(ok, new, old) == IF ok THEN new ELSE old

\* What bring-up seeds the worker's atomic with.
LoadedFlag(doc) == doc.paused

\* The worker publishes its tick under the queue mutex, after a good save.
WorkerTick(ok, newJobs) ==
    published' = IF ok THEN DeriveTick(newJobs) ELSE published

Init ==
    /\ up = FALSE
    /\ stopping = FALSE
    /\ mounted = {}
    /\ primary = PinTarget
    /\ jobs = <<>>
    /\ paused = FALSE
    /\ pausedFlag = FALSE
    /\ degraded = FALSE
    /\ disk \in {[jobs |-> rows, paused |-> p] : rows \in InitialJobs, p \in BOOLEAN}
    /\ worker = At("exited")
    /\ rpc = [c \in Client |-> NoCall]
    /\ published = NoTick
    /\ requests = 0
    /\ restarts = 0

-----------------------------------------------------------------------------
(* Bring-up, shutdown, crash.                                              *)

\* `served` came up, `skipped` did not.  The pause flag comes back from the
\* document, the degraded cause does not.
BringUp(served, skipped, name, ok) ==
    LET adjusted == FailJobsAgainst(PinUnnamedJobs(disk.jobs, PinTarget), skipped)
    IN  /\ ~up
        /\ served # {}
        /\ served \cap skipped = {}
        /\ served \cup skipped \in StartPlans
        /\ name \in served \cup skipped
        /\ up' = TRUE
        /\ mounted' = served
        /\ primary' = name
        /\ jobs' = adjusted
        /\ paused' = disk.paused
        /\ pausedFlag' = LoadedFlag(disk)
        /\ degraded' = FALSE
        /\ Save(ok /\ adjusted # disk.jobs, adjusted, disk.paused)
        /\ worker' = At("boot")
        /\ UNCHANGED <<stopping, restarts, rpc, published, requests>>

InitiateShutdown ==
    /\ up
    /\ ~stopping
    /\ stopping' = TRUE
    /\ UNCHANGED <<docVars, flagVars, libVars, up, restarts, worker, rpc,
                   published, requests>>

\* A crash, a kill, or the end of an orderly shutdown, which abandons a
\* worker that is still running a job: only the document survives.
Exit ==
    /\ up
    /\ restarts < MaxRestarts
    /\ restarts' = restarts + 1
    /\ up' = FALSE
    /\ stopping' = FALSE
    /\ mounted' = {}
    /\ jobs' = <<>>
    /\ paused' = FALSE
    /\ pausedFlag' = FALSE
    /\ degraded' = FALSE
    /\ worker' = At("exited")
    /\ rpc' = [c \in Client |-> NoCall]
    /\ published' = NoTick
    /\ UNCHANGED <<primary, disk, requests>>

-----------------------------------------------------------------------------
(* worker_loop.                                                            *)

WorkerStep == UNCHANGED <<libVars, procVars, rpc, requests>>

\* Crash recovery, once, before the first poll.
WorkerRecover(ok) ==
    /\ worker.pc = "boot"
    /\ jobs' = CrashRecoveryReset(jobs)
    /\ Save(ok, jobs', paused)
    /\ WorkerTick(ok, jobs')
    /\ worker' = At("idle")
    /\ WorkerStep
    /\ UNCHANGED <<paused, flagVars>>

\* Mutant: the worker drains the queue before it stops.
WorkerShutdownWhenDrained ==
    /\ worker.pc = "idle"
    /\ stopping
    /\ PendingAt(jobs) = {}
    /\ worker' = At("exited")
    /\ WorkerStep
    /\ UNCHANGED <<docVars, flagVars, published>>

\* The shutdown arm of the select; nothing else in the loop observes it.
WorkerShutdown ==
    /\ worker.pc = "idle"
    /\ stopping
    /\ worker' = At("exited")
    /\ WorkerStep
    /\ UNCHANGED <<docVars, flagVars, published>>

\* The 200 ms arm, and the read of the atomic.
WorkerWake ==
    /\ worker.pc = "idle"
    /\ ~pausedFlag
    /\ worker' = At("ready")
    /\ WorkerStep
    /\ UNCHANGED <<docVars, flagVars, published>>

WorkerFindNothing ==
    /\ worker.pc = "ready"
    /\ PullChoice(jobs, paused) = {}
    /\ worker' = At("idle")
    /\ WorkerStep
    /\ UNCHANGED <<docVars, flagVars, published>>

\* A save that fails is only logged: the job runs all the same.
WorkerPull(i, ok) ==
    /\ worker.pc = "ready"
    /\ i \in PullChoice(jobs, paused)
    /\ jobs' = PullPending(jobs, i)
    /\ Save(ok, jobs', paused)
    /\ WorkerTick(ok, jobs')
    /\ worker' = [At("pulled") EXCEPT !.job = i]
    /\ WorkerStep
    /\ UNCHANGED <<paused, flagVars>>

\* The runner resolves the row's library when it starts, not at the pull.
RunnerStart ==
    /\ worker.pc = "pulled"
    /\ worker' = IF jobs[worker.job].library \in mounted
                 THEN [worker EXCEPT !.pc = "executing"]
                 ELSE [worker EXCEPT !.pc = "finished", !.result = "failed"]
    /\ WorkerStep
    /\ UNCHANGED <<docVars, flagVars, published>>

RunnerReturn(result, process) ==
    /\ worker.pc = "executing"
    /\ process => ProcessFailures /\ result = "failed"
    /\ worker' = [worker EXCEPT !.pc = "finished",
                                !.result = result, !.process = process]
    /\ WorkerStep
    /\ UNCHANGED <<docVars, flagVars, published>>

\* A process-level failure pauses the queue with the outcome.  When that
\* save fails the pause in memory is dropped again, whoever set it.
WorkerRecord(ok) ==
    LET wasPaused == paused \/ worker.process
    IN  /\ worker.pc = "finished"
        /\ jobs' = ApplyOutcome(jobs, worker.job, worker.result)
        /\ Save(ok, jobs', wasPaused)
        /\ paused' = (wasPaused /\ (worker.process => ok))
        /\ pausedFlag' = (pausedFlag \/ (worker.process /\ ok))
        /\ degraded' = (degraded \/ (worker.process /\ ok))
        /\ WorkerTick(ok, jobs')
        /\ worker' = At("idle")
        /\ WorkerStep

-----------------------------------------------------------------------------
(* Control-plane requests.                                                 *)

RpcStep == UNCHANGED <<libVars, procVars, worker>>

\* Client c, with nothing in flight, issues a request.
Issue(c) ==
    /\ up
    /\ rpc[c].pc = "idle"
    /\ requests < MaxRequests
    /\ requests' = requests + 1

Then(c, pc, flag, tick) ==
    rpc' = [rpc EXCEPT ![c] = [NoCall EXCEPT !.pc = pc, !.flag = flag, !.tick = tick]]

\* mutate_jobs_and_persist: rewrite the rows, persist, restore the rows when
\* the persist fails.  The tick is derived here and published later.
MutateJobsAndPersist(c, newJobs, ok) ==
    /\ Save(ok, newJobs, paused)
    /\ jobs' = RestoredOnFailure(ok, newJobs, jobs)
    /\ IF ok THEN Then(c, "publish", FALSE, DeriveTick(newJobs))
             ELSE rpc' = [rpc EXCEPT ![c] = NoCall]
    /\ RpcStep
    /\ UNCHANGED <<paused, flagVars, published>>

\* A submit resolves its library first, without the queue mutex.
SubmitResolve(c, lib) ==
    /\ Issue(c)
    /\ lib \in mounted
    /\ rpc' = [rpc EXCEPT ![c] = [NoCall EXCEPT !.pc = "resolved", !.lib = lib]]
    /\ RpcStep
    /\ UNCHANGED <<docVars, flagVars, published>>

\* enqueue_against: the library is confirmed again under the queue mutex.
SubmitEnqueue(c, n, prio, ok) ==
    /\ rpc[c].pc = "resolved"
    /\ rpc[c].lib \in mounted
    /\ Len(jobs) + n <= MaxJobs
    /\ MutateJobsAndPersist(c, EnqueueFiles(jobs, n, rpc[c].lib, prio), ok)
    /\ UNCHANGED requests

SubmitRefused(c) ==
    /\ rpc[c].pc = "resolved"
    /\ rpc[c].lib \notin mounted
    /\ rpc' = [rpc EXCEPT ![c] = NoCall]
    /\ RpcStep
    /\ UNCHANGED <<docVars, flagVars, published, requests>>

\* ingest.cancel: a pending or a running row.
Cancel(c, i, ok) ==
    /\ Issue(c)
    /\ Live(jobs[i])
    /\ MutateJobsAndPersist(c, CancelMatching(jobs, i), ok)

\* queue.clear: every pending row.
Clear(c, ok) ==
    /\ Issue(c)
    /\ MutateJobsAndPersist(c, CancelAllPending(jobs), ok)

\* queue.retry by state.
RetryState(c, wanted, ok) ==
    /\ Issue(c)
    /\ wanted \in RETRYABLE_STATES
    /\ MutateJobsAndPersist(c, RetryByState(jobs, wanted, mounted), ok)

\* queue.retry by job id.
RetryJob(c, i, ok) ==
    /\ Issue(c)
    /\ jobs[i].state \in RETRYABLE_STATES
    /\ jobs[i].library \in mounted
    /\ MutateJobsAndPersist(c, RetryOne(jobs, i), ok)

\* queue.pause and queue.resume under the mutex: persist, restore on failure.
ApplyPause(c, flag, ok) ==
    /\ Issue(c)
    /\ Save(ok, jobs, flag)
    /\ paused' = RestoredOnFailure(ok, flag, paused)
    /\ IF ok THEN Then(c, "store", flag, DeriveTick(jobs)) ELSE UNCHANGED rpc
    /\ RpcStep
    /\ UNCHANGED <<jobs, flagVars, published>>

\* The rest of it, after the mutex is released.
StorePausedFlag(c) ==
    /\ rpc[c].pc = "store"
    /\ pausedFlag' = rpc[c].flag
    /\ Then(c, IF rpc[c].flag THEN "publish" ELSE "undegrade", FALSE, rpc[c].tick)
    /\ RpcStep
    /\ UNCHANGED <<docVars, degraded, published, requests>>

\* Mutant: a resume leaves the degraded cause set.
KeepFailurePause(c) ==
    /\ rpc[c].pc = "undegrade"
    /\ Then(c, "publish", FALSE, rpc[c].tick)
    /\ RpcStep
    /\ UNCHANGED <<docVars, flagVars, published, requests>>

ClearFailurePause(c) ==
    /\ rpc[c].pc = "undegrade"
    /\ degraded' = FALSE
    /\ Then(c, "publish", FALSE, rpc[c].tick)
    /\ RpcStep
    /\ UNCHANGED <<docVars, pausedFlag, published, requests>>

\* Every request that rewrote the document publishes its tick last.
PublishTick(c) ==
    /\ rpc[c].pc = "publish"
    /\ published' = rpc[c].tick
    /\ rpc' = [rpc EXCEPT ![c] = NoCall]
    /\ RpcStep
    /\ UNCHANGED <<docVars, flagVars, requests>>

-----------------------------------------------------------------------------
(* Library requests, as far as the queue sees them.                        *)

LibraryStep == UNCHANGED <<docVars, flagVars, procVars, primary, worker, rpc,
                           published, requests>>

Mount(lib) ==
    /\ up
    /\ lib \notin mounted
    /\ mounted' = mounted \cup {lib}
    /\ LibraryStep

\* The queued rows are counted and the library removed under one hold of
\* the queue mutex.
Unmount(lib) ==
    /\ up
    /\ lib \in mounted
    /\ lib # primary
    /\ mounted # {lib}
    /\ QueuedAgainst(jobs, lib) = {}
    /\ mounted' = mounted \ {lib}
    /\ LibraryStep

-----------------------------------------------------------------------------

Lifecycle ==
    \/ \E served, skipped \in SUBSET Library, name \in Library, ok \in SaveResult :
           BringUp(served, skipped, name, ok)
    \/ InitiateShutdown
    \/ Exit

WorkerNext ==
    \/ \E ok \in SaveResult : WorkerRecover(ok)
    \/ WorkerShutdown
    \/ WorkerWake
    \/ WorkerFindNothing
    \/ \E i \in DOMAIN jobs, ok \in SaveResult : WorkerPull(i, ok)
    \/ RunnerStart
    \/ \E result \in Outcome, process \in BOOLEAN : RunnerReturn(result, process)
    \/ \E ok \in SaveResult : WorkerRecord(ok)

RpcNext(c) ==
    \/ \E lib \in Library : SubmitResolve(c, lib)
    \/ \E n \in 1..MaxJobs, prio \in SubmitPriorities, ok \in SaveResult :
           SubmitEnqueue(c, n, prio, ok)
    \/ SubmitRefused(c)
    \/ \E i \in DOMAIN jobs, ok \in SaveResult : Cancel(c, i, ok) \/ RetryJob(c, i, ok)
    \/ \E ok \in SaveResult : Clear(c, ok)
    \/ \E wanted \in RETRYABLE_STATES, ok \in SaveResult : RetryState(c, wanted, ok)
    \/ \E flag \in BOOLEAN, ok \in SaveResult : ApplyPause(c, flag, ok)
    \/ StorePausedFlag(c)
    \/ ClearFailurePause(c)
    \/ PublishTick(c)

LibraryNext == \E lib \in Library : Mount(lib) \/ Unmount(lib)

Next ==
    \/ Lifecycle
    \/ WorkerNext
    \/ \E c \in Client : RpcNext(c)
    \/ LibraryNext

Spec == Init /\ [][Next]_vars

(* The executor keeps polling the worker task and every spawned handler;   *)
(* the runner returns.  Nothing obliges an operator to issue a request or  *)
(* to restart the daemon.  A select whose shutdown arm is ready does not   *)
(* wait for the sleep for ever, hence the strong fairness.                 *)
Fairness ==
    /\ WF_vars(WorkerNext)
    /\ SF_vars(WorkerShutdown)
    /\ \A c \in Client : WF_vars(StorePausedFlag(c) \/ ClearFailurePause(c) \/ PublishTick(c))

FairSpec == Spec /\ Fairness

-----------------------------------------------------------------------------
(* Invariants.                                                             *)

\* Every variable has its type.
TypeOK ==
    /\ up \in BOOLEAN
    /\ stopping \in BOOLEAN
    /\ mounted \subseteq Library
    /\ primary \in Library
    /\ jobs \in Seq(QueueJob)
    /\ paused \in BOOLEAN
    /\ pausedFlag \in BOOLEAN
    /\ degraded \in BOOLEAN
    /\ disk \in Document
    /\ worker \in Worker
    /\ rpc \in [Client -> Call]
    /\ published \in Tick
    /\ requests \in Nat
    /\ restarts \in Nat

\* Once crash recovery has run, a running row is the one the worker is busy
\* with: cancels and retries landing under a running job, failed saves and
\* restarts never leave a row running that nobody runs.
RunningRowIsTheWorkers ==
    worker.pc # "boot" =>
        \A i \in DOMAIN jobs : jobs[i].state = "running" => Busy /\ worker.job = i

\* A row never mixes two lives: whatever order cancels, retries, recoveries
\* and late outcomes hit it in, its timestamps and outcome fields are those
\* of the state it shows, in memory and on disk.
RowsConsistent ==
    /\ \A i \in DOMAIN jobs : RowConsistent(jobs[i])
    /\ \A i \in DOMAIN disk.jobs : RowConsistent(disk.jobs[i])

\* No row waits for, or runs against, a library the registry does not serve:
\* submit and retry look the library up under the mutex unmount counts under,
\* and bring-up fails the rows of the libraries it skipped.
NoStrandedRows ==
    \A i \in DOMAIN jobs : Live(jobs[i]) => jobs[i].library \in mounted

\* The ways a row's state on disk (d) may trail its state in memory (m).
Trails(d, m) ==
    \/ d = m
    \/ d = "pending"   /\ m \in Outcome \cup {"running"}
    \/ d = "running"   /\ m \in Outcome \cup {"pending"}
    \/ d = "cancelled" /\ m \in Outcome

\* Disk and memory hold the same rows, and they differ only by worker
\* transitions whose save failed: a submit, cancel, clear or retry is in both
\* or in neither, so one the client was told failed is never flushed later.
OnlyWorkerChangesAreUnsaved ==
    up => /\ Len(disk.jobs) = Len(jobs)
          /\ \A i \in DOMAIN jobs : Trails(disk.jobs[i].state, jobs[i].state)

\* The pause flag in memory is the one a restart would load.
PauseIsOnDisk == up => paused = disk.paused

\* A daemon that reports the failure pause has a paused queue, once no
\* resume is half done: the operator is never asked to acknowledge nothing.
DegradedMeansPaused ==
    degraded /\ (\A c \in Client : rpc[c].pc \notin {"store", "undegrade"}) => paused

-----------------------------------------------------------------------------
(* Action properties.                                                      *)

Pickup == worker.pc = "ready" /\ worker'.pc = "pulled"

\* No job starts while the document on disk says paused: the worker reads the
\* atomic before it takes the mutex, so the flag is checked again under it.
NoPickupWhilePaused == [][Pickup => ~disk.paused]_vars

\* A row returned to pending by queue.retry is picked up as a fresh
\* submission: it leaves pending for running or by a cancel, never for the
\* outcome of an earlier run.
PendingRowsAreRunOrCancelled ==
    [][up /\ up' => \A i \in DOMAIN jobs :
           jobs[i].state = "pending" =>
               jobs'[i].state \in {"pending", "running", "cancelled"}]_vars

-----------------------------------------------------------------------------
(* Liveness.                                                               *)

Waiting(i) == i \in DOMAIN jobs /\ jobs[i].state = "pending"

\* No two of pause and resume are between the mutex and the atomic at once.
PausesInTurn ==
    \A c, other \in Client : rpc[c].pc = "store" /\ rpc[other].pc = "store" => c = other

\* A waiting row is picked up or cancelled unless the queue is paused or the
\* daemon goes down: a resume, a failure pause, a cancel or a retry that lands
\* beside the worker does not stall it.  That takes pauses and resumes in
\* turn: two that persist in one order and store the atomic in the other
\* (apply_pause) leave the document resumed and the atomic set for good.  A
\* stalled row is then due to that atomic and to nothing else.
WaitingRowsMove ==
    \A i \in 1..MaxJobs :
        /\ []PausesInTurn => (Waiting(i) ~> (~Waiting(i) \/ paused \/ stopping \/ ~up))
        /\ Waiting(i) ~> (~Waiting(i) \/ paused \/ pausedFlag \/ stopping \/ ~up)

\* A shutdown reaches the worker however busy it is, so the daemon's wait for
\* it can end.
WorkerStops == stopping ~> (worker.pc = "exited" \/ ~up)

-----------------------------------------------------------------------------
(* Refinement.                                                             *)

\* What a row's state means to a client.
StatusOf(job) ==
    CASE job.state = "pending" -> "waiting"
      [] job.state = "running" -> "running"
      [] job.state \in RETRYABLE_STATES -> "open"
      [] OTHER -> "closed"

Ledger(rows) == [i \in DOMAIN rows |-> StatusOf(rows[i])]

\* A daemon that is down shows what a restart brings back.
Promised == INSTANCE QueueLedger
    WITH rows   <- IF up THEN Ledger(jobs) ELSE Ledger(disk.jobs),
         saved  <- Ledger(disk.jobs),
         shut   <- disk.paused,
         runner <- IF Busy THEN worker.job ELSE 0

\* The queue, with its failing saves, late outcomes and restarts, is the
\* ledger clients are promised: every step of it is a step of the ledger or
\* invisible there.
KeepsTheLedger == Promised!Spec
=============================================================================
