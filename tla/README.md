# Bookrack: the daemon, specified

TLA+ specifications of the Bookrack daemon and of those who talk to it: the
ingest queue under concurrent requests, failing writes, crashes and restarts;
the libraries it serves while they are mounted, unmounted, forked, re-pointed
and purged around it; the stores of one library and the passes that write them;
write sessions, plans and event streams; the reranker process it supervises; the
records that tell a run in flight from a dead one; and the client's end of the
control socket. Every definition is translated from the source lines that
`PROJECT.json` names for it under `map`.

## 1. The system

Bookrack turns a folder of books and papers into searchable libraries. One
long-lived daemon (`crates/runtime`) owns every mounted library; the command
line, the MCP endpoint and other clients reach it through a control socket. The
command line also edits the registry of libraries, and deletes libraries, on
its own, beside the daemon.

| Part | State it keeps | Operations | Who touches it |
|---|---|---|---|
| queue document (`core/src/queue.rs`, `runtime/src/queue.rs`) | rows with state, timestamps, priority, library; a pause flag; `queue.json` | enqueue, pull, apply outcome, cancel, retry, recover, pin, fail | worker, requests, bring-up |
| queue worker (`runtime/src/queue.rs`, `daemon.rs`) | the row it runs | recover once; poll, pull, run, record | one task per daemon |
| queue requests (`control/methods/queue_writes.rs`, `ingest.rs`) | the `queue_paused` atomic | submit, cancel, clear, retry, pause, resume | one task per connection |
| library registry (`ops/src/registry.rs`, `mount.rs`) | mounted map, record of the unserved, default pointer | mount, unmount, fork, set_default, routing | requests, bring-up, worker |
| registry file (`config/src/lib.rs`) | entries, default, on disk | upsert, remove, set default | daemon and command line |
| root locks (`session/src/lib.rs`) | a flock per data root, held by a library's handle | acquire, release on drop | daemon, purge |
| write session (`control/methods/mod.rs`) | the write mutex, MCP pause | one write at a time | write handlers |
| daemon state (`control/events.rs`) | degraded causes, writing, stopping | resolve, publish | handlers, worker, supervisor |
| plan registry (`control/plan_registry.rs`) | issued plans with an expiry | register, take | dry-run and redeem handlers |
| ingest and glean (`ingest`, `glean`) | catalog rows, corpus, vectors, stored files | ingest, reset, rebuild, reembed | runner |
| reranker supervisor (`rerank_supervisor.rs`) | the child, its backoff | spawn, probe, respawn | a background task |
| storage (`catalog`, `corpus`, `vectors`, `refs`, `dbkit`) | SQLite and vector files | row writes | pipelines |
| text (`extract`, `normalize`, `metadata`, `audit-profile`, `distill`) | none | sequential transformations | pipelines |
| reading (`search`, `query`, `rerank`, `embed`, `index-profile`, `mcp`) | none | queries | clients |
| control client (`control-client/src/lib.rs`) | pending map, subscription flag, reader task | call, subscribe, events | every front end |
| job wait (`cli/src/cmd/queue.rs`, `queue_wait.rs`) | jobs awaited, outcomes collected | attach, receive, reconcile | `queue wait`, `ingest --wait` |
| run records (`catalog`, `core/src/run_lock.rs`) | `running` rows, lock files | open, stamp, survey, close abandoned | commands, doctor, offline repair |
| front ends (`cli`, `cli-grammar`, `diagnose`, `obs`) | none of their own | calls and rendering, offline edits | users |

How the parts meet:

- *Worker, requests and queue.* The document sits behind one mutex. The worker
  polls the `queue_paused` atomic without it, then takes it to pull a row; the
  run itself, minutes long, happens outside. A request takes it, rewrites rows,
  saves, restores on a failed save, releases it, and only then stores the
  atomic, clears the degraded cause and publishes its tick.
- *Queue and registry.* A submit and a retry confirm their library under the
  queue mutex; an unmount counts a library's queued rows and removes it under
  the same hold. The runner resolves the library's handle when it starts.
- *Registry and locks.* Every read clones a library's handle, and the root's
  flock rides on that handle: an unmount takes the name out of the map, the
  last clone lets go of the root. `library.mount`, `.unmount` and `.fork` run
  one at a time under the write mutex; `library.set_default`, which may mount
  too, does not.
- *Daemon and command line.* They share the registry file (one lock per write,
  none over a read followed by a write) and the roots' flocks.

- *Pipelines and stores.* The queue worker's ingests hold their library's
  `ingest_lock`, the maintenance passes the daemon's write mutex: the two do not
  exclude each other. No transaction spans the catalog, the corpus, the vector
  store and the cached extractions.
- *Daemon and subscribers.* State changes are published to a bounded broadcast;
  each connection reads its receiver between requests, and a client that fell
  behind asks for a snapshot again. `queue wait` builds on that stream.
- *Daemon and its processes.* The supervisor owns the reranker server and leaves
  its pid in a file for the next daemon. Runs leave a lock file for the repair.

What makes each part correct, and what is hard about it:

| Part | Must hold | Hard because |
|---|---|---|
| document | a row shows one life, not two; the oldest high-priority waiting row goes first | a run's outcome arrives after cancels and retries |
| worker | a running row is its row; pauses are obeyed; waiting rows move; it stops on shutdown | polls without the mutex; its saves may fail and are only logged |
| requests | what they report refused is not done, what they report done is on disk | they go on after they release the mutex |
| registry | one table per name, one name per root, one reranker stage, something is always served, the default is what the file says | checks are awaited steps apart from the registration; `set_default` is outside the mutex |
| registry file | its default has an entry | two processes write it |
| root locks | a purge is alone on its root; a root comes free | handles outlive the map; the purge unlocks before it deletes |
| write session | mutex, MCP pause and writing state span exactly one write | dropped futures, panics |
| plan registry | a plan is redeemed once, by whom it was made for, in time | refusals must leave it |
| ingest | a crash between two stores is repaired by the next run | no common transaction |
| supervisor | one server; the child comes back; degraded is set and cleared | backoff racing shutdown; kills; reused pids |
| subscribers | what they believe is so | receiver, snapshot and events overlap; lags |
| job wait | each job is reported once, as it ended; the wait ends | unannounced ends, dropped events, a daemon that goes |
| control client | an answer reaches its own call; calls end | timeouts and late answers; the reader ends between two steps of a call |
| run records | a live run is never stamped; a dead one can be | probes take the lock they look at |

`PROJECT.json` lists every hazard at its line, with the properties that catch it.

## 2. Modules

```
QueueDocument <- JobQueue <- MCJobQueue         JobQueue INSTANCEs QueueLedger
                    ^
              JobQueueProofs

Libraries        <- MCLibraries, LibrariesProofs
Stores           <- MCStores, StoresProofs
WriteSessions    <- MCWriteSessions, WriteSessionsProofs
RerankSupervisor <- MCRerankSupervisor, RerankSupervisorProofs
RunRecords       <- MCRunRecords, RunRecordsProofs
JobWait          <- MCJobWait, JobWaitProofs
ControlClient    <- MCControlClient, ControlClientProofs
```

Each `...Proofs` module extends the model, each `MC...` module holds the small
instances of its constants. The modules meet in what one keeps of another:
`JobQueue` has the registry's names and the degraded cause; `Libraries` the
write mutex; `WriteSessions` the state the degraded causes resolve to, and its
event stream; `JobWait` as much of the worker as a waiting client can see;
`Stores` the two processes that write a library.

### The queue

**QueueDocument** has the rows and every pure rewrite of them, one operator per
function of `runtime/src/queue.rs` (`PullPending` for `pull_pending`,
`ApplyOutcome` for `apply_outcome`, ...). A path, an id, an audit profile and
the text of an error are gone; of a timestamp it keeps whether it is set; of an
error what kind it is. `RowConsistent` says which of these a row in a given
state may have.

**JobQueue** is the daemon around that document.

| Variable | In the code |
|---|---|
| `jobs`, `paused` | `QueueState` behind the queue mutex |
| `disk` | `queue.json`, replaced whole by `save_atomic` |
| `pausedFlag` | the `queue_paused` atomic |
| `degraded` | `DegradedCause::QueueFailurePause` |
| `mounted`, `primary` | the registry's names, `MethodContext::library_name` |
| `worker` | where `worker_loop` is, its row, the outcome it holds |
| `rpc` | what each connection's request still has to do |
| `published` | the last `queue.tick` |
| `up`, `stopping` | the process, the shutdown broadcast |

One hold of the mutex is one action. `WorkerRecover`, `WorkerWake`,
`WorkerPull`, `WorkerFindNothing`, `RunnerStart`, `RunnerReturn`,
`WorkerRecord` and `WorkerShutdown` are `worker_loop` and the runner closure of
`daemon.rs`; `SubmitResolve`/`SubmitEnqueue`/`SubmitRefused`, `Cancel`,
`Clear`, `RetryState`, `RetryJob`, `ApplyPause`, then `StorePausedFlag`,
`ClearFailurePause` and `PublishTick`, are the handlers; `Mount` and `Unmount`
the two library changes the queue sees; `BringUp`, `InitiateShutdown` and
`Exit` (a crash, or the end of a shutdown) the process. A save is free to fail
wherever the code handles a failing save.

**QueueLedger** is the abstract queue: a list of files, each waiting, running,
open (ended, may be retried) or closed; the list a restart brings back; whether
picking up is paused; and the one row being worked on. What a client asked for
is saved in the step that does it; what the runner did may be forgotten as a
whole. Its rows are `jobs` under `StatusOf`, its `saved` the rows of
`queue.json`, its `shut` the pause on disk, its `runner` the worker's row. Pulls
that fail to save, late outcomes, the atomic, ticks, libraries and the handlers'
tails are invisible in it. `KeepsTheLedger` is `Promised!Spec`.

### The libraries

**Libraries** is the registry, the file, the locks and the offline command line.

| Variable | In the code |
|---|---|
| `mounted` | `Sets::mounted`: a served name to whether its handle holds a lock |
| `unmounted`, `default` | `Sets::unmounted`, `LibraryRegistry::default` |
| `phase`, `candidates`, `primary` | bring-up: planned, not locked yet; up |
| `entries`, `diskDefault` | the registry file |
| `vacant` | data roots that are missing or empty |
| `writer` | who holds the write mutex |
| `call` | each connection's request: its step, the listing it took, the root lock no handle carries yet, the handle it keeps |
| `offline` | how far a purge is |

`Mounter::mount` is six actions, one per point at which other requests can get
in: `MountResolve`, `ClaimRoot`, `ListForAgreement`, `AgreeOnReranker`,
`LockRoot` (after an awaited preflight), `RegisterMount` (after an awaited
opening of the stores), and `MountRefused` at each. `SetDefault` goes on to
`PersistDefault` and `RefreshDefault`, `Fork` comes from `ForkValidate`,
`ForkCopy` and `ForkEnter` into the same mount, `Unmount` is `RemoveMount` then
`UnmountDone`, which drops the handle. A purge is `PurgeLock`, `PurgeForgets`,
`PurgeUnlocks`, `PurgeDeletes`. There is no variable for a flock: a root is
locked exactly while a handle, a mount in flight or a purge that took it lives
(`GuardsOf`, `PurgeHolds`).

Steps merged because nothing can tell them apart: a check and a set of the
pointer in `LibraryRegistry::set_default` (with the map's read lock taken
first, then released, an unmount in between gives the state an unmount just
after gives); the release of the write mutex with the last step of its call;
the taking of it with the first; the reads of `Mounter::unmount` with its
removal, which the write mutex separates from any other removal.

### The stores of one library

**Stores** spreads a book over the places that no transaction spans.

| Variable | In the code |
|---|---|
| `intake`, `issued` | the intake rows of the catalog; ids are never used twice |
| `progress` | `item_state`: stage, model, `embedded_at` |
| `tree` | the node tree of a partition in the corpus |
| `rows` | the chunk rows of a partition in the vector store |
| `envelope` | the cached extraction |
| `stamp` | `embed_model` among the corpus's index stamps |
| `version`, `model` | `EXTRACTOR_VERSION`, the model the index profile declares |
| `act` | what the queue worker and the holder of the write mutex are doing |

Every store write is one action. An ingest is `Extract`, then by what is on
file nothing, `Compare` and `Restamp`, or `Register`, `MarkExtracted`,
`DropTree`, `InsertTree`, `RecordParse`, `StampExtraction`, `StoreEnvelope`,
`RecordPath`, `PassMetadata` (or `HoldForMetadata`), `PlanChunks`, `Reconcile`,
`DeleteRows`, `AppendRows`, `Promote`, `RecordEmbed`, `StampIndex`. `metadata
advance`, `corpus rebuild`, `vectors reembed`, `vectors reset` with its resume,
and `remove` share these steps as the code shares the functions and add their
own. `Fail` ends a pass between any two writes, `Restart` the daemon, perhaps
with a newer extractor or another model. An `item_state` row whose write fails is
logged and the pass goes on (`SetState`); `LostStates` names the stages whose row
may be lost so. Contents are model values; two extractor versions may read a book
differently or the same.

### Sessions, plans and events

**WriteSessions** has `run_write_session`, the plan registry and the stream.

| Variable | In the code |
|---|---|
| `holder` | `write_lock` |
| `sources` | `StateSources` behind their lock: stopping, write, working, degraded causes |
| `call` | each connection's request, and whether the connection still waits |
| `plans`, `table`, `expired`, `redeemed` | what an id was issued for, `PlanRegistry`, its time to live, how often `take` gave it out |
| `inbox` | a follower's `broadcast::Receiver` |
| `view` | what the follower has been told, and where it is in its snapshot |
| `closing` | the shutdown broadcast |

A session is `Raise` (the write bit), `AnnouncePause`, `Perform` or `Preview`
and `Register` (or `Fail`: an error or a panic), `AnnounceChange`,
`AnnounceResume`, `Lower`, `Unlock`. It runs on a blocking thread, so
`Disconnect` takes its client away and nothing else. `Execute` is a `take`
followed, as a separate step, by the try for the mutex (`OpenWithPlan`).
`Resolve` folds the sources, and `UpdateSources` publishes the fold under their
lock, only when it changed. A receiver of capacity `Capacity` loses its oldest
event to a new one; `DeliverLag` is the marker, after which the snapshot is
taken again; `Close` ends the flush of a shutdown, which stops at a lag. `late`
in a view is a history: the pause was read after its end had been announced and
before the writing state was down.

### The reranker process

**RerankSupervisor** has `rerank_supervisor.rs` and the operating system.

| Variable | In the code |
|---|---|
| `daemon` | down, in `RerankSupervisor::start`, serving, stopping |
| `proc` | what runs under each pid: a server loading or ready, a zombie, a stranger, a namesake (a stranger that mentions `llama-server`) |
| `pidFile` | the orphan guard's file |
| `monitor` | the supervision task: its step, its child, the failed attempts |
| `state`, `degraded` | `SupervisorState`, `DegradedCause::RerankCrashloop` |
| `missed` | a history variable: the servers the orphan guard failed on |

`Start(looked)` reads the pid file and kills what it names if its command line
mentions `llama-server`; `looked` is FALSE where the file cannot be read or `ps`
does not answer, and the file goes even then. `RecordPid(ok)` may fail to write
it, which is a warning, and `RemovePidFile` to remove it, which is nothing.
`Spawn`, `RecordPid`, `BecomeReady`, `SpawnFails`, `AwaitFails`, `GiveUp` are
one bring-up; `NoticeExit`, `BackOff`, `Respawn` the outage;
`RequestShutdown`, `MonitorStops`, `StopChild`, `Down` the end. `Killed` is a
`SIGKILL` of the daemon anywhere in it, the write of the pid file included. `Load`, `Die` and
`Recycle` are the system's: a pid goes to another program.

### Runs and their records

**RunRecords** has the `pipeline_runs` rows and the lock files beside them. A
command opens a row (`OpenRow`), creates the file (`CreateRecord`), locks it
(`TryLock`), works, stamps the row (`CloseRow`), unlinks the file (`Unlink`) and
drops the handle (`Release`); a close that fails keeps the file (`GiveUp`). A
panic or a cancelled future drops the handle without a close (`Drop`): the record
takes the same two steps to its end (`Unlink`, `Release`) and the row stays
`running`. A file that cannot be removed stays, and nobody hears of it. A survey
(`List`, `ProbeOpen`, `ProbeLock`, `ProbeRelease`) belongs to the doctor, or to the repair, which must not run beside a daemon and then stamps
and discards what it found (`StampOne`, `DiscardOne`). `Die` takes the daemon
with every run it owns; `KillSurvey` a survey. `holder` is the flock on a run's
file, `owner` how far its command is, `recorded` a history variable.

### The client's end

**ControlClient** is one connection: callers that share a `ControlClient`, its
reader task and the daemon's `serve_connection`.

| Variable | In the code |
|---|---|
| `call` | where each call is: lock, check, register, write, wait, reclaim |
| `pending`, `slot` | the pending map; what each `oneshot` holds |
| `nextId` | `next_id` |
| `lock`, `subscribed` | the subscription's `tokio::Mutex` and the flag under it |
| `stream` | each caller's event receiver |
| `reader` | the reader task: running, ended, drained, gone |
| `toDaemon`, `toClient` | the socket |
| `daemon` | the daemon's end: serving, shut, gone; whether it streams; whether it owes a snapshot |

Each await lets another task in, so `Check`, `Register`, `Write`, then
`TakeAnswer` or `TimeOut` and `Reclaim` are actions of their own, as are the
reader's `ReadEnd` (the closed flag), `Drain` and `ReaderReturns` (the sender
of the events is dropped). `Serve` answers one request at a time, in order.

**JobWait** is `queue wait` and `ingest --wait`: `Subscribe`, `AskFor` or
`Submit`, `Answer` of the first `queue.list`, `Attach`, then `Receive`,
`ReconcileOnLag`, `Reconcile`, `TimePasses`, `Judge`, `Settle`, `Over` and
`Closed`. `row`, `paused`, `busy` and `up` are the daemon as a client can see
it; `inbox` is the stream on its way through both receivers, one queue that
drops its oldest event; `had` and `told` are history variables: the ends a row
had, and which were announced.

## 3. What the runs check

| Run | Instance | Shows | States |
|---|---|---|---|
| `QueueFailingSaves` | 2 libraries, 1 client, 2 rows, 3 requests, 1 restart, every save may fail, leftover rows of an earlier binary | a running row is the worker's; rows are consistent in memory and on disk; no row waits for an unserved library; only the worker's changes are ever unsaved; pauses are on disk; none starts while paused; `JobQueue` implements `QueueLedger` | 2,519,226 |
| `QueueLiveness` | 1 library, 1 row, 2 clients, 2 priorities, 4 requests, 1 restart, runs may end in a process-level failure, fairness | a waiting row is picked up, cancelled, or the queue is paused or going down, unless two pauses and resumes stored the flag in another order than they changed the document; a shutdown reaches the worker; the failure pause the daemon reports is a pause it has | 400,214 |
| `LibrariesServe` | 4 names on 3 roots (two share one), 2 clients, all requests, offline edits, 2 starts under either of two libraries | something is served and the file's default has an entry; one name per root | 1,381,587 |
| `LibrariesPurge` | 3 names of two reranker stages, 2 clients that read, mount and unmount, reads outliving unmounts, 2 offline commands, 2 starts, fairness | a purge that holds its lock shares the root with no live handle; mounts under the write mutex keep the served set on one stage; roots come free | 113,160 |
| `StoresPasses` | 2 books, one read differently by the second extractor, 2 models, 3 passes of all seven kinds, 2 restarts | what a re-ingest waves through is complete; a restamp is of the same book; an index holds one model's vectors; a removed book is gone | 1,099,373 |
| `WriteSessions` | 2 clients, 1 follower with a receiver of 2 events, 2 libraries, 2 plans, 3 requests, fairness | sessions exclude each other and the writing state spans them; a subscriber that is up to date knows the state, the pause and (but for one window) its end, the changes and the shutdown; plans are redeemed at most once and lost to nobody else; sessions end | 1,131,178 |
| `Reranker` | 3 pids, crash loop at the third of 4 attempts, 2 starts, failing pid files and `ps`, fairness | never two servers, and none forgotten but where the guard itself fails; the degraded cause follows the outage; strangers survive; a lost server comes back; a shutdown ends | 67,813 |
| `JobWait` | 2 jobs (queued, ended or still to be submitted), a stream of 2 events, 2 ticks to a stall, 1 request of another client, fairness | reported and awaited jobs add up; reported outcomes happened; an announced end is in the stream until it says it dropped something; a wait ends | 1,054,930 |
| `RunRecords` | 2 runs, 2 starts of the daemon, 2 surveys or killed surveys, fairness | no live run is stamped; recorded outcomes stand; a dead run's proof stays until it is closed; runs with a proof are closed; the exception to both is a handle dropped without a close | 541,688 |
| `ControlClient` | 2 callers, one without a timeout, 3 calls, 1 event, fairness | each answer reaches its call and no slot leaks; a subscription is what it says; calls end | 540,530 |

Two runs have a counterexample: the code does not do what its documentation
says. `PROJECT.json` quotes the sentences.

| Run | What happens |
|---|---|
| `QueueLateOutcome` | a run's outcome closes the row that a cancel and a retry returned to pending |
| `StoresRemoveRace` | a remove holds the write mutex, the worker's re-ingest does not: the ingest writes its tree after the remove has passed that store, and the intake row goes |

Every property of a passing run also has a mutant in `PROJECT.json`: one
definition of the code, changed as a bug would change it, that the run refutes.

### Other disagreements

These have no run of their own. Some are exceptions a property of a passing run
names; the models show the others with one constant or one fairness condition
changed.

*Queue.* A pause and a resume persist in one order and store the atomic in the
other, and the queue that reports itself running picks up nothing
(`queue_writes.rs:292`). `WaitingRowsMove` says exactly this much: a waiting row
moves while the stores come in the order of the changes (`PausesInTurn`), and in
any order as long as the atomic is down. A process failure whose save fails takes an operator's
persisted pause out of memory (`queue.rs:990`): `PauseIsOnDisk`,
`DegradedMeansPaused` and `KeepsTheLedger` fail with `SaveFailures` and
`ProcessFailures` both true. A request's tick overtaken by the worker's leaves
subscribers with an old view (`queue_writes.rs:243`). A daemon started on an
unregistered root keeps the waiting rows of libraries it will never mount
(`NoStrandedRows` with a `StartPlans` that is not the whole registry).

*Libraries.* Two `library.set_default` calls write the file and the pointer in
opposite orders (`control/methods/libraries.rs:167`). The mount inside
`set_default`, which takes no write mutex, brings a second reranker stage into
the served set (`mount.rs:355`). A mount that resolved earlier takes the root in
the gap between a purge's unlock and its delete (`libraries_local.rs:396`). A
fork that claims an absent default writes it to the file only. Where roots
cannot host a lock file (`Lockable = {}`), two names are served from one root. A
fork that fails after it created its target leaves a root nobody knows, and one
that succeeds overwrites an entry added meanwhile (`cmd/libraries.rs:146`,
`:255`). With `"fork"` among the requests of `LibrariesPurge`, `PurgeWorksAlone`
fails: a bring-up plans a library before a purge forgets it and mounts it after
the purge deleted its root, where the lock finds no directory to lie in and the
mount goes on without it; a fork of the same name fills the root again, and a
second purge takes its lock while the handle is served. Two operators break it
too: the first deletes after it gave up the lock, while the second holds it.

*Stores.* With `reset`, `rebuild` or `reembed` in `FaultyPasses`, `NoOpIsSound`
fails: a reset interrupted between dropping the table and demoting the books
(`reset.rs:75`), a rebuild between dropping a tree and inserting the next, a
reembed between deleting rows and appending them each leave a book that calls
itself embedded and is not complete, and a later ingest of it does nothing. A
reset interrupted after it cleared the stamps also lets a remove skip the rows
(`remove` opens the vector store with the stamped dimension), and lets another
model append to a table that was not dropped. `metadata advance` of a book that is
embedded already has the gap of a reembed, and one of a book whose tree was
never written promotes it (`CarefulAdvance` says operators do neither). An
envelope whose write failed and that could not be removed either stays on disk
(`EnvelopeFaults` with `"left"`), and a rebuild puts its older reading back
under the newer extractor stamp. A remove leaves the envelope of an ingest that stopped before it recorded its
path. With `"structure"` in `LostStates` and a fourth pass, `NoOpIsSound` fails:
a re-ingest whose first state row is lost goes on under the row of an earlier
run, a crash between its stamp and its envelope leaves that row vouching for the
older envelope, and a rebuild puts the older reading under the newer stamp. With
a third extractor that reads a book as the first did and the second did not,
`RestampIsSound` fails: the second one's ingest stops after the insert, an
advance or a resume completes the book, and the third finds its own reading in
the first one's envelope and restamps a tree of the second.

*Sessions.* A plan is taken before the mutex is tried, so BUSY burns it. A
follower that takes its snapshot between the announcement of a resume and the
lowering of the flag (`control/methods/mod.rs:656`) believes the endpoint paused
until the next session, where `socket.rs:297` says "the snapshot channels are
state-convergent". `ResumeIsHeard`, a part of `SubscribersKnow`, holds of every
other view, and names this one (`late`). A write that fails half way publishes no `library.changed`. The flush of a
shutdown stops at a lag.

*Reranker.* A server is lost where its guard fails: the daemon is killed between
the spawn and the write of the pid file (`rerank_supervisor.rs:711`), the write
fails and is only warned about (`:893`), or the next start cannot read the file
or gets no answer from `ps`, kills nothing and removes the file all the same
(`:918-926`, `:960-966`). "Better to kill and respawn a managed process too
eagerly than to leave two servers running" (`:905`) is the code's aim;
`ServersAreAccountedFor` names these cases (`missed`) and says that there are no
others. The name check is a search in the command line, so an operator's own
`llama-server`, or any program that mentions one, dies if it got the pid, where
`:907-909` says "a pid that was recycled by an unrelated program fails the name
check and is left alone"; `StrangersAreSpared` is about the programs that do not.

*Run records.* A run dropped without a close, by a panic or a cancelled future,
loses its record while its row says `running` (`run_lock.rs:126-133`), although
`run_lock.rs:70-72` says that every end but an orderly drop "leaves it behind";
the repair does not judge a row without a record, although a test says of it
"The repair, not the drop, is what resolves it"
(`pipeline_run_helpers.rs:166-169`). `UnclosedRunsAreProvable` and
`DeadRunsAreClosed` name this exception (`"dropped"`, `Lost`). A daemon that
comes up between the repair's check and its
listing (`Overlap`, `main.rs:329-335`) has a run stamped abandoned while it is
alive, and the outcome it recorded overwritten. A probe between a run's create
and its try for the lock costs the run its lock (`run_lock.rs:188-193`): the doctor
reports it abandoned while it runs, and its file outlives it.

*Client.* A call without a timeout that checked `closed` before the reader ended
and registered after the drain waits for ever if its write still succeeds, which
it may: the server shuts its write half before it drops the socket
(`socket.rs:348`). If it was a subscribe, it keeps the subscription's lock.
`CallsEnd` names this case (`Stranded`) and excludes it. The daemon serves a
connection one request at a time, so events reach it only between replies:
progress on a connection whose own request is running is not seen in flight.

### Bounds

Every bound is a constant named `Max...`, `Capacity` or `Stall` and appears in
guards only.

*JobQueue.* Two rows are needed, and enough, for one to run while another is
cancelled, retried or pulled next; three requests for cancel, retry and a pause
around one run; one restart for everything a crash leaves on disk. The handlers
run one at a time up to what they do after the mutex, so one client beside the
worker is enough for the safety properties. Two requests' tails can overtake each
other, so `QueueLiveness` has two clients; four requests are two pauses and two
resumes, and one row is enough to be stalled by them.
*Libraries.* Two clients make every pair of the handlers race, and no code path
there involves three connections. Four names on three roots give a served
library, one beside it, one aliasing its root and one to be forked.
*Stores.* Three passes are an ingest, what interrupts or follows it, and the
pass that meets what was left; two restarts let both the build and the model
change; two chunks let rows be partly there; the second book is what a mixed
index needs.
*WriteSessions.* Three requests are a dry run, its redemption and a competitor;
a receiver of two events overflows within one session, which publishes five.
*RerankSupervisor.* Three pids are a server, its successor and a stranger; two
starts are a daemon that leaves a server behind and one that finds it; four
attempts reach the crash loop and go past it.
*JobWait.* Two jobs end by different ways (an event, a reconcile); two events
are fewer than one job produces, so the stream drops. One foreign request can
cancel, retry or pause at each point of it.
*RunRecords.* Two runs let a survey hold one while another's row is opened or
its handle unwinds; two
starts let a daemon open runs beside what its predecessor left.
*ControlClient.* Three calls are a call that times out, the one whose answer
must not be taken for it, and one behind the subscription's lock.

What the bounds cut off, the theorems of section 5 cover for the properties they
name: they hold for any number of libraries, clients, rows, pids, runs, callers
and requests.

Deadlock is not checked: every bounded behaviour ends, and a stopped daemon may
stay stopped.

### Fairness

*JobQueue:* the executor keeps polling the worker (`WF` on its steps, which
include the runner's return: a run takes long, not for ever) and every handler
past its mutex (`WF` on what it does after). `worker_loop` sleeps in a `select!`
with the shutdown receiver; a ready arm is taken sooner or later however often
the sleep comes first, hence `SF` on `WorkerShutdown`. Nothing obliges a client
to send a request or an operator to restart.

*Libraries:* `WF` on the steps of each call in flight (a handler, once spawned,
runs to its end). None on bring-up, exits, requests or offline commands.

*WriteSessions:* `WF` on the steps of a session, which has its own thread.

*RerankSupervisor:* `WF` on the task, whose every wait has a deadline, and `SF`
on its shutdown arm, a `select!` again. `ServerComesBack` needs more than the
code can give: that a server spawned again and again is spawned, recorded before
it dies, and loads in time. These `SF` conditions are kept apart as `Hope`;
`ShutdownEnds` does not need them.

*JobWait:* `WF` on the worker, the wait's request, its loop and its clock.
*RunRecords:* `WF` on a repair that is started again whenever none runs and no
daemon is up, and on surveys; `SF` on a row's update, which can fail a number of
times but not for ever. *ControlClient:* `WF` on the reader, on each call past
the subscription's lock and on the daemon's replies, and on the end of a
connection whose write half is shut; `SF` on entering the lock, because a tokio
mutex is first in, first out. A call with a timeout is given it by the weak
fairness of its own steps; nothing makes the daemon shut or die.

## 4. What is left out

- *Queue:* file paths and ids, audit profiles, the wording of errors, corruption
  and migration of `queue.json` (a load is a load), progress events.
- *Libraries:* starts on an unregistered path (`JobQueue` has them), the fields
  of an entry, uuid clashes and re-pointing, hand edits of the file, the walk of
  an orderly shutdown (one step with the exit). A refused unmount may always
  happen here; that queued work refuses it, and that it must, is `JobQueue`'s
  `NoStrandedRows`. Preflight and opening may always refuse a mount. A purge's
  delete is one step. `OneNamePerRoot` is checked and proved where roots can
  host a lock and no purge runs; a root purged while it is served can no longer
  be locked either. `PurgeWorksAlone` is checked without forks, which would give
  a purged root a new lock file that the model does not tell from the old one.
- *Stores:* OCR intakes, papers (`glean` has the same order of writes over
  stores of its own), the vector index builds, audits, node ids and spans. A
  book's content is the whole of its tree. Two passes overlap only in the run
  about that (`Overlap`); the passing run lets crashes fall into ingests,
  advances, resumes and removes, for the reasons of section 3.
- *WriteSessions:* what a session writes. A plan's expiry keeps the order of
  issue; a clock is not modelled.
- *RerankSupervisor:* ports, health probes, log forwarding, Windows, a
  configuration without a pid file. The look at a pid's name and the kill of it
  are one step. A write of the pid file that is cut short leaves it empty, not
  with part of the number.
- *RunRecords:* a record that is there and cannot be read (the survey says so and
  the repair leaves it), and catalogs that do not open.
- *JobWait:* the server's and the client's receiver are one lossy queue; the
  daemon serves or is gone, and an orderly stop is a going; `done` stands for
  every state a row cannot be retried from.
- *ControlClient:* a caller never drops a call's future and keeps the client (no
  consumer does), framing, discovery and the transports; the capacity of the
  event receivers is `WriteSessions`' and `JobWait`'s.
- The components listed as `not_modelled` in `PROJECT.json`: sequential text
  processing, storage engines, search, configuration and rendering have no
  interleavings and no protocol. They are most of the repository's lines.

## 5. What is proved

All theorems are checked by TLAPS and hold for every value of the constants the
named assumptions allow (`...Assumption` in each module): they state types, that
a plan of names is not empty, that a bound is a number, that `NoClient` is not a
client, that `JobWait`'s jobs are finitely many.

| Theorem | States | Beyond the assumptions |
|---|---|---|
| `JobQueueProofs!TypeCorrect` | `TypeOK` | |
| `RunningRowsAreTheWorkers` | `RunningRowIsTheWorkers` | |
| `RowsStayConsistent` | `RowsConsistent` | |
| `NoRowIsStranded` | `NoStrandedRows` | every bring-up plans the whole registry |
| `PauseStaysOnDisk`, `PausedQueuesStartNothing`, `DegradedQueuesArePaused` | `PauseIsOnDisk`, `NoPickupWhilePaused`, `DegradedMeansPaused` | failing saves and process failures do not occur together |
| `QueueImplementsLedger` | `KeepsTheLedger` | the same |
| `UnsavedChangesAreTheWorkers` | `OnlyWorkerChangesAreUnsaved` | |
| `LibrariesProofs!TypeCorrect` | `TypeOK` | |
| `TablesAreDisjoint` | `NameInOneTable` | |
| `RegistryAlwaysStands` | `RegistryStands` | |
| `OneRootOneName` | `OneNamePerRoot` | every root can be locked, nothing is purged |
| `OneReranker` | `ServedSetAgrees` | no `library.set_default` |
| `PurgesWorkAlone` | `PurgeWorksAlone` | no forks, one operator |
| `StoresProofs!TypeCorrect` | `TypeOK` | |
| `IndexNeverMixes` | `IndexIsNeverMixed` | `SafeResets`: there are no resets, or they run alone and are not interrupted |
| `RemovedBooksAreGone` | `RemovedLeavesNothing` | `SafeResets`, and no session runs beside an ingest |
| `NoOpsAreSound`, `RestampsAreSound` | `NoOpIsSound`, `RestampIsSound` | `CarefulUse` |
| `WriteSessionsProofs!TypeCorrect` | `TypeOK` | |
| `SessionsExclude` | `SessionsAreExclusive` | |
| `PlansKeepTheirPromise` | `PlansAreKept` | |
| `SubscribersAreTold` | `SubscribersKnow` | |
| `RerankSupervisorProofs!TypeCorrect` | `TypeOK` | |
| `NoServerIsLost` | `ServersAreAccountedFor` | |
| `StrangersSurvive` | `StrangersAreSpared` | |
| `OutagesAreReported` | `DegradedTracksTheOutage` | |
| `RunRecordsProofs!TypeCorrect` | `TypeOK` | |
| `UnclosedRunsKeepTheirRecord` | `UnclosedRunsAreProvable` | |
| `LiveRunsAreSpared`, `OutcomesAreKept` | `LiveRunsAreLeftAlone`, `OutcomesStand` | no daemon comes up beside a repair |
| `JobWaitProofs!TypeCorrect` | `TypeOK` | |
| `ReportsSplitTheJobs` | `ReportsAddUp` | |
| `NothingIsMadeUp` | `ReportsAreTrue` | |
| `NoAnnouncedEndIsMissed` | `EndsAreInTheStream` | |
| `ControlClientProofs!TypeCorrect` | `TypeOK` | |
| `AnswersReachTheirCalls` | `CallsAreMatched` | |
| `SubscriptionsHold` | `SubscriptionHolds` | |

The extra hypotheses are the ones the disagreements of section 3 refute the
properties without. A type invariant that is proved is in no run. `CarefulUse`
puts the hypotheses of `NoOpIsSound` in one place: no session runs beside an
ingest, only held books are advanced, an envelope that could not be written is
removed, the state row a parse leaves is written, no reset, rebuild or reembed is
interrupted, and no extractor returns to a reading that a later one had left. The
run `StoresPasses` is an instance of it.

*The queue.* the first part of `JobQueueProofs` states once what each rewrite of the
document does to a row (its length, which rows it touches, which state it leaves).
`RunningRowIsTheWorkers` and `RowsConsistent` are inductive together with the
types: each proof is one step per action, most of which follow from those
lemmas. `NoStrandedRows` is inductive because every action that makes a row live
confirms its library in the same hold of the mutex. The pause needs `PauseInv`,
which also says what a worker about to record a process failure may find on
disk; `DegradedInv` lets the cause outlive the pause only while a resume that
will clear it is under way. The refinement maps each
action to one of the ledger's and adds `LedgerInv`: calls are under way only
while the daemon is up, and the row the worker is busy with is never a closed
one, since requests under it cancel it and queue it again but only its own
result closes it. `TrailInv` says which states memory and disk may have for a
row, and needs no hypothesis.

*The libraries.* A client's step can only do one of three things to the map:
nothing, take in the library its call built, or let go of one that is neither
the primary nor the last (`MapMove`, lemma `ClientMoves`). `RegistryInv` adds to
the properties that outside a running daemon nothing is served and no call is
under way, and that a candidate is not yet recorded as unserved, without which
bring-up could put a name in both tables. `OneNamePerRoot` is not inductive: the
check in `ClaimRoot` says nothing about the moment of the registration.
`LockInv` is: a served name's handle holds its root's lock, a call holds one
exactly between `LockRoot` and `RegisterMount`, no two of these are on one root,
and every root about to be locked is there to be locked. `ServedSetAgrees`
lives on the write mutex: `AgreeInv` says that a call past its first step holds it,
that the listing it compares with still contains every served library, and that
from the comparison on the stage it will bring is the served one's. `PurgeInv`
says that every handle, in the map, in a call or kept by a reader, has its lock
where the root can host one, so the purge that holds a root's lock meets none.

*Sessions and plans.* `SessionInv` ties the holder of the mutex to the one call
past it and the write bit to the steps between `Raise` and `Lower`. `PlanInv`
says that ids are issued in order and that a plan in the table has not been
redeemed. For `SubscribersKnow`, `KnowInv` looks at one channel at a time: the
last state event a receiver holds is the present state, and a follower past that
snapshot with none waiting has been told it; the same for the pause while a
session lasts, and for its end from the announcement on, unless the snapshot was
read between that and the lowered state; a library whose change the follower has not heard of is being
changed or its event waits; a stream that ended holds nothing back. A lag excuses
each of them, and a push that drops an event sets it (`PushedShape`).

*The stores.* `Types` says for each pass and step which fields of its state are
set. `IndexInv` ties the stamp to the rows: every row is of the stamped model
except while a reset has cleared the stamp and not yet dropped the table, and a
pass that appends does so under the stamped model. `RemoveInv` says which stores a
removal has emptied at each of its steps, and that every other pass works on a
book whose intake row stands. `SoundInv` takes the most: `Filed` and `Whole` say
of each book its state row vouches for how its stamp, envelope, tree and rows
belong together, and `IngestInv`, `MaintenanceInv` and `EmbedInv` what each pass
has made of the book it has in hand. A tree may be the reading of any extractor
since the one that stamped the book, which is where the hypothesis on readings
comes from.

*The reranker.* `TaskInv` says what the supervision task may be doing in each
state of the daemon. `ServersAreAccountedFor` is inductive with it and the
rest of `ServerInv`: a child past its recording is the one in the pid file or a missed one, and a spawn
starts when nothing runs but what was missed. `missed` grows only in the three
steps where the guard fails, and a server leaves it when it is stopped or its pid
starts another.

*Run records.* `RecordInv` says that a recorded run keeps its file while its row
says running, whoever of its owner and the repair is at work on it, until a drop
without a close has unlinked it.
`RepairInv` says that what a repair has in hand (`InHand`) has no living owner
and has not recorded how it ended, which holds when it lists the rows because no
daemon is up then.

*The wait.* `AddUpInv` keeps the report injective on jobs and equal to what is
covered and no longer awaited; a listing and an event each move jobs from one
side to the other (`SettledAddsUp`, `AppendedAddsUp`). `TrueInv` says that
a row had every end that is told anywhere on its way to the report: the daemon's
rows while the wait is subscribed, the listing in its hands, the events in the
receiver, the report.
`StreamInv` says that a listing being judged, and the jobs it left awaited, lack
only ends the stream still holds unless it has said that it lagged;
`PushedShape` is what a receiver keeps.

*The client.* `Matched` (with `Types`) says where a request can be: in the
caller, on the wire, in the daemon's answer or in the slot, under one id and one
serial. `Numbered` adds that an id is used once and that what is on the wire
agrees with its caller on what was asked. `SubscriptionHolds` needs four more:
`Ended` (once a receiver saw the end, the reader is gone, and no later call gets
past the check), `Listening` (a call that subscribes has an open receiver, and
the reader reads as long as the daemon serves), `Promised` (an accepted
subscribe, on the wire or in its slot, means that the daemon streams and that
its snapshot is owed, on the wire or heard) and `Told`, which keeps that from
the answer on.

*Only model-checked:* the liveness properties (`WaitingRowsMove`, `WorkerStops`,
`RootsComeFree`, `SessionsEnd`, `ServerComesBack`, `ShutdownEnds`, `WaitsEnd`,
`DeadRunsAreClosed`, `CallsEnd`): the prover has no rules for fairness and
`ENABLED`. Every invariant and every action property of a passing run is a
theorem. Induction over data and `RECURSIVE` operators are out of the prover's
reach, so the modules it works on write their counts and choices with sets,
filters, least elements and subsequences.

## 6. Plan

Done: `QueueDocument`, `JobQueue`, `QueueLedger`, `Libraries`, `Stores`,
`WriteSessions` with the plan registry, `RerankSupervisor`, `JobWait`,
`RunRecords`, `ControlClient`, and the proofs of section 5. Left, most important
first:

1. `Glean` beside `Stores`, with the papers' stores.
2. The registry file's entries as records, for a fork that overwrites an entry
   added meanwhile, and for re-pointing.
3. Abstract specifications beside `QueueLedger`: served libraries as a set with
   exclusive roots that `Libraries` implements; calls and their answers for
   `ControlClient`; a run's life for `RunRecords`.
