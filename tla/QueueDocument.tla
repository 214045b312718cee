--------------------------- MODULE QueueDocument ---------------------------
(***************************************************************************)
(* The persistent queue document (crates/core/src/queue.rs) and the pure   *)
(* functions that rewrite it (crates/runtime/src/queue.rs).  A document is *)
(* a sequence of rows and a pause flag; rows are appended and rewritten in *)
(* place and never removed, so a row's position stands for its UUID.       *)
(*                                                                         *)
(* Timestamps are kept as "is set"; the three fields an outcome writes     *)
(* (error, problem, merged_into) are folded into `note`, since the code    *)
(* always writes them together.                                            *)
(***************************************************************************)
EXTENDS Naturals, Sequences, FiniteSets

CONSTANTS
    Library,    \* the library names a row can carry
    Unnamed     \* the empty `library` of a row written before the field

ASSUME UnnamedAssumption == Unnamed \notin Library

-----------------------------------------------------------------------------
(* Rows.                                                                   *)

Priority == {"low", "normal", "high"}

JobState == {"pending", "running", "done", "skipped_duplicate",
             "needs_ocr", "failed", "cancelled"}

Note == {"none", "error", "merged"}

QueueJob ==
    [library  : Library \cup {Unnamed},
     priority : Priority,
     state    : JobState,
     started  : BOOLEAN,    \* started_at is set
     finished : BOOLEAN,    \* finished_at is set
     note     : Note]       \* error and problem, or merged_into, or neither

\* What the runner may report, as the state apply_outcome writes.
Outcome == {"done", "skipped_duplicate", "needs_ocr", "failed"}

NoteOf(outcome) ==
    CASE outcome = "done"   -> "none"
      [] outcome = "failed" -> "error"
      [] OTHER              -> "merged"

\* What a state says about the other columns of its row.
RowConsistent(job) ==
    /\ job.state = "pending"   => ~job.started /\ ~job.finished /\ job.note = "none"
    /\ job.state = "running"   => job.started /\ ~job.finished /\ job.note = "none"
    /\ job.state = "cancelled" => job.finished /\ job.note = "none"
    /\ job.state \in Outcome   => job.finished /\ job.note = NoteOf(job.state)

RETRYABLE_STATES == {"failed", "needs_ocr", "cancelled"}

Live(job) == job.state \in {"pending", "running"}

\* A freshly submitted row.
NewJob(lib, prio) ==
    [library |-> lib, priority |-> prio, state |-> "pending",
     started |-> FALSE, finished |-> FALSE, note |-> "none"]

-----------------------------------------------------------------------------
(* Rewrites of one row.                                                    *)

\* apply_outcome does not look at the state the row is in.
WithOutcome(job, outcome) ==
    [job EXCEPT !.state = outcome, !.finished = TRUE, !.note = NoteOf(outcome)]

Started(job)   == [job EXCEPT !.state = "running", !.started = TRUE]
Cancelled(job) == [job EXCEPT !.state = "cancelled", !.finished = TRUE]

\* Mutant: a retry flips the state and leaves what the last run wrote.
FlipForRetry(job) == [job EXCEPT !.state = "pending"]

\* The five fields a run writes are cleared.
ResetForRetry(job) ==
    [job EXCEPT !.state = "pending", !.started = FALSE,
                !.finished = FALSE, !.note = "none"]

-----------------------------------------------------------------------------
(* Rewrites of the document.                                               *)

\* Every row of `jobs` that satisfies P, rewritten by F.
MapWhere(jobs, P(_), F(_)) ==
    [i \in DOMAIN jobs |-> IF P(jobs[i]) THEN F(jobs[i]) ELSE jobs[i]]

ApplyOutcome(jobs, i, outcome) ==
    [jobs EXCEPT ![i] = WithOutcome(@, outcome)]

EnqueueFiles(jobs, n, lib, prio) ==
    jobs \o [k \in 1..n |-> NewJob(lib, prio)]

\* Mutant: rows left running stay so.
NoRecovery(jobs) == jobs

\* Rows left running by a session that did not complete.
CrashRecoveryReset(jobs) ==
    LET WasRunning(job) == job.state = "running"
        Reset(job)      == [job EXCEPT !.state = "pending", !.started = FALSE]
    IN  MapWhere(jobs, WasRunning, Reset)

\* Rows that can still run and name no library are pinned to `target`.
PinUnnamedJobs(jobs, target) ==
    LET Runnable(job) == /\ job.library = Unnamed
                         /\ Live(job) \/ job.state \in RETRYABLE_STATES
        Pin(job)      == [job EXCEPT !.library = target]
    IN  MapWhere(jobs, Runnable, Pin)

\* Live rows against the libraries in `skipped` are failed.
FailJobsAgainst(jobs, skipped) ==
    LET Stuck(job) == Live(job) /\ job.library \in skipped
        Fail(job)  == WithOutcome(job, "failed")
    IN  MapWhere(jobs, Stuck, Fail)

CancelMatching(jobs, i) == [jobs EXCEPT ![i] = Cancelled(@)]

CancelAllPending(jobs) ==
    LET Waiting(job) == job.state = "pending"
    IN  MapWhere(jobs, Waiting, Cancelled)

\* A state selection flips the rows whose library is mounted and holds the
\* others; the caller has checked that `wanted` is retryable.
RetryByState(jobs, wanted, mounted) ==
    LET Selected(job) == job.state = wanted /\ job.library \in mounted
    IN  MapWhere(jobs, Selected, ResetForRetry)

RetryOne(jobs, i) == [jobs EXCEPT ![i] = ResetForRetry(@)]

-----------------------------------------------------------------------------
(* Reads of the document.                                                  *)

Rank(prio) == CASE prio = "low" -> 0 [] prio = "normal" -> 1 [] prio = "high" -> 2

PendingAt(jobs) == {i \in DOMAIN jobs : jobs[i].state = "pending"}

Before(jobs, i, j) ==
    \/ Rank(jobs[i].priority) > Rank(jobs[j].priority)
    \/ Rank(jobs[i].priority) = Rank(jobs[j].priority) /\ i <= j

\* Mutant: the document's pause flag is not looked at.
PullChoiceUnpaused(jobs, isPaused) ==
    {i \in PendingAt(jobs) : \A j \in PendingAt(jobs) : Before(jobs, i, j)}

\* Mutant: the scan leaves a priority out.
PullChoiceHighOnly(jobs, isPaused) ==
    IF isPaused THEN {}
    ELSE {i \in PendingAt(jobs) : /\ jobs[i].priority = "high"
                                  /\ \A j \in PendingAt(jobs) : Before(jobs, i, j)}

\* The row pull_pending takes, if any: none while the document is paused,
\* else the highest priority first and insertion order within one.
PullChoice(jobs, isPaused) ==
    IF isPaused THEN {}
    ELSE {i \in PendingAt(jobs) : \A j \in PendingAt(jobs) : Before(jobs, i, j)}

PullPending(jobs, i) == [jobs EXCEPT ![i] = Started(@)]

\* Mutant: only the running rows are counted.
RunningAgainst(jobs, lib) ==
    {i \in DOMAIN jobs : jobs[i].state = "running" /\ jobs[i].library = lib}

QueuedAgainst(jobs, lib) ==
    {i \in DOMAIN jobs : Live(jobs[i]) /\ jobs[i].library = lib}

\* The queue.tick payload; `current` is the first running row, 0 for none.
DeriveTick(jobs) ==
    LET running == {i \in DOMAIN jobs : jobs[i].state = "running"}
    IN  [current |-> IF running = {} THEN 0
                     ELSE CHOOSE i \in running : \A j \in running : i <= j,
         pending |-> Cardinality(PendingAt(jobs)),
         running |-> Cardinality(running)]
=============================================================================
