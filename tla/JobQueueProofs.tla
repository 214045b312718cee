--------------------------- MODULE JobQueueProofs ---------------------------
(***************************************************************************)
(* Theorems about JobQueue for every set of libraries and clients, every   *)
(* document and every bound; among them that it implements QueueLedger.    *)
(***************************************************************************)
EXTENDS JobQueue, SequenceTheorems, FiniteSetTheorems, WellFoundedInduction, TLAPS

-----------------------------------------------------------------------------
(* What the rewrites of the queue document return, for every document: the *)
(* same rows in the same places, each either as it was or rewritten as the *)
(* code rewrites it.  The proofs about the state machine cite these lemmas *)
(* and never open the definitions of the rewrites.                         *)

\* A function over the positions of a document, with rows for values, is a
\* document with the same positions.
LEMMA MappedDocument ==
    ASSUME NEW js \in Seq(QueueJob), NEW out \in [DOMAIN js -> QueueJob]
    PROVE  /\ out \in Seq(QueueJob)
           /\ DOMAIN out = DOMAIN js
           /\ Len(out) = Len(js)
<1>1. DOMAIN js = 1..Len(js) /\ Len(js) \in Nat
    BY LenProperties
<1>2. out \in Seq(QueueJob)
    BY <1>1, SeqDef
<1>3. DOMAIN out = DOMAIN js
    OBVIOUS
<1>4. Len(out) = Len(js)
    BY <1>1, <1>2, <1>3, LenProperties
<1> QED
    BY <1>2, <1>3, <1>4

\* The rows of a document are rows.
LEMMA RowType ==
    ASSUME NEW js \in Seq(QueueJob), NEW i \in DOMAIN js
    PROVE  js[i] \in QueueJob
BY LenProperties, ElementOfSeq

\* The rewrites of one row return a row (crates/runtime/src/queue.rs).
LEMMA RowRewrites ==
    ASSUME NEW job \in QueueJob
    PROVE  /\ \A outcome \in Outcome : WithOutcome(job, outcome) \in QueueJob
           /\ Started(job) \in QueueJob
           /\ Cancelled(job) \in QueueJob
           /\ ResetForRetry(job) \in QueueJob
BY DEF QueueJob, JobState, Note, Outcome, NoteOf, WithOutcome, Started,
       Cancelled, ResetForRetry

\* The state a rewrite of one row leaves, and that it keeps the library.
LEMMA RewrittenState ==
    ASSUME NEW job \in QueueJob
    PROVE  /\ \A outcome \in Outcome :
                  /\ WithOutcome(job, outcome).state = outcome
                  /\ WithOutcome(job, outcome).library = job.library
           /\ Started(job).state = "running" /\ Started(job).library = job.library
           /\ Cancelled(job).state = "cancelled" /\ Cancelled(job).library = job.library
           /\ ResetForRetry(job).state = "pending"
           /\ ResetForRetry(job).library = job.library
BY DEF QueueJob, WithOutcome, Started, Cancelled, ResetForRetry

\* A rewrite of one row leaves the columns its new state calls for.
LEMMA RewritesAreConsistent ==
    ASSUME NEW job \in QueueJob
    PROVE  /\ \A outcome \in Outcome : RowConsistent(WithOutcome(job, outcome))
           /\ RowConsistent(job) /\ job.state = "pending" => RowConsistent(Started(job))
           /\ RowConsistent(job) /\ Live(job) => RowConsistent(Cancelled(job))
           /\ RowConsistent(ResetForRetry(job))
BY DEF QueueJob, JobState, Outcome, NoteOf, RowConsistent, WithOutcome, Started,
       Cancelled, ResetForRetry, Live

-----------------------------------------------------------------------------

\* apply_outcome rewrites the row it is given and no other.
LEMMA ApplyOutcomeRows ==
    ASSUME NEW js \in Seq(QueueJob), NEW i \in DOMAIN js, NEW outcome \in Outcome
    PROVE  /\ ApplyOutcome(js, i, outcome) \in Seq(QueueJob)
           /\ DOMAIN ApplyOutcome(js, i, outcome) = DOMAIN js
           /\ Len(ApplyOutcome(js, i, outcome)) = Len(js)
           /\ \A j \in DOMAIN js :
                  ApplyOutcome(js, i, outcome)[j] =
                      IF j = i THEN WithOutcome(js[i], outcome) ELSE js[j]
<1>1. WithOutcome(js[i], outcome) \in QueueJob
    BY RowType, RowRewrites
<1>2. ApplyOutcome(js, i, outcome) = [js EXCEPT ![i] = WithOutcome(js[i], outcome)]
    BY DEF ApplyOutcome
<1> QED
    BY <1>1, <1>2, LenProperties, ExceptSeq

\* cancel_matching rewrites the row it is given and no other.
LEMMA CancelMatchingRows ==
    ASSUME NEW js \in Seq(QueueJob), NEW i \in DOMAIN js
    PROVE  /\ CancelMatching(js, i) \in Seq(QueueJob)
           /\ DOMAIN CancelMatching(js, i) = DOMAIN js
           /\ Len(CancelMatching(js, i)) = Len(js)
           /\ \A j \in DOMAIN js :
                  CancelMatching(js, i)[j] = IF j = i THEN Cancelled(js[i]) ELSE js[j]
<1>1. Cancelled(js[i]) \in QueueJob
    BY RowType, RowRewrites
<1>2. CancelMatching(js, i) = [js EXCEPT ![i] = Cancelled(js[i])]
    BY DEF CancelMatching
<1> QED
    BY <1>1, <1>2, LenProperties, ExceptSeq

\* A retry by id rewrites the row it is given and no other.
LEMMA RetryOneRows ==
    ASSUME NEW js \in Seq(QueueJob), NEW i \in DOMAIN js
    PROVE  /\ RetryOne(js, i) \in Seq(QueueJob)
           /\ DOMAIN RetryOne(js, i) = DOMAIN js
           /\ Len(RetryOne(js, i)) = Len(js)
           /\ \A j \in DOMAIN js :
                  RetryOne(js, i)[j] = IF j = i THEN ResetForRetry(js[i]) ELSE js[j]
<1>1. ResetForRetry(js[i]) \in QueueJob
    BY RowType, RowRewrites
<1>2. RetryOne(js, i) = [js EXCEPT ![i] = ResetForRetry(js[i])]
    BY DEF RetryOne
<1> QED
    BY <1>1, <1>2, LenProperties, ExceptSeq

\* pull_pending rewrites the row it picks and no other.
LEMMA PullPendingRows ==
    ASSUME NEW js \in Seq(QueueJob), NEW i \in DOMAIN js
    PROVE  /\ PullPending(js, i) \in Seq(QueueJob)
           /\ DOMAIN PullPending(js, i) = DOMAIN js
           /\ Len(PullPending(js, i)) = Len(js)
           /\ \A j \in DOMAIN js :
                  PullPending(js, i)[j] = IF j = i THEN Started(js[i]) ELSE js[j]
<1>1. Started(js[i]) \in QueueJob
    BY RowType, RowRewrites
<1>2. PullPending(js, i) = [js EXCEPT ![i] = Started(js[i])]
    BY DEF PullPending
<1> QED
    BY <1>1, <1>2, LenProperties, ExceptSeq

\* enqueue_files appends fresh rows and leaves the others alone.
LEMMA EnqueueFilesRows ==
    ASSUME NEW js \in Seq(QueueJob), NEW n \in Nat, NEW lib \in Library,
           NEW prio \in Priority
    PROVE  /\ EnqueueFiles(js, n, lib, prio) \in Seq(QueueJob)
           /\ Len(EnqueueFiles(js, n, lib, prio)) = Len(js) + n
           /\ DOMAIN js \subseteq DOMAIN EnqueueFiles(js, n, lib, prio)
           /\ \A i \in DOMAIN EnqueueFiles(js, n, lib, prio) :
                  EnqueueFiles(js, n, lib, prio)[i] =
                      IF i \in DOMAIN js THEN js[i] ELSE NewJob(lib, prio)
<1> DEFINE new == [k \in 1..n |-> NewJob(lib, prio)]
<1>1. NewJob(lib, prio) \in QueueJob
    BY DEF NewJob, QueueJob, JobState, Note
<1>2. new \in Seq(QueueJob) /\ Len(new) = n
    <2>1. new \in [1..n -> QueueJob]
        BY <1>1
    <2>2. new \in Seq(QueueJob)
        BY <2>1, SeqDef
    <2> QED
        BY <2>1, <2>2, LenProperties
<1>3. \A i \in 1..n : new[i] = NewJob(lib, prio)
    OBVIOUS
<1>4. EnqueueFiles(js, n, lib, prio) = js \o new
    BY DEF EnqueueFiles
<1> HIDE DEF new
<1>5. /\ js \o new \in Seq(QueueJob)
      /\ Len(js \o new) = Len(js) + n
      /\ \A i \in 1..(Len(js) + n) :
             (js \o new)[i] = IF i <= Len(js) THEN js[i] ELSE new[i - Len(js)]
    BY <1>2, ConcatProperties
<1>6. DOMAIN (js \o new) = 1..(Len(js) + n) /\ DOMAIN js = 1..Len(js) /\ Len(js) \in Nat
    BY <1>5, LenProperties
<1>7. ASSUME NEW i \in 1..(Len(js) + n)
      PROVE  (js \o new)[i] = IF i \in DOMAIN js THEN js[i] ELSE NewJob(lib, prio)
    <2>1. CASE i <= Len(js)
        BY <1>5, <1>6, <2>1
    <2>2. CASE ~(i <= Len(js))
        <3>1. i - Len(js) \in 1..n
            BY <2>2, <1>6
        <3> QED
            BY <1>3, <1>5, <1>6, <2>2, <3>1
    <2> QED
        BY <2>1, <2>2
<1> QED
    BY <1>4, <1>5, <1>6, <1>7

-----------------------------------------------------------------------------

\* Crash recovery returns the running rows to pending, and only those.
LEMMA CrashRecoveryRows ==
    ASSUME NEW js \in Seq(QueueJob)
    PROVE  /\ CrashRecoveryReset(js) \in Seq(QueueJob)
           /\ DOMAIN CrashRecoveryReset(js) = DOMAIN js
           /\ Len(CrashRecoveryReset(js)) = Len(js)
           /\ \A i \in DOMAIN js :
                  CrashRecoveryReset(js)[i] =
                      IF js[i].state = "running"
                      THEN [js[i] EXCEPT !.state = "pending", !.started = FALSE]
                      ELSE js[i]
<1> DEFINE out == CrashRecoveryReset(js)
<1>1. out = [i \in DOMAIN js |->
                 IF js[i].state = "running"
                 THEN [js[i] EXCEPT !.state = "pending", !.started = FALSE]
                 ELSE js[i]]
    BY DEF CrashRecoveryReset, MapWhere
<1>2. ASSUME NEW i \in DOMAIN js
      PROVE  (IF js[i].state = "running"
              THEN [js[i] EXCEPT !.state = "pending", !.started = FALSE]
              ELSE js[i]) \in QueueJob
    BY RowType DEF QueueJob, JobState
<1>3. out \in [DOMAIN js -> QueueJob]
    BY <1>1, <1>2
<1> HIDE DEF out
<1>4. /\ out \in Seq(QueueJob)
      /\ DOMAIN out = DOMAIN js
      /\ Len(out) = Len(js)
    BY <1>3, MappedDocument
<1> QED
    BY <1>1, <1>4 DEF out

\* Bring-up pins unnamed rows and changes nothing but their library.
LEMMA PinUnnamedRows ==
    ASSUME NEW js \in Seq(QueueJob), NEW target \in Library
    PROVE  /\ PinUnnamedJobs(js, target) \in Seq(QueueJob)
           /\ DOMAIN PinUnnamedJobs(js, target) = DOMAIN js
           /\ Len(PinUnnamedJobs(js, target)) = Len(js)
           /\ \A i \in DOMAIN js :
                  PinUnnamedJobs(js, target)[i] =
                      IF js[i].library = Unnamed /\ (Live(js[i]) \/ js[i].state \in RETRYABLE_STATES)
                      THEN [js[i] EXCEPT !.library = target]
                      ELSE js[i]
<1> DEFINE out == PinUnnamedJobs(js, target)
<1>1. out = [i \in DOMAIN js |->
                 IF js[i].library = Unnamed /\ (Live(js[i]) \/ js[i].state \in RETRYABLE_STATES)
                 THEN [js[i] EXCEPT !.library = target]
                 ELSE js[i]]
    BY DEF PinUnnamedJobs, MapWhere
<1>2. ASSUME NEW i \in DOMAIN js
      PROVE  (IF js[i].library = Unnamed /\ (Live(js[i]) \/ js[i].state \in RETRYABLE_STATES)
              THEN [js[i] EXCEPT !.library = target]
              ELSE js[i]) \in QueueJob
    BY RowType DEF QueueJob
<1>3. out \in [DOMAIN js -> QueueJob]
    BY <1>1, <1>2
<1> HIDE DEF out
<1>4. /\ out \in Seq(QueueJob)
      /\ DOMAIN out = DOMAIN js
      /\ Len(out) = Len(js)
    BY <1>3, MappedDocument
<1> QED
    BY <1>1, <1>4 DEF out

\* Bring-up fails the live rows of the skipped libraries, and only those.
LEMMA FailJobsRows ==
    ASSUME NEW js \in Seq(QueueJob), NEW skipped
    PROVE  /\ FailJobsAgainst(js, skipped) \in Seq(QueueJob)
           /\ DOMAIN FailJobsAgainst(js, skipped) = DOMAIN js
           /\ Len(FailJobsAgainst(js, skipped)) = Len(js)
           /\ \A i \in DOMAIN js :
                  FailJobsAgainst(js, skipped)[i] =
                      IF Live(js[i]) /\ js[i].library \in skipped
                      THEN WithOutcome(js[i], "failed")
                      ELSE js[i]
<1> DEFINE out == FailJobsAgainst(js, skipped)
<1>1. out = [i \in DOMAIN js |->
                 IF Live(js[i]) /\ js[i].library \in skipped
                 THEN WithOutcome(js[i], "failed")
                 ELSE js[i]]
    BY DEF FailJobsAgainst, MapWhere
<1>2. ASSUME NEW i \in DOMAIN js
      PROVE  (IF Live(js[i]) /\ js[i].library \in skipped
              THEN WithOutcome(js[i], "failed")
              ELSE js[i]) \in QueueJob
    BY RowType, RowRewrites DEF Outcome
<1>3. out \in [DOMAIN js -> QueueJob]
    BY <1>1, <1>2
<1> HIDE DEF out
<1>4. /\ out \in Seq(QueueJob)
      /\ DOMAIN out = DOMAIN js
      /\ Len(out) = Len(js)
    BY <1>3, MappedDocument
<1> QED
    BY <1>1, <1>4 DEF out

\* queue.clear cancels the pending rows, and only those.
LEMMA CancelAllRows ==
    ASSUME NEW js \in Seq(QueueJob)
    PROVE  /\ CancelAllPending(js) \in Seq(QueueJob)
           /\ DOMAIN CancelAllPending(js) = DOMAIN js
           /\ Len(CancelAllPending(js)) = Len(js)
           /\ \A i \in DOMAIN js :
                  CancelAllPending(js)[i] =
                      IF js[i].state = "pending"
                      THEN Cancelled(js[i])
                      ELSE js[i]
<1> DEFINE out == CancelAllPending(js)
<1>1. out = [i \in DOMAIN js |->
                 IF js[i].state = "pending"
                 THEN Cancelled(js[i])
                 ELSE js[i]]
    BY DEF CancelAllPending, MapWhere
<1>2. ASSUME NEW i \in DOMAIN js
      PROVE  (IF js[i].state = "pending"
              THEN Cancelled(js[i])
              ELSE js[i]) \in QueueJob
    BY RowType, RowRewrites
<1>3. out \in [DOMAIN js -> QueueJob]
    BY <1>1, <1>2
<1> HIDE DEF out
<1>4. /\ out \in Seq(QueueJob)
      /\ DOMAIN out = DOMAIN js
      /\ Len(out) = Len(js)
    BY <1>3, MappedDocument
<1> QED
    BY <1>1, <1>4 DEF out

\* A retry by state resets the selected rows of mounted libraries only.
LEMMA RetryByStateRows ==
    ASSUME NEW js \in Seq(QueueJob), NEW wanted, NEW served
    PROVE  /\ RetryByState(js, wanted, served) \in Seq(QueueJob)
           /\ DOMAIN RetryByState(js, wanted, served) = DOMAIN js
           /\ Len(RetryByState(js, wanted, served)) = Len(js)
           /\ \A i \in DOMAIN js :
                  RetryByState(js, wanted, served)[i] =
                      IF js[i].state = wanted /\ js[i].library \in served
                      THEN ResetForRetry(js[i])
                      ELSE js[i]
<1> DEFINE out == RetryByState(js, wanted, served)
<1>1. out = [i \in DOMAIN js |->
                 IF js[i].state = wanted /\ js[i].library \in served
                 THEN ResetForRetry(js[i])
                 ELSE js[i]]
    BY DEF RetryByState, MapWhere
<1>2. ASSUME NEW i \in DOMAIN js
      PROVE  (IF js[i].state = wanted /\ js[i].library \in served
              THEN ResetForRetry(js[i])
              ELSE js[i]) \in QueueJob
    BY RowType, RowRewrites
<1>3. out \in [DOMAIN js -> QueueJob]
    BY <1>1, <1>2
<1> HIDE DEF out
<1>4. /\ out \in Seq(QueueJob)
      /\ DOMAIN out = DOMAIN js
      /\ Len(out) = Len(js)
    BY <1>3, MappedDocument
<1> QED
    BY <1>1, <1>4 DEF out

\* A set of naturals that is not empty has a least element.
LEMMA LeastNatural ==
    ASSUME NEW T \in SUBSET Nat, T # {}
    PROVE  \E x \in T : \A y \in T : x <= y
<1> DEFINE less == OpToRel(<, Nat)
<1>1. \A x, y \in Nat : x < y => <<x, y>> \in less
    BY DEF OpToRel
<1>2. IsWellFoundedOn(less, Nat)
    BY NatLessThanWellFounded
<1> HIDE DEF less
<1>3. PICK x \in T : \A y \in T : ~ (<<y, x>> \in less)
    BY <1>2, WFMin
<1>4. ASSUME NEW y \in T
      PROVE  x <= y
    <2>1. x \in Nat /\ y \in Nat
        OBVIOUS
    <2>2. ~ (y < x)
        BY <1>1, <1>3, <2>1
    <2> QED
        BY <2>1, <2>2
<1> QED
    BY <1>4

\* The tick of a document counts its rows (derive_tick).
LEMMA DeriveTickType ==
    ASSUME NEW js \in Seq(QueueJob)
    PROVE  DeriveTick(js) \in [current : Nat, pending : Nat, running : Nat]
<1> DEFINE running == {i \in DOMAIN js : js[i].state = "running"}
           first   == CHOOSE i \in running : \A j \in running : i <= j
<1>1. IsFiniteSet(DOMAIN js) /\ DOMAIN js \subseteq Nat
    <2>1. DOMAIN js = 1..Len(js) /\ Len(js) \in Nat
        BY LenProperties
    <2> QED
        BY <2>1, FS_Interval
<1>2. Cardinality(PendingAt(js)) \in Nat
    BY <1>1, FS_Subset, FS_CardinalityType DEF PendingAt
<1>3. Cardinality(running) \in Nat
    BY <1>1, FS_Subset, FS_CardinalityType
<1>4. ASSUME running # {}
      PROVE  first \in Nat
    <2>1. running \subseteq Nat
        BY <1>1
    <2>2. \E i \in running : \A j \in running : i <= j
        BY <1>4, <2>1, LeastNatural
    <2> QED
        BY <2>1, <2>2
<1> QED
    BY <1>2, <1>3, <1>4 DEF DeriveTick

-----------------------------------------------------------------------------
(* Type correctness.                                                       *)

\* A save is either a success or a failure.
LEMMA SaveResultIsBoolean == SaveResult \subseteq BOOLEAN
BY DEF SaveResult

\* save_atomic leaves a document on disk.
LEMMA SaveType ==
    ASSUME NEW ok \in BOOLEAN, NEW js \in Seq(QueueJob), NEW p \in BOOLEAN,
           disk \in Document, Save(ok, js, p)
    PROVE  disk' \in Document
BY DEF Save, Document

\* The worker's tick is one.
LEMMA WorkerTickType ==
    ASSUME NEW ok \in BOOLEAN, NEW js \in Seq(QueueJob), published \in Tick,
           WorkerTick(ok, js)
    PROVE  published' \in Tick
BY DeriveTickType DEF WorkerTick, Tick

\* What a request keeps for later is a call.
LEMMA ThenType ==
    ASSUME NEW c \in Client, NEW pc \in CallPc, NEW flag \in BOOLEAN,
           NEW tick \in Tick, rpc \in [Client -> Call], Then(c, pc, flag, tick)
    PROVE  rpc' \in [Client -> Call]
BY DEF Then, NoCall, Call, NoTick, Tick

LEMMA NoCallType == NoCall \in Call
BY DEF NoCall, Call, CallPc, NoTick, Tick

\* mutate_jobs_and_persist keeps every variable it may write in its type.
LEMMA MutateType ==
    ASSUME TypeOK, NEW c \in Client, NEW js \in Seq(QueueJob), NEW ok \in BOOLEAN,
           MutateJobsAndPersist(c, js, ok)
    PROVE  /\ jobs' \in Seq(QueueJob)
           /\ disk' \in Document
           /\ rpc' \in [Client -> Call]
           /\ UNCHANGED <<paused, flagVars, published, libVars, procVars, worker>>
<1>1. jobs' \in Seq(QueueJob)
    BY DEF MutateJobsAndPersist, RestoredOnFailure, TypeOK
<1>2. disk' \in Document
    BY SaveType DEF MutateJobsAndPersist, TypeOK
<1>3. rpc' \in [Client -> Call]
    <2>1. DeriveTick(js) \in Tick
        BY DeriveTickType DEF Tick
    <2>2. CASE ok
        BY <2>1, <2>2, ThenType DEF MutateJobsAndPersist, TypeOK, CallPc
    <2>3. CASE ~ok
        BY <2>3, NoCallType DEF MutateJobsAndPersist, TypeOK
    <2> QED
        BY <2>2, <2>3
<1> QED
    BY <1>1, <1>2, <1>3 DEF MutateJobsAndPersist, RpcStep

\* Every variable keeps its type (TypeOK), whatever the handlers, the worker
\* and the restarts do to the document.
THEOREM TypeCorrect == Spec => []TypeOK
<1>1. Init => TypeOK
    <2> SUFFICES ASSUME Init PROVE TypeOK
        OBVIOUS
    <2>1. disk \in Document
        <3>1. PICK rows \in InitialJobs, p \in BOOLEAN : disk = [jobs |-> rows, paused |-> p]
            BY DEF Init
        <3>2. rows \in Seq(QueueJob)
            BY InitialJobsAssumption, SeqMonotonic
        <3> QED
            BY <3>1, <3>2 DEF Document
    <2>2. jobs \in Seq(QueueJob)
        BY EmptySeq DEF Init
    <2>3. rpc \in [Client -> Call] /\ published \in Tick
        BY NoCallType DEF Init, NoTick, Tick
    <2>4. worker \in Worker
        BY DEF Init, At, Worker, WorkerPc, Outcome
    <2> QED
        BY <2>1, <2>2, <2>3, <2>4, PlansAssumption DEF Init, TypeOK
<1>2. TypeOK /\ [Next]_vars => TypeOK'
    <2> SUFFICES ASSUME TypeOK, [Next]_vars PROVE TypeOK'
        OBVIOUS
    <2>1. ASSUME NEW served \in SUBSET Library, NEW skipped \in SUBSET Library,
                 NEW name \in Library, NEW ok \in SaveResult,
                 BringUp(served, skipped, name, ok)
          PROVE  TypeOK'
        <3> DEFINE pinned   == PinUnnamedJobs(disk.jobs, PinTarget)
                   adjusted == FailJobsAgainst(pinned, skipped)
        <3>1. disk.jobs \in Seq(QueueJob) /\ disk.paused \in BOOLEAN
            BY DEF TypeOK, Document
        <3>2. adjusted \in Seq(QueueJob)
            <4>1. pinned \in Seq(QueueJob)
                BY <3>1, PinUnnamedRows, PlansAssumption
            <4> HIDE DEF pinned
            <4> QED
                BY <4>1, FailJobsRows
        <3> HIDE DEF pinned
        <3>3. /\ jobs' = adjusted
              /\ Save(ok /\ adjusted # disk.jobs, adjusted, disk.paused)
              /\ worker' = At("boot")
            BY <2>1 DEF BringUp, pinned
        <3> HIDE DEF adjusted
        <3>4. disk' \in Document
            BY <3>1, <3>2, <3>3, SaveType, SaveResultIsBoolean DEF TypeOK
        <3>5. worker' \in Worker
            BY <3>3 DEF At, Worker, WorkerPc, Outcome
        <3> QED
            BY <2>1, <3>1, <3>2, <3>3, <3>4, <3>5 DEF BringUp, LoadedFlag, TypeOK
    <2>2. ASSUME InitiateShutdown PROVE TypeOK'
        BY <2>2 DEF InitiateShutdown, docVars, flagVars, libVars, TypeOK
    <2>3. ASSUME Exit PROVE TypeOK'
        <3>1. worker' \in Worker
            BY <2>3 DEF Exit, At, Worker, WorkerPc, Outcome
        <3>2. rpc' \in [Client -> Call] /\ published' \in Tick
            BY <2>3, NoCallType DEF Exit, NoTick, Tick
        <3>3. jobs' \in Seq(QueueJob)
            BY <2>3, EmptySeq DEF Exit
        <3>4. /\ up' \in BOOLEAN /\ stopping' \in BOOLEAN /\ mounted' \subseteq Library
              /\ paused' \in BOOLEAN /\ pausedFlag' \in BOOLEAN /\ degraded' \in BOOLEAN
            BY <2>3 DEF Exit
        <3>5. restarts' \in Nat
            BY <2>3 DEF Exit, TypeOK
        <3>6. primary' \in Library /\ disk' \in Document /\ requests' \in Nat
            BY <2>3 DEF Exit, TypeOK
        <3> QED
            BY <3>1, <3>2, <3>3, <3>4, <3>5, <3>6 DEF TypeOK
    <2>4. ASSUME NEW ok \in SaveResult, WorkerRecover(ok) PROVE TypeOK'
        <3>1. jobs' \in Seq(QueueJob)
            BY <2>4, CrashRecoveryRows DEF WorkerRecover, TypeOK
        <3>2. disk' \in Document
            BY <2>4, <3>1, SaveType, SaveResultIsBoolean DEF WorkerRecover, TypeOK
        <3>3. published' \in Tick
            BY <2>4, <3>1, WorkerTickType, SaveResultIsBoolean DEF WorkerRecover, TypeOK
        <3>4. worker' \in Worker
            BY <2>4 DEF WorkerRecover, At, Worker, WorkerPc, Outcome
        <3> QED
            BY <2>4, <3>1, <3>2, <3>3, <3>4
            DEF WorkerRecover, WorkerStep, flagVars, libVars, procVars, TypeOK
    <2>5. ASSUME WorkerShutdown PROVE TypeOK'
        <3>1. worker' \in Worker
            BY <2>5 DEF WorkerShutdown, At, Worker, WorkerPc, Outcome
        <3> QED
            BY <2>5, <3>1
            DEF WorkerShutdown, WorkerStep, docVars, flagVars, libVars, procVars, TypeOK
    <2>6. ASSUME WorkerWake PROVE TypeOK'
        <3>1. worker' \in Worker
            BY <2>6 DEF WorkerWake, At, Worker, WorkerPc, Outcome
        <3> QED
            BY <2>6, <3>1
            DEF WorkerWake, WorkerStep, docVars, flagVars, libVars, procVars, TypeOK
    <2>7. ASSUME WorkerFindNothing PROVE TypeOK'
        <3>1. worker' \in Worker
            BY <2>7 DEF WorkerFindNothing, At, Worker, WorkerPc, Outcome
        <3> QED
            BY <2>7, <3>1
            DEF WorkerFindNothing, WorkerStep, docVars, flagVars, libVars, procVars, TypeOK
    <2>8. ASSUME NEW i \in DOMAIN jobs, NEW ok \in SaveResult, WorkerPull(i, ok)
          PROVE  TypeOK'
        <3>1. jobs' \in Seq(QueueJob)
            BY <2>8, PullPendingRows DEF WorkerPull, TypeOK
        <3>2. disk' \in Document
            BY <2>8, <3>1, SaveType, SaveResultIsBoolean DEF WorkerPull, TypeOK
        <3>3. published' \in Tick
            BY <2>8, <3>1, WorkerTickType, SaveResultIsBoolean DEF WorkerPull, TypeOK
        <3>4. i \in Nat
            BY LenProperties DEF TypeOK
        <3>5. worker' \in Worker
            BY <2>8, <3>4 DEF WorkerPull, At, Worker, WorkerPc, Outcome
        <3> QED
            BY <2>8, <3>1, <3>2, <3>3, <3>5
            DEF WorkerPull, WorkerStep, flagVars, libVars, procVars, TypeOK
    <2>9. ASSUME RunnerStart PROVE TypeOK'
        <3>1. worker' \in Worker
            BY <2>9 DEF RunnerStart, TypeOK, Worker, WorkerPc, Outcome
        <3> QED
            BY <2>9, <3>1
            DEF RunnerStart, WorkerStep, docVars, flagVars, libVars, procVars, TypeOK
    <2>10. ASSUME NEW result \in Outcome, NEW process \in BOOLEAN,
                  RunnerReturn(result, process)
           PROVE  TypeOK'
        <3>1. worker' \in Worker
            BY <2>10 DEF RunnerReturn, TypeOK, Worker, WorkerPc
        <3> QED
            BY <2>10, <3>1
            DEF RunnerReturn, WorkerStep, docVars, flagVars, libVars, procVars, TypeOK
    <2>11. ASSUME NEW ok \in SaveResult, WorkerRecord(ok) PROVE TypeOK'
        <3> DEFINE wasPaused == paused \/ worker.process
        <3>1. /\ jobs' = ApplyOutcome(jobs, worker.job, worker.result)
              /\ Save(ok, jobs', wasPaused)
              /\ WorkerTick(ok, jobs')
              /\ worker' = At("idle")
            BY <2>11 DEF WorkerRecord
        <3>2. worker.result \in Outcome /\ worker.process \in BOOLEAN
            BY DEF TypeOK, Worker
        <3>3. jobs' \in Seq(QueueJob)
            <4>1. CASE worker.job \in DOMAIN jobs
                BY <3>1, <3>2, <4>1, ApplyOutcomeRows DEF TypeOK
            <4>2. CASE worker.job \notin DOMAIN jobs
                <5>1. jobs \in [1..Len(jobs) -> QueueJob] /\ DOMAIN jobs = 1..Len(jobs)
                    BY LenProperties DEF TypeOK
                <5>2. ApplyOutcome(jobs, worker.job, worker.result) = jobs
                    BY <4>2, <5>1 DEF ApplyOutcome
                <5> QED
                    BY <3>1, <5>2 DEF TypeOK
            <4> QED
                BY <4>1, <4>2
        <3>4. wasPaused \in BOOLEAN /\ ok \in BOOLEAN
            BY <3>2, SaveResultIsBoolean DEF TypeOK
        <3> HIDE DEF wasPaused
        <3>5. disk' \in Document
            BY <3>1, <3>3, <3>4, SaveType DEF TypeOK
        <3>6. published' \in Tick
            BY <3>1, <3>3, <3>4, WorkerTickType DEF TypeOK
        <3>7. worker' \in Worker
            BY <3>1 DEF At, Worker, WorkerPc, Outcome
        <3>8. /\ paused' \in BOOLEAN
              /\ pausedFlag' \in BOOLEAN
              /\ degraded' \in BOOLEAN
            BY <2>11 DEF WorkerRecord
        <3> QED
            BY <2>11, <3>3, <3>5, <3>6, <3>7, <3>8
            DEF WorkerRecord, WorkerStep, libVars, procVars, TypeOK
    <2>12. ASSUME NEW c \in Client, NEW lib \in Library, SubmitResolve(c, lib)
           PROVE  TypeOK'
        <3>1. rpc' \in [Client -> Call]
            BY <2>12 DEF SubmitResolve, TypeOK, NoCall, Call, CallPc, NoTick, Tick
        <3> QED
            BY <2>12, <3>1 DEF SubmitResolve, Issue, RpcStep, docVars, flagVars,
               libVars, procVars, TypeOK
    <2>13. ASSUME NEW c \in Client, NEW n \in 1..MaxJobs,
                  NEW prio \in SubmitPriorities, NEW ok \in SaveResult,
                  SubmitEnqueue(c, n, prio, ok)
           PROVE  TypeOK'
        <3>1. rpc[c].lib \in Library
            BY <2>13 DEF SubmitEnqueue, TypeOK
        <3>2. n \in Nat /\ prio \in Priority /\ ok \in BOOLEAN
            BY BoundsAssumption, SaveResultIsBoolean
        <3>3. EnqueueFiles(jobs, n, rpc[c].lib, prio) \in Seq(QueueJob)
            BY <3>1, <3>2, EnqueueFilesRows DEF TypeOK
        <3> QED
            BY <2>13, <3>2, <3>3, MutateType
            DEF SubmitEnqueue, flagVars, libVars, procVars, TypeOK
    <2>14. ASSUME NEW c \in Client, SubmitRefused(c) PROVE TypeOK'
        BY <2>14, NoCallType DEF SubmitRefused, RpcStep, docVars, flagVars,
           libVars, procVars, TypeOK
    <2>15. ASSUME NEW c \in Client, NEW i \in DOMAIN jobs, NEW ok \in SaveResult,
                  Cancel(c, i, ok)
           PROVE  TypeOK'
        <3>1. CancelMatching(jobs, i) \in Seq(QueueJob)
            BY CancelMatchingRows DEF TypeOK
        <3>2. MutateJobsAndPersist(c, CancelMatching(jobs, i), ok) /\ Issue(c)
            BY <2>15 DEF Cancel
        <3>3. /\ jobs' \in Seq(QueueJob) /\ disk' \in Document /\ rpc' \in [Client -> Call]
              /\ UNCHANGED <<paused, flagVars, published, libVars, procVars, worker>>
            BY <3>1, <3>2, MutateType, SaveResultIsBoolean
        <3> QED
            BY <3>2, <3>3 DEF Issue, flagVars, libVars, procVars, TypeOK
    <2>16. ASSUME NEW c \in Client, NEW i \in DOMAIN jobs, NEW ok \in SaveResult,
                  RetryJob(c, i, ok)
           PROVE  TypeOK'
        <3>1. RetryOne(jobs, i) \in Seq(QueueJob)
            BY RetryOneRows DEF TypeOK
        <3>2. MutateJobsAndPersist(c, RetryOne(jobs, i), ok) /\ Issue(c)
            BY <2>16 DEF RetryJob
        <3>3. /\ jobs' \in Seq(QueueJob) /\ disk' \in Document /\ rpc' \in [Client -> Call]
              /\ UNCHANGED <<paused, flagVars, published, libVars, procVars, worker>>
            BY <3>1, <3>2, MutateType, SaveResultIsBoolean
        <3> QED
            BY <3>2, <3>3 DEF Issue, flagVars, libVars, procVars, TypeOK
    <2>17. ASSUME NEW c \in Client, NEW ok \in SaveResult, Clear(c, ok)
           PROVE  TypeOK'
        <3>1. CancelAllPending(jobs) \in Seq(QueueJob)
            BY CancelAllRows DEF TypeOK
        <3>2. MutateJobsAndPersist(c, CancelAllPending(jobs), ok) /\ Issue(c)
            BY <2>17 DEF Clear
        <3>3. /\ jobs' \in Seq(QueueJob) /\ disk' \in Document /\ rpc' \in [Client -> Call]
              /\ UNCHANGED <<paused, flagVars, published, libVars, procVars, worker>>
            BY <3>1, <3>2, MutateType, SaveResultIsBoolean
        <3> QED
            BY <3>2, <3>3 DEF Issue, flagVars, libVars, procVars, TypeOK
    <2>18. ASSUME NEW c \in Client, NEW wanted \in RETRYABLE_STATES,
                  NEW ok \in SaveResult, RetryState(c, wanted, ok)
           PROVE  TypeOK'
        <3>1. RetryByState(jobs, wanted, mounted) \in Seq(QueueJob)
            BY RetryByStateRows DEF TypeOK
        <3>2. MutateJobsAndPersist(c, RetryByState(jobs, wanted, mounted), ok) /\ Issue(c)
            BY <2>18 DEF RetryState
        <3>3. /\ jobs' \in Seq(QueueJob) /\ disk' \in Document /\ rpc' \in [Client -> Call]
              /\ UNCHANGED <<paused, flagVars, published, libVars, procVars, worker>>
            BY <3>1, <3>2, MutateType, SaveResultIsBoolean
        <3> QED
            BY <3>2, <3>3 DEF Issue, flagVars, libVars, procVars, TypeOK
    <2>19. ASSUME NEW c \in Client, NEW flag \in BOOLEAN, NEW ok \in SaveResult,
                  ApplyPause(c, flag, ok)
           PROVE  TypeOK'
        <3>1. disk' \in Document
            BY <2>19, SaveType, SaveResultIsBoolean DEF ApplyPause, TypeOK
        <3>2. rpc' \in [Client -> Call]
            <4>1. DeriveTick(jobs) \in Tick
                BY DeriveTickType DEF Tick, TypeOK
            <4> QED
                BY <2>19, <4>1, ThenType DEF ApplyPause, CallPc, TypeOK
        <3>3. paused' \in BOOLEAN
            BY <2>19 DEF ApplyPause, RestoredOnFailure, TypeOK
        <3> QED
            BY <2>19, <3>1, <3>2, <3>3
            DEF ApplyPause, Issue, RpcStep, flagVars, libVars, procVars, TypeOK
    <2>20. ASSUME NEW c \in Client, StorePausedFlag(c) PROVE TypeOK'
        <3>1. rpc[c].flag \in BOOLEAN /\ rpc[c].tick \in Tick
            BY DEF TypeOK, Call
        <3>2. rpc' \in [Client -> Call]
            BY <2>20, <3>1, ThenType DEF StorePausedFlag, CallPc, TypeOK
        <3> QED
            BY <2>20, <3>1, <3>2
            DEF StorePausedFlag, RpcStep, docVars, libVars, procVars, TypeOK
    <2>21. ASSUME NEW c \in Client, ClearFailurePause(c) PROVE TypeOK'
        <3>1. rpc[c].tick \in Tick
            BY DEF TypeOK, Call
        <3>2. rpc' \in [Client -> Call]
            BY <2>21, <3>1, ThenType DEF ClearFailurePause, CallPc, TypeOK
        <3> QED
            BY <2>21, <3>2
            DEF ClearFailurePause, RpcStep, docVars, libVars, procVars, TypeOK
    <2>22. ASSUME NEW c \in Client, PublishTick(c) PROVE TypeOK'
        <3>1. rpc[c].tick \in Tick
            BY DEF TypeOK, Call
        <3> QED
            BY <2>22, <3>1, NoCallType
            DEF PublishTick, RpcStep, docVars, flagVars, libVars, procVars, TypeOK
    <2>23. ASSUME NEW lib \in Library, Mount(lib) PROVE TypeOK'
        BY <2>23 DEF Mount, LibraryStep, docVars, flagVars, procVars, TypeOK
    <2>24. ASSUME NEW lib \in Library, Unmount(lib) PROVE TypeOK'
        BY <2>24 DEF Unmount, LibraryStep, docVars, flagVars, procVars, TypeOK
    <2>25. ASSUME UNCHANGED vars PROVE TypeOK'
        BY <2>25 DEF vars, docVars, flagVars, libVars, procVars, TypeOK
    <2> QED
        BY <2>1, <2>2, <2>3, <2>4, <2>5, <2>6, <2>7, <2>8, <2>9, <2>10, <2>11,
           <2>12, <2>13, <2>14, <2>15, <2>16, <2>17, <2>18, <2>19, <2>20, <2>21,
           <2>22, <2>23, <2>24, <2>25
        DEF Next, Lifecycle, WorkerNext, RpcNext, LibraryNext
<1> QED
    BY <1>1, <1>2, PTL DEF Spec

-----------------------------------------------------------------------------
(* What a request does to the rows.                                        *)

\* What one request may do to the row at position i: cancel it while it is
\* live, return it to pending once it ended and its library is served, or
\* append it for a library that is served.
Requested(i) ==
    IF i \in DOMAIN jobs
    THEN \/ jobs'[i] = jobs[i]
         \/ Live(jobs[i]) /\ jobs'[i] = Cancelled(jobs[i])
         \/ /\ jobs[i].state \in RETRYABLE_STATES
            /\ jobs[i].library \in mounted
            /\ jobs'[i] = ResetForRetry(jobs[i])
    ELSE \E lib \in mounted, prio \in Priority : jobs'[i] = NewJob(lib, prio)

\* Requests leave the worker, the libraries and the process alone, and what
\* they change in memory they have saved.
RequestRewrites ==
    /\ UNCHANGED <<libVars, procVars, worker>>
    /\ DOMAIN jobs \subseteq DOMAIN jobs'
    /\ \A i \in DOMAIN jobs' : Requested(i)
    /\ \/ jobs' = jobs /\ disk' = disk
       \/ disk'.jobs = jobs'

\* A rewrite that touches each row as a request may is still one after
\* mutate_jobs_and_persist: it is saved, or it is undone.
LEMMA MutateRewrites ==
    ASSUME NEW c \in Client, NEW js, NEW ok \in BOOLEAN,
           MutateJobsAndPersist(c, js, ok),
           jobs' = js => /\ DOMAIN jobs \subseteq DOMAIN jobs'
                         /\ \A i \in DOMAIN jobs' : Requested(i)
    PROVE  RequestRewrites
<1>1. UNCHANGED <<libVars, procVars, worker>>
    BY DEF MutateJobsAndPersist, RpcStep
<1>2. CASE ok
    <2>1. jobs' = js /\ disk'.jobs = js
        BY <1>2 DEF MutateJobsAndPersist, RestoredOnFailure, Save
    <2> QED
        BY <1>1, <2>1 DEF RequestRewrites
<1>3. CASE ~ok
    <2>1. jobs' = jobs /\ disk' = disk
        BY <1>3 DEF MutateJobsAndPersist, RestoredOnFailure, Save
    <2> QED
        BY <1>1, <2>1 DEF RequestRewrites, Requested
<1> QED
    BY <1>2, <1>3

\* Every control-plane step rewrites rows only as a request may
\* (crates/runtime/src/control/methods/queue_writes.rs, ingest.rs).
LEMMA RequestRows ==
    ASSUME TypeOK, NEW c \in Client, RpcNext(c)
    PROVE  RequestRewrites
<1>1. ASSUME UNCHANGED <<libVars, procVars, worker, jobs, disk>>
      PROVE  RequestRewrites
    BY <1>1 DEF RequestRewrites, Requested
<1>2. ASSUME NEW lib \in Library, SubmitResolve(c, lib) PROVE RequestRewrites
    BY <1>1, <1>2 DEF SubmitResolve, RpcStep, docVars
<1>3. ASSUME NEW n \in 1..MaxJobs, NEW prio \in SubmitPriorities,
             NEW ok \in SaveResult, SubmitEnqueue(c, n, prio, ok)
      PROVE  RequestRewrites
    <2> DEFINE js == EnqueueFiles(jobs, n, rpc[c].lib, prio)
    <2>1. /\ rpc[c].lib \in mounted
          /\ MutateJobsAndPersist(c, js, ok)
        BY <1>3 DEF SubmitEnqueue
    <2>2. rpc[c].lib \in Library /\ n \in Nat /\ prio \in Priority /\ ok \in BOOLEAN
        BY <2>1, BoundsAssumption, SaveResultIsBoolean DEF TypeOK
    <2>3. /\ DOMAIN jobs \subseteq DOMAIN js
          /\ \A i \in DOMAIN js :
                 js[i] = IF i \in DOMAIN jobs THEN jobs[i] ELSE NewJob(rpc[c].lib, prio)
        BY <2>2, EnqueueFilesRows DEF TypeOK
    <2> HIDE DEF js
    <2>4. jobs' = js => /\ DOMAIN jobs \subseteq DOMAIN jobs'
                        /\ \A i \in DOMAIN jobs' : Requested(i)
        BY <2>1, <2>2, <2>3 DEF Requested
    <2> QED
        BY <2>1, <2>2, <2>4, MutateRewrites
<1>4. ASSUME SubmitRefused(c) PROVE RequestRewrites
    BY <1>1, <1>4 DEF SubmitRefused, RpcStep, docVars
<1>5. ASSUME NEW i \in DOMAIN jobs, NEW ok \in SaveResult, Cancel(c, i, ok)
      PROVE  RequestRewrites
    <2> DEFINE js == CancelMatching(jobs, i)
    <2>1. Live(jobs[i]) /\ MutateJobsAndPersist(c, js, ok) /\ ok \in BOOLEAN
        BY <1>5, SaveResultIsBoolean DEF Cancel
    <2>2. /\ DOMAIN js = DOMAIN jobs
          /\ \A j \in DOMAIN jobs : js[j] = IF j = i THEN Cancelled(jobs[i]) ELSE jobs[j]
        BY CancelMatchingRows DEF TypeOK
    <2> HIDE DEF js
    <2>3. jobs' = js => /\ DOMAIN jobs \subseteq DOMAIN jobs'
                        /\ \A j \in DOMAIN jobs' : Requested(j)
        BY <2>1, <2>2 DEF Requested
    <2> QED
        BY <2>1, <2>3, MutateRewrites
<1>6. ASSUME NEW i \in DOMAIN jobs, NEW ok \in SaveResult, RetryJob(c, i, ok)
      PROVE  RequestRewrites
    <2> DEFINE js == RetryOne(jobs, i)
    <2>1. /\ jobs[i].state \in RETRYABLE_STATES
          /\ jobs[i].library \in mounted
          /\ MutateJobsAndPersist(c, js, ok)
          /\ ok \in BOOLEAN
        BY <1>6, SaveResultIsBoolean DEF RetryJob
    <2>2. /\ DOMAIN js = DOMAIN jobs
          /\ \A j \in DOMAIN jobs : js[j] = IF j = i THEN ResetForRetry(jobs[i]) ELSE jobs[j]
        BY RetryOneRows DEF TypeOK
    <2> HIDE DEF js
    <2>3. jobs' = js => /\ DOMAIN jobs \subseteq DOMAIN jobs'
                        /\ \A j \in DOMAIN jobs' : Requested(j)
        BY <2>1, <2>2 DEF Requested
    <2> QED
        BY <2>1, <2>3, MutateRewrites
<1>7. ASSUME NEW ok \in SaveResult, Clear(c, ok) PROVE RequestRewrites
    <2> DEFINE js == CancelAllPending(jobs)
    <2>1. MutateJobsAndPersist(c, js, ok) /\ ok \in BOOLEAN
        BY <1>7, SaveResultIsBoolean DEF Clear
    <2>2. /\ DOMAIN js = DOMAIN jobs
          /\ \A j \in DOMAIN jobs :
                 js[j] = IF jobs[j].state = "pending" THEN Cancelled(jobs[j]) ELSE jobs[j]
        BY CancelAllRows DEF TypeOK
    <2> HIDE DEF js
    <2>3. jobs' = js => /\ DOMAIN jobs \subseteq DOMAIN jobs'
                        /\ \A j \in DOMAIN jobs' : Requested(j)
        BY <2>1, <2>2 DEF Requested, Live
    <2> QED
        BY <2>1, <2>3, MutateRewrites
<1>8. ASSUME NEW wanted \in RETRYABLE_STATES, NEW ok \in SaveResult,
             RetryState(c, wanted, ok)
      PROVE  RequestRewrites
    <2> DEFINE js == RetryByState(jobs, wanted, mounted)
    <2>1. MutateJobsAndPersist(c, js, ok) /\ ok \in BOOLEAN
        BY <1>8, SaveResultIsBoolean DEF RetryState
    <2>2. /\ DOMAIN js = DOMAIN jobs
          /\ \A j \in DOMAIN jobs :
                 js[j] = IF jobs[j].state = wanted /\ jobs[j].library \in mounted
                         THEN ResetForRetry(jobs[j]) ELSE jobs[j]
        BY RetryByStateRows DEF TypeOK
    <2> HIDE DEF js
    <2>3. jobs' = js => /\ DOMAIN jobs \subseteq DOMAIN jobs'
                        /\ \A j \in DOMAIN jobs' : Requested(j)
        BY <2>1, <2>2 DEF Requested
    <2> QED
        BY <2>1, <2>3, MutateRewrites
<1>9. ASSUME NEW flag \in BOOLEAN, NEW ok \in SaveResult, ApplyPause(c, flag, ok)
      PROVE  RequestRewrites
    <2>1. /\ UNCHANGED <<libVars, procVars, worker, jobs>>
          /\ disk' = disk \/ disk'.jobs = jobs'
        BY <1>9 DEF ApplyPause, RpcStep, Save
    <2> QED
        BY <2>1 DEF RequestRewrites, Requested
<1>10. ASSUME StorePausedFlag(c) \/ ClearFailurePause(c) \/ PublishTick(c)
       PROVE  RequestRewrites
    BY <1>1, <1>10 DEF StorePausedFlag, ClearFailurePause, PublishTick, RpcStep, docVars
<1> QED
    BY <1>2, <1>3, <1>4, <1>5, <1>6, <1>7, <1>8, <1>9, <1>10 DEF RpcNext

-----------------------------------------------------------------------------
(* Running rows.                                                           *)

\* A request cannot make a row run, and it does not move the worker.
LEMMA RequestKeepsRunning ==
    ASSUME TypeOK, RequestRewrites, RunningRowIsTheWorkers
    PROVE  RunningRowIsTheWorkers'
<1> SUFFICES ASSUME worker'.pc # "boot", NEW i \in DOMAIN jobs',
                    jobs'[i].state = "running"
             PROVE  Busy' /\ worker'.job = i
    BY DEF RunningRowIsTheWorkers
<1>1. worker' = worker /\ Requested(i)
    BY DEF RequestRewrites
<1>2. i \in DOMAIN jobs /\ jobs'[i] = jobs[i]
    BY <1>1, RowType, RewrittenState DEF Requested, NewJob, TypeOK
<1> QED
    BY <1>1, <1>2 DEF RunningRowIsTheWorkers, Busy

\* A row that is running is the row the worker is busy with: cancels and
\* retries under a running job, failed saves and restarts never leave a row
\* running that nobody runs (worker_loop, crash_recovery_reset).
THEOREM RunningRowsAreTheWorkers == Spec => []RunningRowIsTheWorkers
<1>1. Init => RunningRowIsTheWorkers
    BY DEF Init, RunningRowIsTheWorkers
<1>2. TypeOK /\ RunningRowIsTheWorkers /\ [Next]_vars => RunningRowIsTheWorkers'
    <2> SUFFICES ASSUME TypeOK, RunningRowIsTheWorkers, [Next]_vars
                 PROVE  RunningRowIsTheWorkers'
        OBVIOUS
    <2> USE DEF RunningRowIsTheWorkers
    <2>1. ASSUME NEW served \in SUBSET Library, NEW skipped \in SUBSET Library,
                 NEW name \in Library, NEW ok \in SaveResult,
                 BringUp(served, skipped, name, ok)
          PROVE  RunningRowIsTheWorkers'
        BY <2>1 DEF BringUp, At
    <2>2. ASSUME UNCHANGED <<jobs, worker>> PROVE RunningRowIsTheWorkers'
        BY <2>2 DEF Busy
    <2>3. ASSUME Exit PROVE RunningRowIsTheWorkers'
        BY <2>3 DEF Exit
    <2>4. ASSUME NEW ok \in SaveResult, WorkerRecover(ok) PROVE RunningRowIsTheWorkers'
        <3>1. jobs' = CrashRecoveryReset(jobs)
            BY <2>4 DEF WorkerRecover
        <3>2. ASSUME NEW i \in DOMAIN jobs PROVE jobs'[i].state # "running"
            <4>1. jobs[i] \in QueueJob
                BY RowType DEF TypeOK
            <4>2. [jobs[i] EXCEPT !.state = "pending", !.started = FALSE].state = "pending"
                BY <4>1 DEF QueueJob
            <4>3. CASE jobs[i].state = "running"
                <5>1. jobs'[i] = [jobs[i] EXCEPT !.state = "pending", !.started = FALSE]
                    BY <3>1, <4>3, CrashRecoveryRows DEF TypeOK
                <5> QED
                    BY <4>2, <5>1
            <4>4. CASE jobs[i].state # "running"
                BY <3>1, <4>4, CrashRecoveryRows DEF TypeOK
            <4> QED
                BY <4>3, <4>4
        <3> QED
            BY <3>1, <3>2, CrashRecoveryRows DEF TypeOK
    <2>5. ASSUME WorkerShutdown \/ WorkerWake \/ WorkerFindNothing
          PROVE  RunningRowIsTheWorkers'
        BY <2>5 DEF WorkerShutdown, WorkerWake, WorkerFindNothing, docVars, Busy
    <2>6. ASSUME NEW i \in DOMAIN jobs, NEW ok \in SaveResult, WorkerPull(i, ok)
          PROVE  RunningRowIsTheWorkers'
        <3>1. /\ worker' = [At("pulled") EXCEPT !.job = i]
              /\ worker.pc = "ready"
              /\ jobs' = PullPending(jobs, i)
            BY <2>6 DEF WorkerPull
        <3>2. worker'.pc = "pulled" /\ worker'.job = i
            BY <3>1 DEF At
        <3>3. \A j \in DOMAIN jobs : jobs[j].state # "running"
            BY <3>1 DEF Busy
        <3>4. \A j \in DOMAIN jobs' : j # i => jobs'[j].state # "running"
            BY <3>1, <3>3, PullPendingRows DEF TypeOK
        <3> QED
            BY <3>2, <3>4 DEF Busy
    <2>7. ASSUME RunnerStart \/ \E result \in Outcome, process \in BOOLEAN :
                                    RunnerReturn(result, process)
          PROVE  RunningRowIsTheWorkers'
        <3>1. jobs' = jobs /\ Busy /\ Busy' /\ worker'.job = worker.job
            BY <2>7 DEF RunnerStart, RunnerReturn, docVars, Busy, TypeOK, Worker
        <3>2. worker.pc # "boot"
            BY <3>1 DEF Busy
        <3> QED
            BY <3>1, <3>2
    <2>8. ASSUME NEW ok \in SaveResult, WorkerRecord(ok) PROVE RunningRowIsTheWorkers'
        <3>1. /\ jobs' = ApplyOutcome(jobs, worker.job, worker.result)
              /\ worker.pc = "finished"
              /\ worker.result \in Outcome
            BY <2>8 DEF WorkerRecord, TypeOK, Worker
        <3>2. \A j \in DOMAIN jobs' : jobs'[j].state # "running"
            <4>1. CASE worker.job \in DOMAIN jobs
                <5>1. ASSUME NEW j \in DOMAIN jobs PROVE jobs'[j].state # "running"
                    <6>1. CASE j = worker.job
                        <7>1. jobs'[j].state = worker.result
                            BY <3>1, <4>1, <6>1, ApplyOutcomeRows, RowType, RewrittenState
                            DEF TypeOK
                        <7> QED
                            BY <3>1, <7>1 DEF Outcome
                    <6>2. CASE j # worker.job
                        <7>1. jobs'[j] = jobs[j]
                            BY <3>1, <4>1, <6>2, ApplyOutcomeRows DEF TypeOK
                        <7> QED
                            BY <3>1, <6>2, <7>1
                    <6> QED
                        BY <6>1, <6>2
                <5> QED
                    BY <3>1, <4>1, <5>1, ApplyOutcomeRows DEF TypeOK
            <4>2. CASE worker.job \notin DOMAIN jobs
                <5>1. DOMAIN jobs' = DOMAIN jobs /\ \A j \in DOMAIN jobs : jobs'[j] = jobs[j]
                    BY <3>1, <4>2 DEF ApplyOutcome
                <5> QED
                    BY <3>1, <4>2, <5>1
            <4> QED
                BY <4>1, <4>2
        <3> QED
            BY <3>2
    <2>9. ASSUME NEW c \in Client, RpcNext(c) PROVE RunningRowIsTheWorkers'
        BY <2>9, RequestRows, RequestKeepsRunning
    <2>10. ASSUME InitiateShutdown \/ LibraryNext \/ UNCHANGED vars
           PROVE  RunningRowIsTheWorkers'
        BY <2>2, <2>10 DEF InitiateShutdown, LibraryNext, Mount, Unmount,
           LibraryStep, docVars, vars
    <2> QED
        BY <2>1, <2>3, <2>4, <2>5, <2>6, <2>7, <2>8, <2>9, <2>10
        DEF Next, Lifecycle, WorkerNext
<1> QED
    BY <1>1, <1>2, TypeCorrect, PTL DEF Spec

-----------------------------------------------------------------------------
(* Consistent rows.                                                        *)

AllConsistent(js) == \A i \in DOMAIN js : RowConsistent(js[i])

\* Every row an earlier binary left is consistent.
LEMMA InitialRowsConsistent ==
    ASSUME NEW js \in InitialJobs
    PROVE  AllConsistent(js)
<1>1. js \in Seq({job \in QueueJob : RowConsistent(job)})
    BY InitialJobsAssumption
<1> QED
    BY <1>1, LenProperties, ElementOfSeq DEF AllConsistent

\* What bring-up does to the rows it loads leaves them consistent.
LEMMA BringUpConsistent ==
    ASSUME NEW js \in Seq(QueueJob), NEW target \in Library, NEW skipped,
           AllConsistent(js)
    PROVE  AllConsistent(FailJobsAgainst(PinUnnamedJobs(js, target), skipped))
<1> DEFINE pinned == PinUnnamedJobs(js, target)
           failed == FailJobsAgainst(pinned, skipped)
<1>1. pinned \in Seq(QueueJob) /\ DOMAIN pinned = DOMAIN js
    BY PinUnnamedRows
<1>2. ASSUME NEW i \in DOMAIN js PROVE RowConsistent(pinned[i])
    <2>1. RowConsistent(js[i]) /\ js[i] \in QueueJob
        BY RowType DEF AllConsistent
    <2>2. RowConsistent([js[i] EXCEPT !.library = target])
        BY <2>1 DEF RowConsistent, QueueJob
    <2> QED
        BY <2>1, <2>2, PinUnnamedRows
<1> HIDE DEF pinned
<1>3. ASSUME NEW i \in DOMAIN js PROVE RowConsistent(failed[i])
    <2>1. RowConsistent(WithOutcome(pinned[i], "failed"))
        BY <1>1, RowType, RewritesAreConsistent DEF Outcome
    <2> QED
        BY <1>1, <1>2, <2>1, FailJobsRows
<1> QED
    BY <1>1, <1>3, FailJobsRows DEF AllConsistent, pinned

\* A request leaves consistent rows consistent.
LEMMA RequestConsistent ==
    ASSUME TypeOK, RequestRewrites, AllConsistent(jobs)
    PROVE  AllConsistent(jobs')
<1> SUFFICES ASSUME NEW i \in DOMAIN jobs' PROVE RowConsistent(jobs'[i])
    BY DEF AllConsistent
<1>1. Requested(i)
    BY DEF RequestRewrites
<1>2. CASE i \in DOMAIN jobs
    <2>1. RowConsistent(jobs[i]) /\ jobs[i] \in QueueJob
        BY <1>2, RowType DEF AllConsistent, TypeOK
    <2> QED
        BY <1>1, <1>2, <2>1, RewritesAreConsistent DEF Requested
<1>3. CASE i \notin DOMAIN jobs
    BY <1>1, <1>3 DEF Requested, NewJob, RowConsistent, Outcome
<1> QED
    BY <1>2, <1>3

\* The worker leaves consistent rows consistent, even when the row whose
\* outcome it records was cancelled or retried under it.
LEMMA WorkerConsistent ==
    ASSUME TypeOK, AllConsistent(jobs)
    PROVE  /\ AllConsistent(CrashRecoveryReset(jobs))
           /\ \A i \in PendingAt(jobs) : AllConsistent(PullPending(jobs, i))
           /\ AllConsistent(ApplyOutcome(jobs, worker.job, worker.result))
<1>1. \A i \in DOMAIN jobs : RowConsistent(jobs[i]) /\ jobs[i] \in QueueJob
    BY RowType DEF AllConsistent, TypeOK
<1>2. AllConsistent(CrashRecoveryReset(jobs))
    <2>1. ASSUME NEW i \in DOMAIN jobs PROVE RowConsistent(CrashRecoveryReset(jobs)[i])
        <3>1. CASE jobs[i].state = "running"
            <4>1. RowConsistent([jobs[i] EXCEPT !.state = "pending", !.started = FALSE])
                BY <1>1, <3>1 DEF RowConsistent, QueueJob, Outcome
            <4> QED
                BY <3>1, <4>1, CrashRecoveryRows DEF TypeOK
        <3>2. CASE jobs[i].state # "running"
            BY <1>1, <3>2, CrashRecoveryRows DEF TypeOK
        <3> QED
            BY <3>1, <3>2
    <2> QED
        BY <2>1, CrashRecoveryRows DEF AllConsistent, TypeOK
<1>3. ASSUME NEW i \in PendingAt(jobs) PROVE AllConsistent(PullPending(jobs, i))
    <2>1. i \in DOMAIN jobs /\ jobs[i].state = "pending"
        BY DEF PendingAt
    <2>2. RowConsistent(Started(jobs[i]))
        BY <1>1, <2>1, RewritesAreConsistent
    <2>3. ASSUME NEW j \in DOMAIN jobs PROVE RowConsistent(PullPending(jobs, i)[j])
        <3>1. CASE j = i
            BY <2>1, <2>2, <3>1, PullPendingRows DEF TypeOK
        <3>2. CASE j # i
            BY <1>1, <2>1, <3>2, PullPendingRows DEF TypeOK
        <3> QED
            BY <3>1, <3>2
    <2> QED
        BY <2>1, <2>3, PullPendingRows DEF AllConsistent, TypeOK
<1>4. AllConsistent(ApplyOutcome(jobs, worker.job, worker.result))
    <2>1. worker.result \in Outcome
        BY DEF TypeOK, Worker
    <2>2. CASE worker.job \in DOMAIN jobs
        <3>1. RowConsistent(WithOutcome(jobs[worker.job], worker.result))
            BY <1>1, <2>1, <2>2, RewritesAreConsistent
        <3> QED
            BY <1>1, <2>1, <2>2, <3>1, ApplyOutcomeRows DEF AllConsistent, TypeOK
    <2>3. CASE worker.job \notin DOMAIN jobs
        <3>1. /\ DOMAIN ApplyOutcome(jobs, worker.job, worker.result) = DOMAIN jobs
              /\ \A j \in DOMAIN jobs :
                     ApplyOutcome(jobs, worker.job, worker.result)[j] = jobs[j]
            BY <2>3 DEF ApplyOutcome
        <3> QED
            BY <1>1, <3>1 DEF AllConsistent
    <2> QED
        BY <2>2, <2>3
<1> QED
    BY <1>2, <1>3, <1>4

\* A row never mixes two lives: its timestamps and outcome fields are those
\* of the state it shows, in memory and on disk, whatever order cancels,
\* retries, recoveries and late outcomes hit it in.
THEOREM RowsStayConsistent == Spec => []RowsConsistent
<1> DEFINE Inv == AllConsistent(jobs) /\ AllConsistent(disk.jobs)
<1>1. Init => Inv
    BY InitialRowsConsistent DEF Init, AllConsistent
<1>2. TypeOK /\ Inv /\ [Next]_vars => Inv'
    <2> SUFFICES ASSUME TypeOK, Inv, [Next]_vars PROVE Inv'
        OBVIOUS
    <2>1. ASSUME AllConsistent(jobs'), disk' = disk \/ disk'.jobs = jobs' PROVE Inv'
        BY <2>1
    <2>2. ASSUME UNCHANGED docVars PROVE Inv'
        BY <2>2 DEF docVars
    <2>3. ASSUME NEW served \in SUBSET Library, NEW skipped \in SUBSET Library,
                 NEW name \in Library, NEW ok \in SaveResult,
                 BringUp(served, skipped, name, ok)
          PROVE  Inv'
        <3>1. AllConsistent(FailJobsAgainst(PinUnnamedJobs(disk.jobs, PinTarget), skipped))
            BY PlansAssumption, BringUpConsistent DEF TypeOK, Document
        <3> QED
            BY <2>1, <2>3, <3>1 DEF BringUp, Save
    <2>4. ASSUME Exit PROVE Inv'
        BY <2>4 DEF Exit, AllConsistent
    <2>5. ASSUME NEW ok \in SaveResult, WorkerRecover(ok) PROVE Inv'
        BY <2>1, <2>5, WorkerConsistent DEF WorkerRecover, Save
    <2>6. ASSUME NEW i \in DOMAIN jobs, NEW ok \in SaveResult, WorkerPull(i, ok) PROVE Inv'
        <3>1. i \in PendingAt(jobs)
            BY <2>6 DEF WorkerPull, PullChoice
        <3> QED
            BY <2>1, <2>6, <3>1, WorkerConsistent DEF WorkerPull, Save
    <2>7. ASSUME NEW ok \in SaveResult, WorkerRecord(ok) PROVE Inv'
        BY <2>1, <2>7, WorkerConsistent DEF WorkerRecord, Save
    <2>8. ASSUME NEW c \in Client, RpcNext(c) PROVE Inv'
        BY <2>1, <2>8, RequestRows, RequestConsistent DEF RequestRewrites
    <2>9. ASSUME \/ InitiateShutdown \/ LibraryNext \/ UNCHANGED vars
                 \/ WorkerShutdown \/ WorkerWake \/ WorkerFindNothing \/ RunnerStart
                 \/ \E result \in Outcome, process \in BOOLEAN : RunnerReturn(result, process)
          PROVE  Inv'
        BY <2>2, <2>9 DEF InitiateShutdown, LibraryNext, Mount, Unmount, LibraryStep,
           WorkerShutdown, WorkerWake, WorkerFindNothing, RunnerStart, RunnerReturn, vars
    <2> QED
        BY <2>3, <2>4, <2>5, <2>6, <2>7, <2>8, <2>9 DEF Next, Lifecycle, WorkerNext
<1>3. Inv => RowsConsistent
    BY DEF AllConsistent, RowsConsistent
<1> QED
    BY <1>1, <1>2, <1>3, TypeCorrect, PTL DEF Spec

-----------------------------------------------------------------------------
(* No stranded rows.                                                       *)

\* A bring-up that plans every library leaves no live row against one it
\* does not serve: unnamed rows are pinned, rows of skipped libraries fail.
LEMMA BringUpServesLiveRows ==
    ASSUME NEW js \in Seq(QueueJob), NEW target \in Library,
           NEW served \in SUBSET Library, NEW skipped \in SUBSET Library,
           served \cup skipped = Library,
           NEW i \in DOMAIN js,
           Live(FailJobsAgainst(PinUnnamedJobs(js, target), skipped)[i])
    PROVE  FailJobsAgainst(PinUnnamedJobs(js, target), skipped)[i].library \in served
<1> DEFINE pinned == PinUnnamedJobs(js, target)
<1>1. js[i] \in QueueJob
    BY RowType
<1>2. /\ pinned \in Seq(QueueJob)
      /\ i \in DOMAIN pinned
      /\ pinned[i] = IF js[i].library = Unnamed /\ (Live(js[i]) \/ js[i].state \in RETRYABLE_STATES)
                     THEN [js[i] EXCEPT !.library = target]
                     ELSE js[i]
    BY PinUnnamedRows
<1>3. pinned[i] \in QueueJob
    BY <1>1, <1>2 DEF QueueJob
<1>4. Live(pinned[i]) => pinned[i].library \in Library
    <2>1. CASE js[i].library = Unnamed /\ (Live(js[i]) \/ js[i].state \in RETRYABLE_STATES)
        <3>1. [js[i] EXCEPT !.library = target].library = target
            BY <1>1 DEF QueueJob
        <3> QED
            BY <1>2, <2>1, <3>1
    <2>2. CASE ~ (js[i].library = Unnamed /\ (Live(js[i]) \/ js[i].state \in RETRYABLE_STATES))
        <3>1. pinned[i] = js[i]
            BY <1>2, <2>2
        <3>2. js[i].library \in Library \cup {Unnamed}
            BY <1>1 DEF QueueJob
        <3> QED
            BY <2>2, <3>1, <3>2
    <2> QED
        BY <2>1, <2>2
<1> HIDE DEF pinned
<1> DEFINE failed == FailJobsAgainst(pinned, skipped)
<1>5. failed[i] = IF Live(pinned[i]) /\ pinned[i].library \in skipped
                  THEN WithOutcome(pinned[i], "failed") ELSE pinned[i]
    <2>1. pinned \in Seq(QueueJob) /\ i \in DOMAIN pinned
        BY <1>2
    <2>2. \A k \in DOMAIN pinned :
              failed[k] = IF Live(pinned[k]) /\ pinned[k].library \in skipped
                          THEN WithOutcome(pinned[k], "failed") ELSE pinned[k]
        BY <2>1, FailJobsRows
    <2> HIDE DEF failed
    <2> QED
        BY <2>1, <2>2
<1>6. ~Live(WithOutcome(pinned[i], "failed"))
    BY <1>3, RewrittenState DEF Live, Outcome
<1>7. Live(failed[i])
    BY DEF pinned
<1> HIDE DEF failed
<1>8. failed[i] = pinned[i] /\ Live(pinned[i]) /\ pinned[i].library \notin skipped
    BY <1>5, <1>6, <1>7
<1>9. failed[i].library \in served
    BY <1>4, <1>8
<1> QED
    BY <1>9 DEF failed, pinned

\* A worker step makes no row live, and moves none to another library.
LEMMA WorkerKeepsServed ==
    ASSUME TypeOK, NoStrandedRows, mounted' = mounted,
           \/ jobs' = CrashRecoveryReset(jobs)
           \/ \E i \in PendingAt(jobs) : jobs' = PullPending(jobs, i)
           \/ jobs' = ApplyOutcome(jobs, worker.job, worker.result)
    PROVE  NoStrandedRows'
<1> SUFFICES ASSUME NEW j \in DOMAIN jobs', Live(jobs'[j])
             PROVE  jobs'[j].library \in mounted
    BY DEF NoStrandedRows
<1>1. \A i \in DOMAIN jobs : jobs[i] \in QueueJob
    BY RowType DEF TypeOK
<1>2. CASE jobs' = CrashRecoveryReset(jobs)
    <2>1. j \in DOMAIN jobs
        BY <1>2, CrashRecoveryRows DEF TypeOK
    <2>2. CASE jobs[j].state = "running"
        <3>1. jobs'[j] = [jobs[j] EXCEPT !.state = "pending", !.started = FALSE]
            BY <1>2, <2>1, <2>2, CrashRecoveryRows DEF TypeOK
        <3>2. jobs'[j].library = jobs[j].library
            BY <1>1, <2>1, <3>1 DEF QueueJob
        <3> QED
            BY <2>1, <2>2, <3>2 DEF NoStrandedRows, Live
    <2>3. CASE jobs[j].state # "running"
        <3>1. jobs'[j] = jobs[j]
            BY <1>2, <2>1, <2>3, CrashRecoveryRows DEF TypeOK
        <3> QED
            BY <2>1, <3>1 DEF NoStrandedRows
    <2> QED
        BY <2>2, <2>3
<1>3. ASSUME NEW i \in PendingAt(jobs), jobs' = PullPending(jobs, i)
      PROVE  jobs'[j].library \in mounted
    <2>1. i \in DOMAIN jobs /\ Live(jobs[i])
        BY DEF PendingAt, Live
    <2>2. j \in DOMAIN jobs
        BY <1>3, <2>1, PullPendingRows DEF TypeOK
    <2>3. CASE j = i
        <3>1. jobs'[j] = Started(jobs[i])
            BY <1>3, <2>1, <2>3, PullPendingRows DEF TypeOK
        <3> QED
            BY <1>1, <2>1, <3>1, RewrittenState DEF NoStrandedRows
    <2>4. CASE j # i
        <3>1. jobs'[j] = jobs[j]
            BY <1>3, <2>1, <2>2, <2>4, PullPendingRows DEF TypeOK
        <3> QED
            BY <2>2, <3>1 DEF NoStrandedRows
    <2> QED
        BY <2>3, <2>4
<1>4. CASE jobs' = ApplyOutcome(jobs, worker.job, worker.result)
    <2>1. worker.result \in Outcome
        BY DEF TypeOK, Worker
    <2>2. j \in DOMAIN jobs
        BY <1>4 DEF ApplyOutcome
    <2>3. CASE j = worker.job
        <3>1. jobs'[j] = WithOutcome(jobs[j], worker.result)
            BY <1>4, <2>2, <2>3 DEF ApplyOutcome
        <3>2. ~Live(jobs'[j])
            BY <1>1, <2>1, <2>2, <3>1, RewrittenState DEF Live, Outcome
        <3> QED
            BY <3>2
    <2>4. CASE j # worker.job
        <3>1. jobs'[j] = jobs[j]
            BY <1>4, <2>2, <2>4 DEF ApplyOutcome
        <3> QED
            BY <2>2, <3>1 DEF NoStrandedRows
    <2> QED
        BY <2>3, <2>4
<1> QED
    BY <1>2, <1>3, <1>4

\* A request makes a row live only for a library that is served.
LEMMA RequestServed ==
    ASSUME TypeOK, RequestRewrites, NoStrandedRows
    PROVE  NoStrandedRows'
<1> SUFFICES ASSUME NEW i \in DOMAIN jobs', Live(jobs'[i])
             PROVE  jobs'[i].library \in mounted'
    BY DEF NoStrandedRows
<1>1. Requested(i) /\ mounted' = mounted
    BY DEF RequestRewrites, libVars
<1>2. CASE i \in DOMAIN jobs
    <2>1. jobs[i] \in QueueJob
        BY <1>2, RowType DEF TypeOK
    <2>2. ~Live(Cancelled(jobs[i])) /\ ResetForRetry(jobs[i]).library = jobs[i].library
        BY <2>1, RewrittenState DEF Live
    <2> QED
        BY <1>1, <1>2, <2>2 DEF Requested, NoStrandedRows
<1>3. CASE i \notin DOMAIN jobs
    BY <1>1, <1>3 DEF Requested, NewJob
<1> QED
    BY <1>2, <1>3

\* When every bring-up plans the whole registry, no row waits for, or runs
\* against, a library the registry does not serve (enqueue_against,
\* unmount_library, fail_jobs_against_libraries).
THEOREM NoRowIsStranded ==
    ASSUME StartPlans = {Library}
    PROVE  Spec => []NoStrandedRows
<1>1. Init => NoStrandedRows
    BY DEF Init, NoStrandedRows
<1>2. TypeOK /\ NoStrandedRows /\ [Next]_vars => NoStrandedRows'
    <2> SUFFICES ASSUME TypeOK, NoStrandedRows, [Next]_vars PROVE NoStrandedRows'
        OBVIOUS
    <2>1. ASSUME NEW served \in SUBSET Library, NEW skipped \in SUBSET Library,
                 NEW name \in Library, NEW ok \in SaveResult,
                 BringUp(served, skipped, name, ok)
          PROVE  NoStrandedRows'
        <3> DEFINE adjusted == FailJobsAgainst(PinUnnamedJobs(disk.jobs, PinTarget), skipped)
        <3>1. served \cup skipped = Library /\ mounted' = served /\ jobs' = adjusted
            BY <2>1 DEF BringUp
        <3>2. disk.jobs \in Seq(QueueJob)
            BY DEF TypeOK, Document
        <3>3. DOMAIN adjusted = DOMAIN disk.jobs
            BY <3>2, PlansAssumption, PinUnnamedRows, FailJobsRows
        <3>4. \A i \in DOMAIN disk.jobs : Live(adjusted[i]) => adjusted[i].library \in served
            BY <3>1, <3>2, PlansAssumption, BringUpServesLiveRows
        <3> QED
            BY <3>1, <3>3, <3>4 DEF NoStrandedRows
    <2>2. ASSUME UNCHANGED <<jobs, mounted>> PROVE NoStrandedRows'
        BY <2>2 DEF NoStrandedRows
    <2>3. ASSUME Exit PROVE NoStrandedRows'
        BY <2>3 DEF Exit, NoStrandedRows
    <2>4. ASSUME \/ \E ok \in SaveResult : WorkerRecover(ok)
                 \/ \E i \in DOMAIN jobs, ok \in SaveResult : WorkerPull(i, ok)
                 \/ \E ok \in SaveResult : WorkerRecord(ok)
          PROVE  NoStrandedRows'
        BY <2>4, WorkerKeepsServed DEF WorkerRecover, WorkerPull, WorkerRecord,
           WorkerStep, libVars, PullChoice
    <2>5. ASSUME NEW c \in Client, RpcNext(c) PROVE NoStrandedRows'
        BY <2>5, RequestRows, RequestServed
    <2>6. ASSUME NEW lib \in Library, Mount(lib) PROVE NoStrandedRows'
        BY <2>6 DEF Mount, LibraryStep, docVars, NoStrandedRows
    <2>7. ASSUME NEW lib \in Library, Unmount(lib) PROVE NoStrandedRows'
        <3>1. jobs' = jobs /\ mounted' = mounted \ {lib} /\ QueuedAgainst(jobs, lib) = {}
            BY <2>7 DEF Unmount, LibraryStep, docVars
        <3>2. \A i \in DOMAIN jobs : Live(jobs[i]) => jobs[i].library # lib
            BY <3>1 DEF QueuedAgainst
        <3> QED
            BY <3>1, <3>2 DEF NoStrandedRows
    <2>8. ASSUME \/ InitiateShutdown \/ UNCHANGED vars
                 \/ WorkerShutdown \/ WorkerWake \/ WorkerFindNothing \/ RunnerStart
                 \/ \E result \in Outcome, process \in BOOLEAN : RunnerReturn(result, process)
          PROVE  NoStrandedRows'
        BY <2>2, <2>8 DEF InitiateShutdown, WorkerShutdown, WorkerWake, WorkerFindNothing,
           RunnerStart, RunnerReturn, WorkerStep, docVars, libVars, vars
    <2> QED
        BY <2>1, <2>3, <2>4, <2>5, <2>6, <2>7, <2>8
        DEF Next, Lifecycle, WorkerNext, LibraryNext
<1> QED
    BY <1>1, <1>2, TypeCorrect, PTL DEF Spec

-----------------------------------------------------------------------------
(* The pause flag.                                                         *)

\* The worker runs inside the daemon, and only a runner that may fail at the
\* process level reports such a failure.
PauseInv ==
    /\ PauseIsOnDisk
    /\ worker.pc # "exited" => up
    /\ worker.process => ProcessFailures

\* Every step keeps the pause flag in memory and on disk together, as long
\* as process failures and failing saves do not meet.
LEMMA PauseStep ==
    ASSUME ~SaveFailures \/ ~ProcessFailures, TypeOK, PauseInv, [Next]_vars
    PROVE  PauseInv'
<1> USE DEF PauseInv, PauseIsOnDisk
<1>1. ASSUME NEW served \in SUBSET Library, NEW skipped \in SUBSET Library,
             NEW name \in Library, NEW ok \in SaveResult,
             BringUp(served, skipped, name, ok)
      PROVE  PauseInv'
    BY <1>1 DEF BringUp, Save, At
<1>2. ASSUME Exit PROVE PauseInv'
    BY <1>2 DEF Exit, At
<1>3. ASSUME UNCHANGED <<paused, disk, up, worker>> PROVE PauseInv'
    BY <1>3
<1>4. ASSUME \/ InitiateShutdown \/ LibraryNext \/ UNCHANGED vars PROVE PauseInv'
    BY <1>3, <1>4 DEF InitiateShutdown, LibraryNext, Mount, Unmount, LibraryStep,
       docVars, procVars, vars
<1>5. ASSUME \/ \E ok \in SaveResult : WorkerRecover(ok)
             \/ \E i \in DOMAIN jobs, ok \in SaveResult : WorkerPull(i, ok)
      PROVE  PauseInv'
    BY <1>5 DEF WorkerRecover, WorkerPull, WorkerStep, procVars, Save, At
<1>6. ASSUME WorkerShutdown \/ WorkerWake \/ WorkerFindNothing
      PROVE  PauseInv'
    BY <1>6 DEF WorkerShutdown, WorkerWake, WorkerFindNothing, WorkerStep,
       docVars, procVars, At
<1>7. ASSUME \/ RunnerStart
             \/ \E result \in Outcome, process \in BOOLEAN : RunnerReturn(result, process)
      PROVE  PauseInv'
    <2>1. /\ UNCHANGED <<paused, disk, up>>
          /\ worker.pc # "exited"
          /\ worker'.process => worker.process \/ ProcessFailures
        BY <1>7 DEF RunnerStart, RunnerReturn, WorkerStep, docVars, procVars,
           TypeOK, Worker
    <2> QED
        BY <2>1
<1>8. ASSUME NEW ok \in SaveResult, WorkerRecord(ok) PROVE PauseInv'
    <2>1. ok \in BOOLEAN /\ (~ok => SaveFailures)
        BY DEF SaveResult
    <2>2. /\ UNCHANGED up
          /\ worker' = At("idle")
          /\ worker.pc = "finished"
          /\ disk' = IF ok THEN [jobs |-> jobs', paused |-> paused \/ worker.process] ELSE disk
          /\ paused' = ((paused \/ worker.process) /\ (worker.process => ok))
        BY <1>8 DEF WorkerRecord, WorkerStep, procVars, Save
    <2>3. up' /\ ~worker'.process
        BY <2>2 DEF At
    <2>4. CASE ok
        BY <2>2, <2>3, <2>4
    <2>5. CASE ~ok
        <3>1. ~worker.process /\ disk' = disk
            BY <2>1, <2>2, <2>5
        <3>2. paused' = paused
            BY <2>2, <3>1 DEF TypeOK
        <3> QED
            BY <2>2, <2>3, <3>1, <3>2
    <2> QED
        BY <2>1, <2>4, <2>5
<1>9. ASSUME NEW c \in Client, RpcNext(c) PROVE PauseInv'
    <2>1. worker' = worker /\ up' = up
        BY <1>9, RequestRows DEF RequestRewrites, procVars
    <2>2. ASSUME NEW js, NEW ok \in SaveResult, MutateJobsAndPersist(c, js, ok)
          PROVE  paused' = paused /\ (disk' = disk \/ disk'.paused = paused)
        BY <2>2 DEF MutateJobsAndPersist, Save
    <2>3. ASSUME NEW flag \in BOOLEAN, NEW ok \in SaveResult, ApplyPause(c, flag, ok)
          PROVE  disk'.paused = paused' \/ (disk' = disk /\ paused' = paused)
        BY <2>3 DEF ApplyPause, Save, RestoredOnFailure
    <2>4. ASSUME \/ \E lib \in Library : SubmitResolve(c, lib)
                 \/ SubmitRefused(c) \/ StorePausedFlag(c)
                 \/ ClearFailurePause(c) \/ PublishTick(c)
          PROVE  disk' = disk /\ paused' = paused
        BY <2>4 DEF SubmitResolve, SubmitRefused, StorePausedFlag,
           ClearFailurePause, PublishTick, docVars
    <2> QED
        BY <1>9, <2>1, <2>2, <2>3, <2>4
        DEF RpcNext, SubmitEnqueue, Cancel, RetryJob, Clear, RetryState
<1> QED
    BY <1>1, <1>2, <1>4, <1>5, <1>6, <1>7, <1>8, <1>9
    DEF Next, Lifecycle, WorkerNext

\* PauseInv is an invariant under the same hypothesis.
LEMMA PauseInvariant ==
    ASSUME ~SaveFailures \/ ~ProcessFailures
    PROVE  Spec => [](TypeOK /\ PauseInv)
<1>1. Init => PauseInv
    BY DEF Init, PauseInv, PauseIsOnDisk, At
<1>2. TypeOK /\ PauseInv /\ [Next]_vars => PauseInv'
    BY PauseStep
<1> QED
    BY <1>1, <1>2, TypeCorrect, PTL DEF Spec

\* The pause flag in memory is the one a restart loads, unless a process
\* failure is recorded by a save that fails (apply_pause, worker_loop).
THEOREM PauseStaysOnDisk ==
    ASSUME ~SaveFailures \/ ~ProcessFailures
    PROVE  Spec => []PauseIsOnDisk
<1>1. TypeOK /\ PauseInv => PauseIsOnDisk
    BY DEF PauseInv
<1> QED
    BY <1>1, PauseInvariant, PTL

\* No job is picked up while the document on disk says paused: the flag is
\* read again under the queue mutex (pull_pending).
THEOREM PausedQueuesStartNothing ==
    ASSUME ~SaveFailures \/ ~ProcessFailures
    PROVE  Spec => NoPickupWhilePaused
<1>1. TypeOK /\ PauseInv /\ [Next]_vars => [Pickup => ~disk.paused]_vars
    <2> SUFFICES ASSUME TypeOK, PauseInv, Next, Pickup PROVE ~disk.paused
        BY DEF vars, docVars, Pickup
    <2>1. worker.pc = "ready" /\ worker'.pc = "pulled"
        BY DEF Pickup
    <2>2. PICK i \in DOMAIN jobs, ok \in SaveResult : WorkerPull(i, ok)
        <3>1. ~ \E served, skipped \in SUBSET Library, name \in Library, ok \in SaveResult :
                   BringUp(served, skipped, name, ok)
            <4>1. ASSUME NEW served, NEW skipped, NEW name, NEW ok,
                         BringUp(served, skipped, name, ok)
                  PROVE  worker'.pc = "boot"
                BY <4>1 DEF BringUp, At
            <4> QED
                BY <2>1, <4>1
        <3>2. ~ (InitiateShutdown \/ Exit \/ LibraryNext)
            BY <2>1 DEF InitiateShutdown, Exit, At, LibraryNext, Mount, Unmount, LibraryStep
        <3>3. ~ \E c \in Client : RpcNext(c)
            BY <2>1, RequestRows DEF RequestRewrites
        <3>4. ~ (\E ok \in SaveResult : WorkerRecover(ok) \/ WorkerRecord(ok))
            BY <2>1 DEF WorkerRecover, WorkerRecord
        <3>5. ~ (WorkerShutdown \/ WorkerWake \/ WorkerFindNothing \/ RunnerStart)
            BY <2>1 DEF WorkerShutdown, WorkerWake, WorkerFindNothing, RunnerStart, At
        <3>6. ~ \E result \in Outcome, process \in BOOLEAN : RunnerReturn(result, process)
            BY <2>1 DEF RunnerReturn
        <3> QED
            BY <3>1, <3>2, <3>3, <3>4, <3>5, <3>6 DEF Next, Lifecycle, WorkerNext
    <2>3. ~paused
        BY <2>2 DEF WorkerPull, PullChoice
    <2> QED
        BY <2>1, <2>3 DEF PauseInv, PauseIsOnDisk
<1> QED
    BY <1>1, PauseInvariant, PTL DEF NoPickupWhilePaused, Spec

-----------------------------------------------------------------------------
(* The degraded cause.                                                     *)

\* A resume on its way to clear the cause.
Clearing(c) == rpc[c].pc = "undegrade" \/ (rpc[c].pc = "store" /\ ~rpc[c].flag)

DegradedInv == degraded => paused \/ \E c \in Client : Clearing(c)

\* A request of client c leaves the others' alone.
LEMMA OneCall ==
    ASSUME NEW c \in Client, RpcNext(c), rpc \in [Client -> Call]
    PROVE  \A d \in Client \ {c} : rpc'[d] = rpc[d]
BY DEF RpcNext, SubmitResolve, SubmitEnqueue, SubmitRefused, Cancel, RetryJob, Clear, RetryState,
   ApplyPause, StorePausedFlag, ClearFailurePause, PublishTick, MutateJobsAndPersist, Then

LEMMA DegradedStep ==
    ASSUME ~SaveFailures \/ ~ProcessFailures, TypeOK, PauseInv, DegradedInv, [Next]_vars
    PROVE  DegradedInv'
<1>1. ASSUME NEW served \in SUBSET Library, NEW skipped \in SUBSET Library,
             NEW name \in Library, NEW ok \in SaveResult,
             BringUp(served, skipped, name, ok)
      PROVE  DegradedInv'
    BY <1>1 DEF BringUp, DegradedInv
<1>2. ASSUME Exit PROVE DegradedInv'
    BY <1>2 DEF Exit, DegradedInv
<1>3. ASSUME UNCHANGED <<paused, degraded, rpc>> PROVE DegradedInv'
    BY <1>3 DEF DegradedInv, Clearing
<1>4. ASSUME \/ InitiateShutdown \/ LibraryNext \/ UNCHANGED vars
             \/ WorkerShutdown \/ WorkerWake \/ WorkerFindNothing \/ RunnerStart
             \/ \E result \in Outcome, process \in BOOLEAN : RunnerReturn(result, process)
             \/ \E ok \in SaveResult : WorkerRecover(ok)
             \/ \E i \in DOMAIN jobs, ok \in SaveResult : WorkerPull(i, ok)
      PROVE  DegradedInv'
    BY <1>3, <1>4 DEF InitiateShutdown, LibraryNext, Mount, Unmount, LibraryStep, WorkerShutdown,
       WorkerWake, WorkerFindNothing, RunnerStart, RunnerReturn, WorkerRecover, WorkerPull,
       WorkerStep, docVars, flagVars, vars
<1>5. ASSUME NEW ok \in SaveResult, WorkerRecord(ok) PROVE DegradedInv'
    <2>1. ok \in BOOLEAN /\ (~ok => SaveFailures) /\ (worker.process => ProcessFailures)
        BY DEF SaveResult, PauseInv
    <2>2. /\ paused' = ((paused \/ worker.process) /\ (worker.process => ok))
          /\ degraded' = (degraded \/ (worker.process /\ ok))
          /\ rpc' = rpc
        BY <1>5 DEF WorkerRecord, WorkerStep
    <2> QED
        BY <2>1, <2>2 DEF DegradedInv, Clearing
<1>6. ASSUME NEW c \in Client, RpcNext(c) PROVE DegradedInv'
    <2>0. \A d \in Client \ {c} : rpc'[d] = rpc[d]
        BY <1>6, OneCall DEF TypeOK
    <2>1. ASSUME UNCHANGED <<paused, degraded>>, ~Clearing(c) PROVE DegradedInv'
        BY <2>0, <2>1 DEF DegradedInv, Clearing
    <2>2. ASSUME \/ SubmitRefused(c) \/ PublishTick(c)
                 \/ \E lib \in Library : SubmitResolve(c, lib)
                 \/ \E n \in 1..MaxJobs, prio \in SubmitPriorities, ok \in SaveResult :
                        SubmitEnqueue(c, n, prio, ok)
                 \/ \E i \in DOMAIN jobs, ok \in SaveResult : Cancel(c, i, ok) \/ RetryJob(c, i, ok)
                 \/ \E ok \in SaveResult : Clear(c, ok)
                 \/ \E wanted \in RETRYABLE_STATES, ok \in SaveResult : RetryState(c, wanted, ok)
          PROVE  DegradedInv'
        BY <2>1, <2>2 DEF SubmitRefused, PublishTick, SubmitResolve, SubmitEnqueue, Cancel, RetryJob,
           Clear, RetryState, MutateJobsAndPersist, Issue, Clearing, docVars, flagVars
    <2>3. ASSUME NEW flag \in BOOLEAN, NEW ok \in SaveResult, ApplyPause(c, flag, ok)
          PROVE  DegradedInv'
        <3>1. degraded' = degraded /\ ~Clearing(c) /\ c \in Client
            BY <2>3 DEF ApplyPause, Issue, flagVars, Clearing
        <3>2. CASE ok
            <4>1. paused' = flag
                BY <2>3, <3>2 DEF ApplyPause, RestoredOnFailure
            <4>2. rpc' = [rpc EXCEPT ![c] = [NoCall EXCEPT !.pc = "store", !.flag = flag,
                                                           !.tick = DeriveTick(jobs)]]
                BY <2>3, <3>2 DEF ApplyPause, Then
            <4>3. rpc'[c].pc = "store" /\ rpc'[c].flag = flag
                BY <4>2 DEF TypeOK, NoCall
            <4> QED
                BY <4>1, <4>3 DEF DegradedInv, Clearing
        <3>3. CASE ~ok
            BY <2>1, <2>3, <3>1, <3>3 DEF ApplyPause, RestoredOnFailure
        <3> QED
            BY <3>2, <3>3
    <2>4. ASSUME StorePausedFlag(c) PROVE DegradedInv'
        <3>1. UNCHANGED <<paused, degraded>> /\ rpc[c].pc = "store"
            BY <2>4 DEF StorePausedFlag, docVars
        <3>2. CASE rpc[c].flag
            BY <2>1, <3>1, <3>2 DEF Clearing
        <3>3. CASE ~rpc[c].flag
            <4>1. rpc'[c].pc = "undegrade"
                BY <2>4, <3>3 DEF StorePausedFlag, Then, TypeOK, NoCall
            <4> QED
                BY <4>1 DEF DegradedInv, Clearing
        <3> QED
            BY <3>2, <3>3
    <2>5. ASSUME ClearFailurePause(c) PROVE DegradedInv'
        BY <2>5 DEF ClearFailurePause, DegradedInv
    <2> QED
        BY <1>6, <2>2, <2>3, <2>4, <2>5 DEF RpcNext
<1> QED
    BY <1>1, <1>2, <1>4, <1>5, <1>6 DEF Next, Lifecycle, WorkerNext

\* The daemon reports the failure pause only while its queue is paused or a
\* resume is about to clear it, unless a process failure is recorded by a
\* save that fails (apply_pause, worker_loop).
THEOREM DegradedQueuesArePaused ==
    ASSUME ~SaveFailures \/ ~ProcessFailures
    PROVE  Spec => []DegradedMeansPaused
<1>1. Init => DegradedInv
    BY DEF Init, DegradedInv
<1>2. TypeOK /\ PauseInv /\ DegradedInv /\ [Next]_vars => DegradedInv'
    BY DegradedStep
<1>3. DegradedInv => DegradedMeansPaused
    BY DEF DegradedInv, Clearing, DegradedMeansPaused
<1> QED
    BY <1>1, <1>2, <1>3, PauseInvariant, PTL DEF Spec

-----------------------------------------------------------------------------
(* The ledger of a document.                                               *)

LEMMA StatusType == \A job \in QueueJob : StatusOf(job) \in Promised!Status
BY DEF StatusOf, Promised!Status, QueueJob, JobState, RETRYABLE_STATES

LEMMA LedgerRows ==
    ASSUME NEW js \in Seq(QueueJob)
    PROVE  /\ Ledger(js) \in Seq(Promised!Status)
           /\ DOMAIN Ledger(js) = DOMAIN js
           /\ Len(Ledger(js)) = Len(js)
           /\ \A i \in DOMAIN js : Ledger(js)[i] = StatusOf(js[i])
<1>1. DOMAIN js = 1..Len(js) /\ Len(js) \in Nat
    BY LenProperties
<1>2. Ledger(js) \in [1..Len(js) -> Promised!Status]
    BY <1>1, RowType, StatusType DEF Ledger
<1>3. Ledger(js) \in Seq(Promised!Status)
    BY <1>1, <1>2, SeqDef
<1>4. DOMAIN Ledger(js) = DOMAIN js /\ \A i \in DOMAIN js : Ledger(js)[i] = StatusOf(js[i])
    BY DEF Ledger
<1>5. Len(Ledger(js)) = Len(js)
    BY <1>1, <1>3, <1>4, LenProperties
<1> QED
    BY <1>3, <1>4, <1>5

\* Documents whose rows mean the same have the same ledger.
LEMMA SameLedger ==
    ASSUME NEW js, NEW ks, DOMAIN ks = DOMAIN js,
           \A i \in DOMAIN js : StatusOf(ks[i]) = StatusOf(js[i])
    PROVE  Ledger(ks) = Ledger(js)
BY DEF Ledger

\* What one row's rewrite is to the ledger.
LEMMA RewrittenStatus ==
    ASSUME NEW job \in QueueJob
    PROVE  /\ StatusOf(Started(job)) = "running"
           /\ StatusOf(Cancelled(job)) = "open"
           /\ StatusOf(ResetForRetry(job)) = "waiting"
           /\ \A outcome \in Outcome : StatusOf(WithOutcome(job, outcome)) \in {"open", "closed"}
           /\ StatusOf(WithOutcome(job, "failed")) = "open"
           /\ job.state = "pending" => StatusOf(job) = "waiting"
           /\ job.state = "running" => StatusOf(job) = "running"
           /\ job.state \in RETRYABLE_STATES => StatusOf(job) = "open"
<1>1. /\ Started(job).state = "running" /\ Cancelled(job).state = "cancelled"
      /\ ResetForRetry(job).state = "pending"
      /\ \A outcome \in Outcome : WithOutcome(job, outcome).state = outcome
    BY RewrittenState
<1>2. /\ StatusOf(Started(job)) = "running"
      /\ StatusOf(Cancelled(job)) = "open"
      /\ StatusOf(ResetForRetry(job)) = "waiting"
    BY <1>1 DEF StatusOf, RETRYABLE_STATES
<1>3. ASSUME NEW outcome \in Outcome
      PROVE  StatusOf(WithOutcome(job, outcome)) \in {"open", "closed"}
    <2>1. WithOutcome(job, outcome).state = outcome
        BY <1>1
    <2> QED
        BY <2>1 DEF StatusOf, Outcome
<1>4. StatusOf(WithOutcome(job, "failed")) = "open"
    <2>1. "failed" \in Outcome
        BY DEF Outcome
    <2>2. WithOutcome(job, "failed").state = "failed"
        BY <1>1, <2>1
    <2> QED
        BY <2>2 DEF StatusOf, RETRYABLE_STATES
<1>5. /\ job.state = "pending" => StatusOf(job) = "waiting"
      /\ job.state = "running" => StatusOf(job) = "running"
      /\ job.state \in RETRYABLE_STATES => StatusOf(job) = "open"
    BY DEF StatusOf, RETRYABLE_STATES
<1> QED
    BY <1>2, <1>3, <1>4, <1>5

LEMMA FreshStatus ==
    ASSUME NEW lib \in Library, NEW prio \in Priority
    PROVE  StatusOf(NewJob(lib, prio)) = "waiting"
<1>1. NewJob(lib, prio) \in QueueJob /\ NewJob(lib, prio).state = "pending"
    BY DEF NewJob, QueueJob, JobState, Note
<1> QED
    BY <1>1, RewrittenStatus

-----------------------------------------------------------------------------
(* A call is only under way while the daemon is up, and the row the worker *)
(* is busy with is never a closed one: requests under a running job cancel *)
(* it and queue it again, but only its own result closes it.               *)

LedgerInv ==
    /\ \A c \in Client : rpc[c].pc # "idle" => up
    /\ Busy => worker.job \in DOMAIN jobs /\ StatusOf(jobs[worker.job]) # "closed"

LEMMA RequestsNeedTheDaemon ==
    ASSUME LedgerInv, NEW c \in Client, RpcNext(c)
    PROVE  up
BY DEF LedgerInv, RpcNext, SubmitResolve, SubmitEnqueue, SubmitRefused, Cancel, RetryJob, Clear,
   RetryState, ApplyPause, StorePausedFlag, ClearFailurePause, PublishTick, Issue

LEMMA LedgerInvStep == TypeOK /\ LedgerInv /\ [Next]_vars => LedgerInv'
<1> SUFFICES ASSUME TypeOK, LedgerInv, [Next]_vars PROVE LedgerInv'
    OBVIOUS
<1>1. ASSUME NEW served \in SUBSET Library, NEW skipped \in SUBSET Library,
             NEW name \in Library, NEW ok \in SaveResult, BringUp(served, skipped, name, ok)
      PROVE  LedgerInv'
    BY <1>1 DEF BringUp, LedgerInv, Busy, At
<1>2. ASSUME Exit PROVE LedgerInv'
    BY <1>2 DEF Exit, LedgerInv, Busy, At, NoCall
<1>3. ASSUME InitiateShutdown \/ LibraryNext \/ UNCHANGED vars PROVE LedgerInv'
    BY <1>3 DEF InitiateShutdown, LibraryNext, Mount, Unmount, LibraryStep, docVars, procVars, vars,
       LedgerInv, Busy
<1>4. ASSUME \/ \E ok \in SaveResult : WorkerRecover(ok) \/ WorkerRecord(ok)
             \/ WorkerShutdown \/ WorkerWake \/ WorkerFindNothing
      PROVE  LedgerInv'
    BY <1>4 DEF WorkerRecover, WorkerRecord, WorkerShutdown, WorkerWake, WorkerFindNothing,
       WorkerStep, procVars, LedgerInv, Busy, At
<1>5. ASSUME NEW i \in DOMAIN jobs, NEW ok \in SaveResult, WorkerPull(i, ok) PROVE LedgerInv'
    <2>1. worker'.job = i /\ UNCHANGED <<up, rpc>>
        BY <1>5 DEF WorkerPull, WorkerStep, procVars, At
    <2>2. jobs' = PullPending(jobs, i)
        BY <1>5 DEF WorkerPull
    <2>3. DOMAIN jobs' = DOMAIN jobs /\ jobs'[i] = Started(jobs[i])
        BY <2>2, PullPendingRows DEF TypeOK
    <2>4. StatusOf(jobs'[i]) = "running"
        BY <2>3, RowType, RewrittenStatus DEF TypeOK
    <2> QED
        BY <2>1, <2>3, <2>4 DEF LedgerInv
<1>6. ASSUME \/ RunnerStart
             \/ \E result \in Outcome, process \in BOOLEAN : RunnerReturn(result, process)
      PROVE  LedgerInv'
    <2>1. worker'.job = worker.job /\ Busy /\ UNCHANGED <<up, rpc, jobs>>
        BY <1>6 DEF RunnerStart, RunnerReturn, WorkerStep, procVars, docVars, Busy, TypeOK, Worker
    <2> QED
        BY <2>1 DEF LedgerInv
<1>7. ASSUME NEW c \in Client, RpcNext(c) PROVE LedgerInv'
    <2>1. up /\ up' = up /\ worker' = worker
        BY <1>7, RequestsNeedTheDaemon, RequestRows DEF RequestRewrites, procVars
    <2>2. ASSUME Busy PROVE worker.job \in DOMAIN jobs' /\ StatusOf(jobs'[worker.job]) # "closed"
        <3>1. worker.job \in DOMAIN jobs /\ StatusOf(jobs[worker.job]) # "closed"
            BY <2>2 DEF LedgerInv
        <3>2. worker.job \in DOMAIN jobs' /\ Requested(worker.job)
            BY <1>7, <3>1, RequestRows DEF RequestRewrites
        <3>3. jobs[worker.job] \in QueueJob
            BY <3>1, RowType DEF TypeOK
        <3> QED
            BY <3>1, <3>2, <3>3, RewrittenStatus DEF Requested
    <2> QED
        BY <2>1, <2>2 DEF LedgerInv, Busy
<1> QED
    BY <1>1, <1>2, <1>3, <1>4, <1>5, <1>6, <1>7 DEF Next, Lifecycle, WorkerNext

-----------------------------------------------------------------------------
(* The steps.                                                              *)

Invs == TypeOK /\ PauseInv /\ LedgerInv

Runner == IF Busy THEN worker.job ELSE 0

\* While the daemon is up the ledger is that of the rows in memory.
LEMMA UpStep ==
    ASSUME up, up'
    PROVE  /\ Promised!Submit <=>
                 /\ Ledger(jobs') \in Seq(Promised!Status)
                 /\ Len(Ledger(jobs)) <= Len(Ledger(jobs'))
                 /\ \A i \in DOMAIN Ledger(jobs') :
                        Ledger(jobs')[i] = IF i \in DOMAIN Ledger(jobs) THEN Ledger(jobs)[i]
                                                                       ELSE "waiting"
                 /\ Ledger(disk'.jobs) = Ledger(jobs')
                 /\ disk'.paused = disk.paused /\ Runner' = Runner
           /\ Promised!Settle <=>
                 /\ Ledger(jobs') \in [DOMAIN Ledger(jobs) -> Promised!Status]
                 /\ \A i \in DOMAIN Ledger(jobs) :
                        Promised!Asked(Ledger(jobs)[i], Ledger(jobs')[i])
                 /\ Ledger(disk'.jobs) = Ledger(jobs')
                 /\ disk'.paused = disk.paused /\ Runner' = Runner
BY DEF Promised!Submit, Promised!Settle, Runner

LEMMA Stutters ==
    ASSUME UNCHANGED <<up, jobs, disk>>, Runner' = Runner
    PROVE  UNCHANGED Promised!vars
BY DEF Promised!vars, Runner

\* mutate_jobs_and_persist, once the save is through.
LEMMA RowsSettle ==
    ASSUME Invs, up, up', worker' = worker,
           jobs' \in Seq(QueueJob), DOMAIN jobs' = DOMAIN jobs,
           \A i \in DOMAIN jobs : Promised!Asked(StatusOf(jobs[i]), StatusOf(jobs'[i])),
           disk'.jobs = jobs', disk'.paused = disk.paused
    PROVE  Promised!Settle
<1>1. /\ DOMAIN Ledger(jobs) = DOMAIN jobs /\ DOMAIN Ledger(jobs') = DOMAIN jobs
      /\ \A i \in DOMAIN jobs : /\ Ledger(jobs)[i] = StatusOf(jobs[i])
                                /\ Ledger(jobs')[i] = StatusOf(jobs'[i])
    BY DEF Ledger
<1>2. Ledger(jobs') \in [DOMAIN jobs -> Promised!Status]
    BY RowType, StatusType DEF Ledger
<1>3. Runner' = Runner
    BY DEF Runner, Busy
<1> QED
    BY <1>1, <1>2, <1>3, UpStep

LEMMA RequestStep ==
    ASSUME Invs, NEW c \in Client, RpcNext(c)
    PROVE  Promised!Next \/ UNCHANGED Promised!vars
<1>0. /\ up /\ up' /\ worker' = worker /\ jobs \in Seq(QueueJob) /\ paused = disk.paused
      /\ UNCHANGED up
    BY RequestsNeedTheDaemon, RequestRows DEF RequestRewrites, procVars, Invs, TypeOK, PauseInv,
       PauseIsOnDisk
<1>1. Runner' = Runner
    BY <1>0 DEF Runner, Busy
<1>2. ASSUME NEW js \in Seq(QueueJob), NEW ok \in SaveResult, MutateJobsAndPersist(c, js, ok)
      PROVE  \/ UNCHANGED Promised!vars
             \/ jobs' = js /\ disk'.jobs = js /\ disk'.paused = disk.paused
    <2>1. CASE ok
        BY <1>0, <1>2, <2>1 DEF MutateJobsAndPersist, Save, RestoredOnFailure
    <2>2. CASE ~ok
        BY <1>0, <1>1, <1>2, <2>2, Stutters DEF MutateJobsAndPersist, Save, RestoredOnFailure
    <2> QED
        BY <2>1, <2>2
<1>3. ASSUME NEW js \in Seq(QueueJob), NEW ok \in SaveResult, MutateJobsAndPersist(c, js, ok),
             DOMAIN js = DOMAIN jobs,
             \A i \in DOMAIN jobs : Promised!Asked(StatusOf(jobs[i]), StatusOf(js[i]))
      PROVE  Promised!Next \/ UNCHANGED Promised!vars
    BY <1>0, <1>2, <1>3, RowsSettle DEF Promised!Next
<1>4. \A i \in DOMAIN jobs : jobs[i] \in QueueJob
    BY <1>0, RowType
<1>5. ASSUME NEW n \in 1..MaxJobs, NEW prio \in SubmitPriorities, NEW ok \in SaveResult,
             SubmitEnqueue(c, n, prio, ok)
      PROVE  Promised!Next \/ UNCHANGED Promised!vars
    <2> DEFINE js == EnqueueFiles(jobs, n, rpc[c].lib, prio)
    <2>1. rpc[c].lib \in mounted /\ MutateJobsAndPersist(c, js, ok)
        BY <1>5 DEF SubmitEnqueue
    <2>2. rpc[c].lib \in Library /\ n \in Nat /\ prio \in Priority
        BY <2>1, BoundsAssumption DEF Invs, TypeOK
    <2>3. /\ js \in Seq(QueueJob) /\ Len(js) = Len(jobs) + n
          /\ \A i \in DOMAIN js : js[i] = IF i \in DOMAIN jobs THEN jobs[i]
                                                           ELSE NewJob(rpc[c].lib, prio)
        BY <1>0, <2>2, EnqueueFilesRows
    <2> HIDE DEF js
    <2>4. /\ Ledger(js) \in Seq(Promised!Status) /\ Len(Ledger(jobs)) <= Len(Ledger(js))
        BY <1>0, <2>2, <2>3, LedgerRows, LenProperties
    <2>5. \A i \in DOMAIN Ledger(js) :
              Ledger(js)[i] = IF i \in DOMAIN Ledger(jobs) THEN Ledger(jobs)[i] ELSE "waiting"
        <3>1. StatusOf(NewJob(rpc[c].lib, prio)) = "waiting"
            BY <2>2, FreshStatus
        <3> QED
            BY <1>0, <2>3, <3>1, LedgerRows
    <2>6. CASE jobs' = js /\ disk'.jobs = js /\ disk'.paused = disk.paused
        <3>1. Promised!Submit
            BY <1>0, <1>1, <2>4, <2>5, <2>6, UpStep
        <3> QED
            BY <3>1 DEF Promised!Next
    <2> QED
        BY <1>2, <2>1, <2>3, <2>6
<1>6. ASSUME NEW i \in DOMAIN jobs, NEW ok \in SaveResult, Cancel(c, i, ok)
      PROVE  Promised!Next \/ UNCHANGED Promised!vars
    <2>1. Live(jobs[i]) /\ MutateJobsAndPersist(c, CancelMatching(jobs, i), ok)
        BY <1>6 DEF Cancel
    <2>2. \A j \in DOMAIN jobs :
              Promised!Asked(StatusOf(jobs[j]), StatusOf(CancelMatching(jobs, i)[j]))
        <3>1. CancelMatching(jobs, i)[i] = Cancelled(jobs[i])
              /\ \A j \in DOMAIN jobs \ {i} : CancelMatching(jobs, i)[j] = jobs[j]
            BY <1>0, CancelMatchingRows
        <3>2. StatusOf(jobs[i]) \in {"waiting", "running"} /\ StatusOf(Cancelled(jobs[i])) = "open"
            BY <1>4, <2>1, RewrittenStatus DEF Live
        <3> QED
            BY <3>1, <3>2 DEF Promised!Asked
    <2> QED
        BY <1>0, <1>3, <2>1, <2>2, CancelMatchingRows
<1>7. ASSUME NEW i \in DOMAIN jobs, NEW ok \in SaveResult, RetryJob(c, i, ok)
      PROVE  Promised!Next \/ UNCHANGED Promised!vars
    <2>1. jobs[i].state \in RETRYABLE_STATES /\ MutateJobsAndPersist(c, RetryOne(jobs, i), ok)
        BY <1>7 DEF RetryJob
    <2>2. \A j \in DOMAIN jobs : Promised!Asked(StatusOf(jobs[j]), StatusOf(RetryOne(jobs, i)[j]))
        <3>1. RetryOne(jobs, i)[i] = ResetForRetry(jobs[i])
              /\ \A j \in DOMAIN jobs \ {i} : RetryOne(jobs, i)[j] = jobs[j]
            BY <1>0, RetryOneRows
        <3>2. StatusOf(jobs[i]) = "open" /\ StatusOf(ResetForRetry(jobs[i])) = "waiting"
            BY <1>4, <2>1, RewrittenStatus
        <3> QED
            BY <3>1, <3>2 DEF Promised!Asked
    <2> QED
        BY <1>0, <1>3, <2>1, <2>2, RetryOneRows
<1>8. ASSUME NEW ok \in SaveResult, Clear(c, ok)
      PROVE  Promised!Next \/ UNCHANGED Promised!vars
    <2>1. MutateJobsAndPersist(c, CancelAllPending(jobs), ok)
        BY <1>8 DEF Clear
    <2>2. \A j \in DOMAIN jobs :
              Promised!Asked(StatusOf(jobs[j]), StatusOf(CancelAllPending(jobs)[j]))
        BY <1>0, <1>4, CancelAllRows, RewrittenStatus DEF Promised!Asked
    <2> QED
        BY <1>0, <1>3, <2>1, <2>2, CancelAllRows
<1>9. ASSUME NEW wanted \in RETRYABLE_STATES, NEW ok \in SaveResult, RetryState(c, wanted, ok)
      PROVE  Promised!Next \/ UNCHANGED Promised!vars
    <2>1. MutateJobsAndPersist(c, RetryByState(jobs, wanted, mounted), ok)
        BY <1>9 DEF RetryState
    <2>2. \A j \in DOMAIN jobs :
              Promised!Asked(StatusOf(jobs[j]), StatusOf(RetryByState(jobs, wanted, mounted)[j]))
        BY <1>0, <1>4, RetryByStateRows, RewrittenStatus DEF Promised!Asked
    <2> QED
        BY <1>0, <1>3, <2>1, <2>2, RetryByStateRows
<1>10. ASSUME NEW flag \in BOOLEAN, NEW ok \in SaveResult, ApplyPause(c, flag, ok)
       PROVE  Promised!Next \/ UNCHANGED Promised!vars
    <2>1. jobs' = jobs /\ disk' = IF ok THEN [jobs |-> jobs, paused |-> flag] ELSE disk
        BY <1>10 DEF ApplyPause, Save
    <2>2. CASE ok
        <3>1. disk'.jobs = jobs /\ disk'.paused = flag
            BY <2>1, <2>2
        <3>2. Promised!Pause(flag)
            BY <1>0, <1>1, <2>1, <3>1 DEF Promised!Pause, Runner
        <3> QED
            BY <3>2 DEF Promised!Next
    <2>3. CASE ~ok
        BY <1>0, <1>1, <2>1, <2>3, Stutters
    <2> QED
        BY <2>2, <2>3
<1>11. ASSUME \/ \E lib \in Library : SubmitResolve(c, lib)
              \/ SubmitRefused(c) \/ StorePausedFlag(c) \/ ClearFailurePause(c) \/ PublishTick(c)
       PROVE  Promised!Next \/ UNCHANGED Promised!vars
    BY <1>0, <1>1, <1>11, Stutters DEF SubmitResolve, SubmitRefused, StorePausedFlag,
       ClearFailurePause, PublishTick, docVars
<1> QED
    BY <1>5, <1>6, <1>7, <1>8, <1>9, <1>10, <1>11 DEF RpcNext

\* Pinning a row to a library leaves its state alone.
LEMMA PinnedStates ==
    ASSUME NEW js \in Seq(QueueJob)
    PROVE  LET pinned == PinUnnamedJobs(js, PinTarget)
           IN  /\ pinned \in Seq(QueueJob) /\ DOMAIN pinned = DOMAIN js
               /\ Len(pinned) = Len(js)
               /\ \A i \in DOMAIN js : pinned[i].state = js[i].state
<1> DEFINE pinned == PinUnnamedJobs(js, PinTarget)
<1>1. PinTarget \in Library
    BY PlansAssumption
<1>2. /\ pinned \in Seq(QueueJob) /\ DOMAIN pinned = DOMAIN js /\ Len(pinned) = Len(js)
      /\ \A i \in DOMAIN js : \/ pinned[i] = js[i]
                              \/ pinned[i] = [js[i] EXCEPT !.library = PinTarget]
    BY <1>1, PinUnnamedRows
<1>3. \A i \in DOMAIN js : js[i] \in QueueJob
    BY RowType
<1>4. \A i \in DOMAIN js : [js[i] EXCEPT !.library = PinTarget].state = js[i].state
    BY <1>3 DEF QueueJob
<1> HIDE DEF pinned
<1>5. \A i \in DOMAIN js : pinned[i].state = js[i].state
    BY <1>2, <1>4
<1> USE DEF pinned
<1> QED
    BY <1>2, <1>5

\* A restart shows the document it loaded; rows against the libraries it
\* skipped are given up.
LEMMA BringUpStep ==
    ASSUME Invs, NEW served, NEW skipped \in SUBSET Library, NEW name, NEW ok \in BOOLEAN,
           BringUp(served, skipped, name, ok)
    PROVE  Promised!Recover
<1> DEFINE pinned   == PinUnnamedJobs(disk.jobs, PinTarget)
           adjusted == FailJobsAgainst(pinned, skipped)
<1>0. disk.jobs \in Seq(QueueJob)
    BY DEF Invs, TypeOK, Document
<1>1. /\ pinned \in Seq(QueueJob) /\ DOMAIN pinned = DOMAIN disk.jobs
      /\ \A i \in DOMAIN disk.jobs : pinned[i].state = disk.jobs[i].state
    BY <1>0, PinnedStates
<1> HIDE DEF pinned
<1>2. /\ adjusted \in Seq(QueueJob) /\ DOMAIN adjusted = DOMAIN disk.jobs
      /\ \A i \in DOMAIN disk.jobs :
             \/ adjusted[i] = pinned[i]
             \/ Live(pinned[i]) /\ adjusted[i] = WithOutcome(pinned[i], "failed")
    BY <1>1, FailJobsRows
<1>3. /\ ~up /\ up' /\ jobs' = adjusted /\ worker' = At("boot")
      /\ disk' = IF ok /\ adjusted # disk.jobs
                 THEN [jobs |-> adjusted, paused |-> disk.paused] ELSE disk
    BY DEF BringUp, Save, pinned
<1> HIDE DEF adjusted
<1>4. \A i \in DOMAIN disk.jobs :
          \/ StatusOf(adjusted[i]) = StatusOf(disk.jobs[i])
          \/ /\ StatusOf(disk.jobs[i]) \in {"waiting", "running"}
             /\ StatusOf(adjusted[i]) \in {"waiting", "open"}
    <2> SUFFICES ASSUME NEW i \in DOMAIN disk.jobs
                 PROVE  \/ StatusOf(adjusted[i]) = StatusOf(disk.jobs[i])
                        \/ /\ StatusOf(disk.jobs[i]) \in {"waiting", "running"}
                           /\ StatusOf(adjusted[i]) \in {"waiting", "open"}
        OBVIOUS
    <2>1. pinned[i] \in QueueJob /\ StatusOf(pinned[i]) = StatusOf(disk.jobs[i])
        BY <1>1, RowType DEF StatusOf
    <2>2. CASE Live(pinned[i]) /\ adjusted[i] = WithOutcome(pinned[i], "failed")
        BY <2>1, <2>2, RewrittenStatus DEF Live
    <2> QED
        BY <1>2, <2>1, <2>2
<1>5. Runner = 0 /\ Runner' = 0
    BY <1>3 DEF Invs, PauseInv, Runner, Busy, At
<1>6. /\ DOMAIN Ledger(disk.jobs) = DOMAIN disk.jobs
      /\ Ledger(adjusted) \in [DOMAIN disk.jobs -> Promised!Status]
      /\ \A i \in DOMAIN disk.jobs : /\ Ledger(disk.jobs)[i] = StatusOf(disk.jobs[i])
                                     /\ Ledger(adjusted)[i] = StatusOf(adjusted[i])
    BY <1>2, RowType, StatusType DEF Ledger
<1>7. disk'.paused = disk.paused /\ Ledger(disk'.jobs) \in {Ledger(adjusted), Ledger(disk.jobs)}
    BY <1>3
<1> QED
    BY <1>3, <1>4, <1>5, <1>6, <1>7 DEF Promised!Recover, Promised!SavedOrNot, Runner

\* Crash recovery: no row runs before the first pull.
LEMMA RecoverStep ==
    ASSUME Invs, NEW ok \in BOOLEAN, WorkerRecover(ok)
    PROVE  Promised!Recover
<1>0. /\ jobs \in Seq(QueueJob) /\ up /\ up' /\ paused = disk.paused
      /\ jobs' = CrashRecoveryReset(jobs)
      /\ disk' = IF ok THEN [jobs |-> jobs', paused |-> paused] ELSE disk
    BY DEF Invs, TypeOK, PauseInv, PauseIsOnDisk, WorkerRecover, WorkerStep, procVars, Save
<1>1. /\ jobs' \in Seq(QueueJob) /\ DOMAIN jobs' = DOMAIN jobs
      /\ \A i \in DOMAIN jobs : jobs'[i] =
             IF jobs[i].state = "running"
             THEN [jobs[i] EXCEPT !.state = "pending", !.started = FALSE] ELSE jobs[i]
    BY <1>0, CrashRecoveryRows
<1>2. \A i \in DOMAIN jobs : \/ StatusOf(jobs'[i]) = StatusOf(jobs[i])
                             \/ StatusOf(jobs[i]) = "running" /\ StatusOf(jobs'[i]) = "waiting"
    <2> SUFFICES ASSUME NEW i \in DOMAIN jobs, jobs[i].state = "running"
                 PROVE  StatusOf(jobs[i]) = "running" /\ StatusOf(jobs'[i]) = "waiting"
        BY <1>1
    <2>1. jobs[i] \in QueueJob /\ jobs'[i] \in QueueJob
        BY <1>0, <1>1, RowType
    <2>2. jobs'[i].state = "pending"
        BY <1>1, <2>1 DEF QueueJob
    <2> QED
        BY <2>1, <2>2, RewrittenStatus
<1>3. Runner = 0 /\ Runner' = 0
    BY DEF WorkerRecover, Runner, Busy, At
<1>4. /\ DOMAIN Ledger(jobs) = DOMAIN jobs
      /\ Ledger(jobs') \in [DOMAIN jobs -> Promised!Status]
      /\ \A i \in DOMAIN jobs : /\ Ledger(jobs)[i] = StatusOf(jobs[i])
                                /\ Ledger(jobs')[i] = StatusOf(jobs'[i])
    BY <1>1, RowType, StatusType DEF Ledger
<1>5. disk'.paused = disk.paused /\ Ledger(disk'.jobs) \in {Ledger(jobs'), Ledger(disk.jobs)}
    BY <1>0
<1> QED
    BY <1>0, <1>2, <1>3, <1>4, <1>5 DEF Promised!Recover, Promised!SavedOrNot, Runner

LEMMA PullStep ==
    ASSUME Invs, NEW i \in DOMAIN jobs, NEW ok \in BOOLEAN, WorkerPull(i, ok)
    PROVE  Promised!Begin(i) /\ i \in DOMAIN Ledger(jobs) /\ up
<1>0. /\ jobs \in Seq(QueueJob) /\ up /\ up' /\ paused = disk.paused /\ ~paused
      /\ jobs[i].state = "pending"
      /\ jobs' = PullPending(jobs, i)
      /\ disk' = IF ok THEN [jobs |-> jobs', paused |-> paused] ELSE disk
    BY DEF Invs, TypeOK, PauseInv, PauseIsOnDisk, WorkerPull, WorkerStep, procVars, Save,
       PullChoice, PendingAt
<1>1. /\ DOMAIN jobs' = DOMAIN jobs
      /\ \A j \in DOMAIN jobs : jobs'[j] = IF j = i THEN Started(jobs[i]) ELSE jobs[j]
    BY <1>0, PullPendingRows
<1>2. StatusOf(jobs[i]) = "waiting" /\ StatusOf(jobs'[i]) = "running"
    BY <1>0, <1>1, RowType, RewrittenStatus
<1>3. Ledger(jobs') = [Ledger(jobs) EXCEPT ![i] = "running"] /\ Ledger(jobs)[i] = "waiting"
    BY <1>1, <1>2 DEF Ledger
<1>4. Runner = 0 /\ Runner' = i
    BY DEF WorkerPull, Runner, Busy, At
<1>5. disk'.paused = disk.paused /\ Ledger(disk'.jobs) \in {Ledger(jobs'), Ledger(disk.jobs)}
    BY <1>0
<1>6. i \in DOMAIN Ledger(jobs)
    BY DEF Ledger
<1> QED
    BY <1>0, <1>3, <1>4, <1>5, <1>6 DEF Promised!Begin, Promised!SavedOrNot, Runner

\* An outcome and the pause that may come with it reach the disk together.
LEMMA RecordStep ==
    ASSUME Invs, NEW ok \in BOOLEAN, WorkerRecord(ok)
    PROVE  Promised!Next
<1> DEFINE i == worker.job
           status == StatusOf(WithOutcome(jobs[i], worker.result))
           pausing == worker.process /\ ok
<1>0. /\ jobs \in Seq(QueueJob) /\ up /\ up' /\ paused = disk.paused
      /\ worker.pc = "finished" /\ worker.result \in Outcome /\ worker.process \in BOOLEAN
      /\ paused \in BOOLEAN
      /\ jobs' = ApplyOutcome(jobs, i, worker.result)
      /\ disk' = IF ok THEN [jobs |-> jobs', paused |-> paused \/ worker.process] ELSE disk
    BY DEF Invs, TypeOK, Worker, PauseInv, PauseIsOnDisk, WorkerRecord, WorkerStep, procVars, Save
<1>1. i \in DOMAIN jobs /\ StatusOf(jobs[i]) # "closed" /\ Runner = i /\ Runner' = 0
    BY <1>0 DEF Invs, LedgerInv, Busy, Runner, WorkerRecord, At
<1>2. /\ DOMAIN jobs' = DOMAIN jobs
      /\ \A j \in DOMAIN jobs :
             jobs'[j] = IF j = i THEN WithOutcome(jobs[i], worker.result) ELSE jobs[j]
    BY <1>0, <1>1, ApplyOutcomeRows
<1>3. status \in {"open", "closed"}
    BY <1>0, <1>1, RowType, RewrittenStatus
<1>4. Ledger(jobs') = [Ledger(jobs) EXCEPT ![i] = status]
    BY <1>1, <1>2 DEF Ledger
<1>5. i \in DOMAIN Ledger(jobs) /\ Ledger(jobs)[i] # "closed"
    BY <1>1 DEF Ledger
<1>6. /\ disk'.paused = (disk.paused \/ pausing)
      /\ ok => Ledger(disk'.jobs) = Ledger(jobs')
      /\ ~ok => disk' = disk
    BY <1>0
<1>7. pausing \in BOOLEAN /\ status \in Promised!Status
    BY <1>0, <1>3 DEF Promised!Status
<1> HIDE DEF i, status
<1>8. Promised!End(i, status, pausing)
    BY <1>0, <1>1, <1>3, <1>4, <1>5, <1>6 DEF Promised!End, Promised!SavedOrNot, Runner
<1> QED
    BY <1>0, <1>5, <1>7, <1>8 DEF Promised!Next

LEMMA LedgerStep == Invs /\ [Next]_vars => Promised!Next \/ UNCHANGED Promised!vars
<1> SUFFICES ASSUME Invs, [Next]_vars PROVE Promised!Next \/ UNCHANGED Promised!vars
    OBVIOUS
<1>1. ASSUME NEW served \in SUBSET Library, NEW skipped \in SUBSET Library,
             NEW name \in Library, NEW ok \in SaveResult, BringUp(served, skipped, name, ok)
      PROVE  Promised!Next
    BY <1>1, BringUpStep, SaveResultIsBoolean DEF Promised!Next
<1>2. ASSUME Exit PROVE Promised!Next
    <2>1. up /\ ~up' /\ disk' = disk /\ Runner' = 0
        BY <1>2 DEF Exit, Runner, Busy, At
    <2>2. Promised!Forget
        BY <2>1 DEF Promised!Forget, Runner
    <2> QED
        BY <2>2 DEF Promised!Next
<1>3. ASSUME InitiateShutdown \/ LibraryNext \/ UNCHANGED vars PROVE UNCHANGED Promised!vars
    BY <1>3, Stutters DEF InitiateShutdown, LibraryNext, Mount, Unmount, LibraryStep, docVars,
       procVars, vars, Runner, Busy
<1>4. ASSUME WorkerShutdown \/ WorkerWake \/ WorkerFindNothing PROVE UNCHANGED Promised!vars
    BY <1>4, Stutters DEF WorkerShutdown, WorkerWake, WorkerFindNothing, WorkerStep, docVars,
       procVars, Runner, Busy, At
<1>5. ASSUME \/ RunnerStart
             \/ \E result \in Outcome, process \in BOOLEAN : RunnerReturn(result, process)
      PROVE  UNCHANGED Promised!vars
    <2>1. /\ worker'.job = worker.job /\ Busy /\ Busy' /\ UNCHANGED <<up, jobs, disk>>
        BY <1>5 DEF RunnerStart, RunnerReturn, WorkerStep, procVars, docVars, Busy, Invs, TypeOK, Worker
    <2> QED
        BY <2>1, Stutters DEF Runner
<1>6. ASSUME NEW ok \in SaveResult, WorkerRecover(ok) PROVE Promised!Next
    BY <1>6, RecoverStep, SaveResultIsBoolean DEF Promised!Next
<1>7. ASSUME NEW i \in DOMAIN jobs, NEW ok \in SaveResult, WorkerPull(i, ok) PROVE Promised!Next
    BY <1>7, PullStep, SaveResultIsBoolean DEF Promised!Next
<1>8. ASSUME NEW ok \in SaveResult, WorkerRecord(ok) PROVE Promised!Next
    BY <1>8, RecordStep, SaveResultIsBoolean
<1> QED
    BY <1>1, <1>2, <1>3, <1>4, <1>5, <1>6, <1>7, <1>8, RequestStep DEF Next, Lifecycle, WorkerNext

\* As long as process failures and failing saves do not meet, whatever a
\* client is told has happened to a row has happened durably, at most one row
\* is worked on, none is begun while the queue is paused, and what a crash
\* forgets it forgets as a whole (mutate_jobs_and_persist, worker_loop).
THEOREM QueueImplementsLedger ==
    ASSUME ~SaveFailures \/ ~ProcessFailures
    PROVE  Spec => KeepsTheLedger
<1>1. TypeOK /\ Init => LedgerInv /\ Promised!Init
    <2> SUFFICES ASSUME TypeOK, Init PROVE LedgerInv /\ Promised!Init
        OBVIOUS
    <2>1. LedgerInv /\ Runner = 0 /\ ~up
        BY DEF Init, LedgerInv, Runner, Busy, At, NoCall
    <2>2. Ledger(disk.jobs) \in Seq(Promised!Status) /\ disk.paused \in BOOLEAN
        BY LedgerRows DEF TypeOK, Document
    <2> QED
        BY <2>1, <2>2 DEF Promised!Init, Runner
<1>2. TypeOK /\ PauseInv /\ LedgerInv /\ [Next]_vars => [Promised!Next]_(Promised!vars)
    BY LedgerStep DEF Invs
<1> QED
    BY <1>1, <1>2, LedgerInvStep, PauseInvariant, PTL DEF Spec, KeepsTheLedger, Promised!Spec

-----------------------------------------------------------------------------
(* What is not saved.                                                      *)

TrailInv ==
    /\ OnlyWorkerChangesAreUnsaved
    /\ Busy => /\ worker.job \in DOMAIN jobs
               /\ jobs[worker.job].state \in {"pending", "running", "cancelled"}

\* The states of a document's rows, and a rewrite of memory alone.
LEMMA MemoryMoves ==
    ASSUME TypeOK, OnlyWorkerChangesAreUnsaved, up, up' = up, DOMAIN jobs' = DOMAIN jobs,
           jobs' \in Seq(QueueJob), disk' = disk \/ disk'.jobs = jobs',
           \A i \in DOMAIN jobs : Trails(disk.jobs[i].state, jobs[i].state) =>
                                  Trails(disk.jobs[i].state, jobs'[i].state)
    PROVE  OnlyWorkerChangesAreUnsaved'
<1>1. CASE disk'.jobs = jobs'
    BY <1>1 DEF OnlyWorkerChangesAreUnsaved, Trails
<1>2. CASE disk' = disk
    <2>1. Len(jobs') = Len(jobs)
        BY LenProperties DEF TypeOK
    <2> QED
        BY <1>2, <2>1 DEF OnlyWorkerChangesAreUnsaved
<1> QED
    BY <1>1, <1>2

LEMMA TrailStep == TypeOK /\ TrailInv /\ [Next]_vars => TrailInv'
<1> SUFFICES ASSUME TypeOK, TrailInv, [Next]_vars PROVE TrailInv'
    OBVIOUS
<1>0. jobs \in Seq(QueueJob) /\ disk.jobs \in Seq(QueueJob) /\ \A i \in DOMAIN jobs : jobs[i] \in QueueJob
    BY RowType DEF TypeOK, Document
<1>1. ASSUME NEW served \in SUBSET Library, NEW skipped \in SUBSET Library,
             NEW name \in Library, NEW ok \in SaveResult, BringUp(served, skipped, name, ok)
      PROVE  TrailInv'
    <2> DEFINE pinned   == PinUnnamedJobs(disk.jobs, PinTarget)
               adjusted == FailJobsAgainst(pinned, skipped)
    <2>1. /\ pinned \in Seq(QueueJob) /\ DOMAIN pinned = DOMAIN disk.jobs
          /\ Len(pinned) = Len(disk.jobs)
          /\ \A i \in DOMAIN disk.jobs : pinned[i].state = disk.jobs[i].state
        BY <1>0, PinnedStates
    <2> HIDE DEF pinned
    <2>2. /\ DOMAIN adjusted = DOMAIN disk.jobs /\ Len(adjusted) = Len(disk.jobs)
          /\ \A i \in DOMAIN disk.jobs :
                 \/ adjusted[i] = pinned[i]
                 \/ Live(pinned[i]) /\ adjusted[i] = WithOutcome(pinned[i], "failed")
        BY <2>1, FailJobsRows
    <2>3. /\ jobs' = adjusted /\ worker' = At("boot")
          /\ disk' = disk \/ disk'.jobs = adjusted
        BY <1>1 DEF BringUp, Save, pinned
    <2> HIDE DEF adjusted
    <2>4. ASSUME NEW i \in DOMAIN disk.jobs PROVE Trails(disk.jobs[i].state, adjusted[i].state)
        <3>1. pinned[i] \in QueueJob /\ pinned[i].state = disk.jobs[i].state
            BY <2>1, RowType
        <3>2. "failed" \in Outcome
            BY DEF Outcome
        <3>3. WithOutcome(pinned[i], "failed").state = "failed"
            BY <3>1, <3>2, RewrittenState
        <3> QED
            BY <2>2, <3>1, <3>2, <3>3 DEF Trails, Live
    <2>5. OnlyWorkerChangesAreUnsaved'
        BY <2>2, <2>3, <2>4 DEF OnlyWorkerChangesAreUnsaved, Trails
    <2> QED
        BY <2>3, <2>5 DEF TrailInv, Busy, At
<1>2. ASSUME Exit PROVE TrailInv'
    BY <1>2 DEF Exit, TrailInv, OnlyWorkerChangesAreUnsaved, Busy, At
<1>3. ASSUME InitiateShutdown \/ LibraryNext \/ UNCHANGED vars PROVE TrailInv'
    BY <1>3 DEF InitiateShutdown, LibraryNext, Mount, Unmount, LibraryStep, docVars, procVars, vars,
       TrailInv, OnlyWorkerChangesAreUnsaved, Busy
<1>4. ASSUME WorkerShutdown \/ WorkerWake \/ WorkerFindNothing PROVE TrailInv'
    BY <1>4 DEF WorkerShutdown, WorkerWake, WorkerFindNothing, WorkerStep, docVars, procVars,
       TrailInv, OnlyWorkerChangesAreUnsaved, Busy, At
<1>5. ASSUME \/ RunnerStart
             \/ \E result \in Outcome, process \in BOOLEAN : RunnerReturn(result, process)
      PROVE  TrailInv'
    <2>1. /\ worker'.job = worker.job /\ Busy /\ UNCHANGED <<up, jobs, disk>>
        BY <1>5 DEF RunnerStart, RunnerReturn, WorkerStep, procVars, docVars, Busy, TypeOK, Worker
    <2> QED
        BY <2>1 DEF TrailInv, OnlyWorkerChangesAreUnsaved
<1>6. ASSUME NEW ok \in SaveResult, WorkerRecover(ok) PROVE TrailInv'
    <2>1. /\ jobs' = CrashRecoveryReset(jobs) /\ up' = up /\ ~Busy'
          /\ disk' = disk \/ disk'.jobs = jobs'
        BY <1>6 DEF WorkerRecover, WorkerStep, procVars, Save, Busy, At
    <2>2. /\ jobs' \in Seq(QueueJob) /\ DOMAIN jobs' = DOMAIN jobs
          /\ \A i \in DOMAIN jobs : jobs'[i] =
                 IF jobs[i].state = "running"
                 THEN [jobs[i] EXCEPT !.state = "pending", !.started = FALSE] ELSE jobs[i]
        BY <1>0, <2>1, CrashRecoveryRows
    <2>4. \A i \in DOMAIN jobs : Trails(disk.jobs[i].state, jobs[i].state) =>
                                 Trails(disk.jobs[i].state, jobs'[i].state)
        <3> SUFFICES ASSUME NEW i \in DOMAIN jobs, Trails(disk.jobs[i].state, jobs[i].state)
                     PROVE  Trails(disk.jobs[i].state, jobs'[i].state)
            OBVIOUS
        <3>1. CASE jobs[i].state = "running"
            <4>1. "running" \notin Outcome
                BY DEF Outcome
            <4>2. jobs'[i].state = "pending"
                BY <1>0, <2>2, <3>1 DEF QueueJob
            <4>3. disk.jobs[i].state \in {"pending", "running"}
                BY <3>1, <4>1 DEF Trails
            <4> QED
                BY <4>2, <4>3 DEF Trails
        <3>2. CASE jobs[i].state # "running"
            BY <2>2, <3>2
        <3> QED
            BY <3>1, <3>2
    <2>5. OnlyWorkerChangesAreUnsaved'
        BY <2>1, <2>2, <2>4, MemoryMoves DEF TrailInv, OnlyWorkerChangesAreUnsaved
    <2> QED
        BY <2>1, <2>5 DEF TrailInv
<1>7. ASSUME NEW i \in DOMAIN jobs, NEW ok \in SaveResult, WorkerPull(i, ok) PROVE TrailInv'
    <2>1. /\ jobs' = PullPending(jobs, i) /\ up' = up /\ worker'.job = i
          /\ jobs[i].state = "pending"
          /\ disk' = disk \/ disk'.jobs = jobs'
        BY <1>7 DEF WorkerPull, WorkerStep, procVars, Save, At, PullChoice, PendingAt
    <2>2. /\ jobs' \in Seq(QueueJob) /\ DOMAIN jobs' = DOMAIN jobs
          /\ jobs'[i].state = "running"
          /\ \A j \in DOMAIN jobs \ {i} : jobs'[j] = jobs[j]
        BY <1>0, <2>1, PullPendingRows, RewrittenState
    <2>3. \A j \in DOMAIN jobs : Trails(disk.jobs[j].state, jobs[j].state) =>
                                 Trails(disk.jobs[j].state, jobs'[j].state)
        BY <2>1, <2>2 DEF Trails, Outcome
    <2>4. OnlyWorkerChangesAreUnsaved'
        BY <2>1, <2>2, <2>3, MemoryMoves DEF TrailInv, OnlyWorkerChangesAreUnsaved
    <2> QED
        BY <2>1, <2>2, <2>4 DEF TrailInv
<1>8. ASSUME NEW ok \in SaveResult, WorkerRecord(ok) PROVE TrailInv'
    <2> DEFINE i == worker.job
    <2>1. /\ jobs' = ApplyOutcome(jobs, i, worker.result) /\ up' = up /\ ~Busy'
          /\ i \in DOMAIN jobs /\ jobs[i].state \in {"pending", "running", "cancelled"}
          /\ worker.result \in Outcome
          /\ disk' = disk \/ disk'.jobs = jobs'
        BY <1>8 DEF WorkerRecord, WorkerStep, procVars, Save, Busy, At, TrailInv, TypeOK, Worker
    <2> HIDE DEF i
    <2>2. /\ jobs' \in Seq(QueueJob) /\ DOMAIN jobs' = DOMAIN jobs
          /\ jobs'[i].state \in Outcome
          /\ \A j \in DOMAIN jobs \ {i} : jobs'[j] = jobs[j]
        BY <1>0, <2>1, ApplyOutcomeRows, RewrittenState
    <2>3. \A j \in DOMAIN jobs : Trails(disk.jobs[j].state, jobs[j].state) =>
                                 Trails(disk.jobs[j].state, jobs'[j].state)
        <3>1. Trails(disk.jobs[i].state, jobs[i].state) => Trails(disk.jobs[i].state, jobs'[i].state)
            BY <2>1, <2>2 DEF Trails, Outcome
        <3> QED
            BY <2>2, <3>1
    <2>4. OnlyWorkerChangesAreUnsaved'
        BY <2>1, <2>2, <2>3, MemoryMoves DEF TrailInv, OnlyWorkerChangesAreUnsaved
    <2> QED
        BY <2>1, <2>4 DEF TrailInv
<1>9. ASSUME NEW c \in Client, RpcNext(c) PROVE TrailInv'
    <2>1. RequestRewrites
        BY <1>9, RequestRows
    <2>2. OnlyWorkerChangesAreUnsaved'
        BY <2>1 DEF RequestRewrites, procVars, TrailInv, OnlyWorkerChangesAreUnsaved, Trails
    <2>3. ASSUME Busy PROVE /\ worker.job \in DOMAIN jobs'
                            /\ jobs'[worker.job].state \in {"pending", "running", "cancelled"}
        <3>1. /\ worker.job \in DOMAIN jobs /\ worker.job \in DOMAIN jobs'
              /\ Requested(worker.job)
              /\ jobs[worker.job].state \in {"pending", "running", "cancelled"}
            BY <2>1, <2>3 DEF RequestRewrites, TrailInv
        <3>2. jobs[worker.job] \in QueueJob
            BY <1>0, <3>1
        <3> QED
            BY <3>1, <3>2, RewrittenState DEF Requested
    <2> QED
        BY <2>1, <2>2, <2>3 DEF RequestRewrites, TrailInv, Busy
<1> QED
    BY <1>1, <1>2, <1>3, <1>4, <1>5, <1>6, <1>7, <1>8, <1>9 DEF Next, Lifecycle, WorkerNext

\* Disk and memory only differ by worker transitions whose save failed: a
\* change a client asked for is in both or in neither (mutate_jobs_and_persist
\* restores, pull_pending and apply_outcome log and go on).
THEOREM UnsavedChangesAreTheWorkers == Spec => []OnlyWorkerChangesAreUnsaved
<1>1. Init => TrailInv
    BY DEF Init, TrailInv, OnlyWorkerChangesAreUnsaved, Busy, At
<1>2. TrailInv => OnlyWorkerChangesAreUnsaved
    BY DEF TrailInv
<1> QED
    BY <1>1, <1>2, TrailStep, TypeCorrect, PTL DEF Spec
=============================================================================
