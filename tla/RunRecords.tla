----------------------------- MODULE RunRecords -----------------------------
(***************************************************************************)
(* The registry of pipeline runs and the lock files that tell a run in     *)
(* flight from one whose process died.                                     *)
(*                                                                         *)
(* A command of the daemon writes a `running` row, creates a lock file,    *)
(* locks it, works, stamps the row and drops the file.  Each of these is a *)
(* step: the process can die between any two, a panic or a cancelled       *)
(* future can drop the handle without closing it, and a survey can look in *)
(* between.  A survey lists the `running` rows and probes each by taking   *)
(* its lock for a moment; the offline repair then stamps what it found     *)
(* abandoned, without a second look.                                       *)
(***************************************************************************)
EXTENDS Naturals, FiniteSets

CONSTANTS
    Run,           \* the runs, one row each
    Overlap,       \* a daemon may come up between a repair's check and its listing
    MaxStarts,     \* bound on the daemon's starts
    MaxUpsets      \* bound on the doctor's surveys and on killed surveys

ASSUME RunRecordsAssumption ==
    /\ Overlap \in BOOLEAN
    /\ MaxStarts \in Nat
    /\ MaxUpsets \in Nat

VARIABLES
    up,        \* a daemon is serving the library
    row,       \* the status column of each run's row
    file,      \* the runs whose lock file is there
    owner,     \* how far the command that opened the run is
    holder,    \* who holds the lock on a run's file
    survey,    \* what each survey is doing
    recorded,  \* history: the runs whose file was ever created
    starts,
    upsets     \* doctor's surveys and killed surveys so far

runVars == <<row, file, owner, holder, recorded>>
vars    == <<up, runVars, survey, starts, upsets>>

-----------------------------------------------------------------------------
(* Values.                                                                 *)

Status  == {"none", "running", "ok", "error", "abandoned"}
Outcome == {"ok", "error"}

\* "opened": the row is written.  "created": the file is there, not locked.
\* "working": the command runs.  "stamped": the row is closed.
\* "unlinked": the record's drop has removed the file, or failed to, and its
\* handle is still open.
\* "unwinding", "lost": the same two steps of a run dropped without a close.
\* "left": the command ended.  "dropped": it did without closing the run.
\* "dead": its process died.
OwnerPc == {"new", "opened", "created", "working", "stamped", "unlinked", "unwinding", "lost",
            "left", "dropped", "dead"}

Gone == {"left", "dropped", "dead"}

\* doctor reports, --close-abandoned-runs closes what it finds.
Surveyor == {"doctor", "repair"}

Holder == {"nobody", "owner"} \cup Surveyor

\* "checked": no daemon serves the library, or none has to be asked about.
\* `todo`: rows listed and not probed.  `open`: the file just opened, if any.
\* `dead`: rows found abandoned and not stamped.
\* `spent`: rows stamped whose file is still there.
Survey == [pc : {"idle", "checked", "probing", "locked", "closing"}, todo : SUBSET Run,
           open : SUBSET Run, dead : SUBSET Run, spent : SUBSET Run]

NoSurvey == [pc |-> "idle", todo |-> {}, open |-> {}, dead |-> {}, spent |-> {}]

Init ==
    /\ up = FALSE
    /\ row = [r \in Run |-> "none"]
    /\ file = {}
    /\ owner = [r \in Run |-> "new"]
    /\ holder = [r \in Run |-> "nobody"]
    /\ survey = [s \in Surveyor |-> NoSurvey]
    /\ recorded = {}
    /\ starts = 0
    /\ upsets = 0

-----------------------------------------------------------------------------
(* The daemon.                                                             *)

Start ==
    /\ ~up
    /\ starts < MaxStarts
    /\ Overlap \/ survey["repair"].pc # "checked"
    /\ up' = TRUE
    /\ starts' = starts + 1
    /\ UNCHANGED <<runVars, survey, upsets>>

\* The process is killed, or exits: the kernel frees its locks.  An exit that
\* drops the commands under way first takes their Drop steps before this one.
Die ==
    /\ up
    /\ up' = FALSE
    /\ owner' = [r \in Run |-> IF owner[r] = "lost" THEN "dropped"
                                ELSE IF owner[r] \in {"new", "left", "dropped"} THEN owner[r]
                                ELSE "dead"]
    /\ holder' = [r \in Run |-> IF holder[r] = "owner" THEN "nobody" ELSE holder[r]]
    /\ UNCHANGED <<row, file, survey, recorded, starts, upsets>>

-----------------------------------------------------------------------------
(* open_run and close_run, by the command that opened run r.               *)

OwnerStep(r, from, to) ==
    /\ up
    /\ owner[r] = from
    /\ owner' = [owner EXCEPT ![r] = to]
    /\ UNCHANGED <<up, survey, starts, upsets>>

OpenRow(r) ==
    /\ OwnerStep(r, "new", "opened")
    /\ row' = [row EXCEPT ![r] = "running"]
    /\ UNCHANGED <<file, holder, recorded>>

\* RunLock::acquire creates the file first.
CreateRecord(r) ==
    /\ OwnerStep(r, "opened", "created")
    /\ file' = file \cup {r}
    /\ recorded' = recorded \cup {r}
    /\ UNCHANGED <<row, holder>>

\* A record that cannot be written leaves the run untracked.
GoUnrecorded(r) ==
    /\ OwnerStep(r, "opened", "working")
    /\ UNCHANGED <<row, file, holder, recorded>>

\* A probe that has the lock makes the owner go on without it; the file it
\* created stays.
TryLock(r) ==
    /\ OwnerStep(r, "created", "working")
    /\ holder' = [holder EXCEPT ![r] = IF @ = "nobody" THEN "owner" ELSE @]
    /\ UNCHANGED <<row, file, recorded>>

CloseRow(r, outcome) ==
    /\ OwnerStep(r, "working", IF holder[r] = "owner" THEN "stamped" ELSE "left")
    /\ row' = [row EXCEPT ![r] = outcome]
    /\ UNCHANGED <<file, holder, recorded>>

\* RunHandle::abandon: the row could not be stamped, the record stays.
GiveUp(r) ==
    /\ OwnerStep(r, "working", "left")
    /\ holder' = [holder EXCEPT ![r] = IF @ = "owner" THEN "nobody" ELSE @]
    /\ UNCHANGED <<row, file, recorded>>

\* A panic out of the command, or its future cancelled: the RunHandle is
\* dropped, and no one has closed the row.
Drop(r) ==
    /\ OwnerStep(r, "working", IF holder[r] = "owner" THEN "unwinding" ELSE "dropped")
    /\ UNCHANGED <<row, file, holder, recorded>>

\* Dropping the record removes the file, whatever the row says; a removal
\* that fails goes unheard ...
Unlink(r) ==
    /\ OwnerStep(r, "stamped", "unlinked") \/ OwnerStep(r, "unwinding", "lost")
    /\ file' \in {file, file \ {r}}
    /\ UNCHANGED <<row, holder, recorded>>

\* ... and then closes it.
Release(r) ==
    /\ OwnerStep(r, "unlinked", "left") \/ OwnerStep(r, "lost", "dropped")
    /\ holder' = [holder EXCEPT ![r] = "nobody"]
    /\ UNCHANGED <<row, file, recorded>>

-----------------------------------------------------------------------------
(* Surveys.                                                                *)

\* Mutant: every row is listed, closed ones included.
ListedRows == {r \in Run : row[r] # "none"}

Listed == {r \in Run : row[r] = "running"}

SurveyStep(s, from) ==
    /\ survey[s].pc = from
    /\ UNCHANGED <<up, starts, upsets>>

\* Mutant: the repair runs beside a daemon.
BeginBeside(s) ==
    /\ SurveyStep(s, "idle")
    /\ survey' = [survey EXCEPT ![s].pc = "checked"]
    /\ UNCHANGED runVars

\* refuse_repair_under_a_daemon, for the repair.
Begin(s) ==
    /\ SurveyStep(s, "idle")
    /\ s = "repair" => ~up
    /\ survey' = [survey EXCEPT ![s].pc = "checked"]
    /\ UNCHANGED runVars

\* survey_catalog lists the open rows.
List(s) ==
    /\ survey[s].pc = "checked"
    /\ s = "doctor" => upsets < MaxUpsets
    /\ upsets' = IF s = "doctor" THEN upsets + 1 ELSE upsets
    /\ survey' = [survey EXCEPT ![s].pc = "probing", ![s].todo = Listed]
    /\ UNCHANGED <<up, runVars, starts>>

\* run_liveness opens the file; without one there is nothing to conclude.
ProbeOpen(s, r) ==
    /\ SurveyStep(s, "probing")
    /\ survey[s].open = {}
    /\ r \in survey[s].todo
    /\ survey' = [survey EXCEPT ![s].todo = @ \ {r}, ![s].open = {r} \cap file]
    /\ UNCHANGED runVars

\* Then it tries the lock on what it opened, which may be unlinked by now.
ProbeLock(s, r) ==
    /\ SurveyStep(s, "probing")
    /\ r \in survey[s].open
    /\ IF holder[r] = "nobody"
       THEN /\ holder' = [holder EXCEPT ![r] = s]
            /\ survey' = [survey EXCEPT ![s].pc = "locked"]
       ELSE /\ survey' = [survey EXCEPT ![s].open = {}]
            /\ UNCHANGED holder
    /\ UNCHANGED <<row, file, owner, recorded>>

\* Mutant: the probe keeps the lock.
ProbeKeep(s, r) ==
    /\ SurveyStep(s, "locked")
    /\ r \in survey[s].open
    /\ survey' = [survey EXCEPT ![s].pc = "probing", ![s].open = {}, ![s].dead = @ \cup {r}]
    /\ UNCHANGED runVars

\* The probe's handle closes on return.
ProbeRelease(s, r) ==
    /\ SurveyStep(s, "locked")
    /\ r \in survey[s].open
    /\ holder' = [holder EXCEPT ![r] = "nobody"]
    /\ survey' = [survey EXCEPT ![s].pc = "probing", ![s].open = {}, ![s].dead = @ \cup {r}]
    /\ UNCHANGED <<row, file, owner, recorded>>

\* The survey is complete.
EndSurvey(s) ==
    /\ SurveyStep(s, "probing")
    /\ survey[s].todo = {}
    /\ survey[s].open = {}
    /\ survey' = [survey EXCEPT ![s] = IF s = "repair" THEN [@ EXCEPT !.pc = "closing"]
                                                       ELSE NoSurvey]
    /\ UNCHANGED runVars

\* Mutant: the record goes before the row is stamped.
StampOneLast(r, ok) ==
    /\ SurveyStep("repair", "closing")
    /\ survey["repair"].spent = {}
    /\ r \in survey["repair"].dead
    /\ file' = file \ {r}
    /\ row' = IF ok THEN [row EXCEPT ![r] = "abandoned"] ELSE row
    /\ survey' = [survey EXCEPT !["repair"].dead = @ \ {r}]
    /\ UNCHANGED <<owner, holder, recorded>>

\* close_one stamps the row, whatever its status is by now; a row that cannot
\* be stamped keeps its record.
StampOne(r, ok) ==
    /\ SurveyStep("repair", "closing")
    /\ survey["repair"].spent = {}
    /\ r \in survey["repair"].dead
    /\ row' = IF ok THEN [row EXCEPT ![r] = "abandoned"] ELSE row
    /\ survey' = [survey EXCEPT !["repair"].dead = @ \ {r},
                                !["repair"].spent = IF ok THEN {r} ELSE {}]
    /\ UNCHANGED <<file, owner, holder, recorded>>

\* Then it discards the record; a file it cannot remove it leaves.
DiscardOne(r) ==
    /\ SurveyStep("repair", "closing")
    /\ r \in survey["repair"].spent
    /\ file' \in {file, file \ {r}}
    /\ survey' = [survey EXCEPT !["repair"].spent = {}]
    /\ UNCHANGED <<row, owner, holder, recorded>>

EndRepair ==
    /\ SurveyStep("repair", "closing")
    /\ survey["repair"].dead = {}
    /\ survey["repair"].spent = {}
    /\ survey' = [survey EXCEPT !["repair"] = NoSurvey]
    /\ UNCHANGED runVars

\* A survey's process is killed: the lock it holds is freed.
KillSurvey(s) ==
    /\ survey[s].pc # "idle"
    /\ upsets < MaxUpsets
    /\ upsets' = upsets + 1
    /\ survey' = [survey EXCEPT ![s] = NoSurvey]
    /\ holder' = [r \in Run |-> IF holder[r] = s THEN "nobody" ELSE holder[r]]
    /\ UNCHANGED <<up, row, file, owner, recorded, starts>>

-----------------------------------------------------------------------------

OwnerNext ==
    \E r \in Run :
        \/ OpenRow(r)
        \/ CreateRecord(r)
        \/ GoUnrecorded(r)
        \/ TryLock(r)
        \/ \E outcome \in Outcome : CloseRow(r, outcome)
        \/ GiveUp(r)
        \/ Drop(r)
        \/ Unlink(r)
        \/ Release(r)

\* What a survey does once it is under way.
SurveyNext(s) ==
    \/ List(s)
    \/ \E r \in Run : ProbeOpen(s, r) \/ ProbeLock(s, r) \/ ProbeRelease(s, r)
    \/ EndSurvey(s)

RepairNext ==
    \/ \E r \in Run, ok \in BOOLEAN : StampOne(r, ok)
    \/ \E r \in Run : DiscardOne(r)
    \/ EndRepair

Next ==
    \/ Start
    \/ Die
    \/ OwnerNext
    \/ \E s \in Surveyor : Begin(s) \/ SurveyNext(s) \/ KillSurvey(s)
    \/ RepairNext

Spec == Init /\ [][Next]_vars

\* The operator repeats the repair, a survey under way goes on, and an update
\* does not fail for ever.
FairSpec ==
    /\ Spec
    /\ WF_vars(Begin("repair"))
    /\ \A s \in Surveyor : WF_vars(SurveyNext(s))
    /\ WF_vars(RepairNext)
    /\ \A r \in Run : SF_vars(StampOne(r, TRUE))

-----------------------------------------------------------------------------
(* Properties.                                                             *)

TypeOK ==
    /\ up \in BOOLEAN
    /\ row \in [Run -> Status]
    /\ file \subseteq recorded
    /\ recorded \subseteq Run
    /\ owner \in [Run -> OwnerPc]
    /\ holder \in [Run -> Holder]
    /\ survey \in [Surveyor -> Survey]
    /\ starts \in 0..MaxStarts
    /\ upsets \in 0..MaxUpsets

\* A run still in flight is never stamped, though a probe can take the lock
\* before its owner does: the rows are listed while no daemon serves the
\* library, and one that comes up later opens rows the repair does not know
\* (--close-abandoned-runs; main.rs: "Only rows proven ownerless are touched").
LiveRunsAreLeftAlone ==
    \A r \in Run : row[r] = "abandoned" => owner[r] \in Gone

\* A run that recorded how it ended keeps that status: the repair's update
\* does not look at the row it overwrites (close_pipeline_run).
OutcomesStand ==
    [][\A r \in Run : row[r] \in Outcome => row'[r] = row[r]]_vars

\* A row whose owner is gone without stamping it still has the record that
\* proves it, unless no record was ever written: a failed close keeps it
\* (RunLock::abandon), a killed process leaves it, and the repair discards it
\* after the row (close_one).  run_lock.rs claims as much for every end that
\* is not an orderly one ("every other way a process can end leaves it
\* behind"); a handle dropped without a close is the exception, for its
\* record's drop takes the file away with the row still running.
UnclosedRunsAreProvable ==
    \A r \in recorded : (row[r] = "running" /\ owner[r] \in {"left", "dead"}) => r \in file

\* The run was dropped without a close, and its record with it.
Lost(r) == owner[r] = "dropped" /\ r \notin file

\* Once the daemon stays away, every run that ever had a record gets closed,
\* over probes that collide, kills and updates that fail.  The exception is
\* again a run dropped without a close whose file its drop took away: the
\* repair leaves a row without a record unjudged, where a test of
\* pipeline_run_helpers.rs says of such a row "The repair, not the drop, is
\* what resolves it".
DeadRunsAreClosed ==
    \A r \in Run : <>[](~up) => <>[](row[r] = "running" => r \notin recorded \/ Lost(r))
=============================================================================
