-------------------------- MODULE RunRecordsProofs --------------------------
(***************************************************************************)
(* Theorems about RunRecords for any set of runs, any number of daemon     *)
(* starts, surveys and kills.                                              *)
(***************************************************************************)
EXTENDS RunRecords, TLAPS

-----------------------------------------------------------------------------
(* Type correctness.                                                       *)

\* What a step of the owner leaves alone, and what it does to the rest.
LEMMA OwnerType ==
    ASSUME TypeOK, NEW r \in Run, NEW from \in OwnerPc, NEW to \in OwnerPc, OwnerStep(r, from, to)
    PROVE  /\ owner' \in [Run -> OwnerPc]
           /\ up' = up /\ survey' = survey /\ starts' = starts /\ upsets' = upsets
BY DEF OwnerStep, TypeOK

LEMMA OwnerNextType ==
    ASSUME TypeOK, NEW r \in Run, NEW outcome \in Outcome,
           \/ OpenRow(r) \/ CreateRecord(r) \/ GoUnrecorded(r) \/ TryLock(r)
           \/ CloseRow(r, outcome) \/ GiveUp(r) \/ Drop(r) \/ Unlink(r) \/ Release(r)
    PROVE  TypeOK'
<1> USE DEF TypeOK
<1>1. CASE OpenRow(r)
    BY <1>1, OwnerType DEF OpenRow, OwnerPc, Status
<1>2. CASE CreateRecord(r)
    BY <1>2, OwnerType DEF CreateRecord, OwnerPc
<1>3. CASE GoUnrecorded(r)
    BY <1>3, OwnerType DEF GoUnrecorded, OwnerPc
<1>4. CASE TryLock(r)
    BY <1>4, OwnerType DEF TryLock, OwnerPc, Holder
<1>5. CASE CloseRow(r, outcome)
    BY <1>5, OwnerType DEF CloseRow, OwnerPc, Status, Outcome
<1>6. CASE GiveUp(r)
    BY <1>6, OwnerType DEF GiveUp, OwnerPc, Holder
<1>7. CASE Drop(r)
    BY <1>7, OwnerType DEF Drop, OwnerPc
<1>8. CASE Unlink(r)
    BY <1>8, OwnerType DEF Unlink, OwnerPc
<1>9. CASE Release(r)
    BY <1>9, OwnerType DEF Release, OwnerPc, Holder
<1> QED
    BY <1>1, <1>2, <1>3, <1>4, <1>5, <1>6, <1>7, <1>8, <1>9

LEMMA SurveyNextType ==
    ASSUME TypeOK, NEW s \in Surveyor, Begin(s) \/ SurveyNext(s) \/ KillSurvey(s)
    PROVE  TypeOK'
<1> USE DEF TypeOK
<1>1. CASE Begin(s)
    BY <1>1 DEF Begin, SurveyStep, runVars, Survey
<1>2. CASE List(s)
    <2>1. upsets' \in 0..MaxUpsets
        BY <1>2, RunRecordsAssumption DEF List
    <2> QED
        BY <1>2, <2>1 DEF List, runVars, Survey, Listed
<1>3. ASSUME NEW r \in Run, ProbeOpen(s, r) PROVE TypeOK'
    BY <1>3 DEF ProbeOpen, SurveyStep, runVars, Survey
<1>4. ASSUME NEW r \in Run, ProbeLock(s, r) PROVE TypeOK'
    BY <1>4 DEF ProbeLock, SurveyStep, Survey, Holder
<1>5. ASSUME NEW r \in Run, ProbeRelease(s, r) PROVE TypeOK'
    BY <1>5 DEF ProbeRelease, SurveyStep, Survey, Holder
<1>6. CASE EndSurvey(s)
    BY <1>6 DEF EndSurvey, SurveyStep, runVars, Survey, NoSurvey
<1>7. CASE KillSurvey(s)
    <2>1. upsets' \in 0..MaxUpsets
        BY <1>7, RunRecordsAssumption DEF KillSurvey
    <2> QED
        BY <1>7, <2>1 DEF KillSurvey, Survey, NoSurvey, Holder
<1> QED
    BY <1>1, <1>2, <1>3, <1>4, <1>5, <1>6, <1>7 DEF SurveyNext

LEMMA RepairNextType ==
    ASSUME TypeOK, RepairNext
    PROVE  TypeOK'
<1> USE DEF TypeOK
<1>0. "repair" \in Surveyor
    BY DEF Surveyor
<1>1. ASSUME NEW r \in Run, NEW ok \in BOOLEAN, StampOne(r, ok) PROVE TypeOK'
    <2>1. survey' \in [Surveyor -> Survey]
        <3> DEFINE v == survey["repair"]
        <3>1. PICK spent \in SUBSET Run :
                  survey' = [survey EXCEPT !["repair"] = [v EXCEPT !.dead = @ \ {r}, !.spent = spent]]
            BY <1>0, <1>1 DEF StampOne
        <3>2. [v EXCEPT !.dead = @ \ {r}, !.spent = spent] \in Survey
            BY <1>0 DEF Survey
        <3> QED
            BY <1>0, <3>1, <3>2
    <2>2. row' \in [Run -> Status]
        BY <1>1 DEF StampOne, Status
    <2> QED
        BY <2>1, <2>2, <1>1 DEF StampOne, SurveyStep
<1>2. ASSUME NEW r \in Run, DiscardOne(r) PROVE TypeOK'
    BY <1>0, <1>2 DEF DiscardOne, SurveyStep, Survey
<1>3. CASE EndRepair
    BY <1>0, <1>3 DEF EndRepair, SurveyStep, runVars, Survey, NoSurvey
<1> QED
    BY <1>1, <1>2, <1>3 DEF RepairNext

LEMMA TypeStep == TypeOK /\ [Next]_vars => TypeOK'
<1> SUFFICES ASSUME TypeOK, [Next]_vars PROVE TypeOK'
    OBVIOUS
<1>1. CASE Start
    BY <1>1, RunRecordsAssumption DEF Start, TypeOK, runVars
<1>2. CASE Die
    BY <1>2 DEF Die, TypeOK, OwnerPc, Holder
<1>3. CASE OwnerNext
    BY <1>3, OwnerNextType DEF OwnerNext, Outcome
<1>4. CASE \E s \in Surveyor : Begin(s) \/ SurveyNext(s) \/ KillSurvey(s)
    BY <1>4, SurveyNextType
<1>5. CASE RepairNext
    BY <1>5, RepairNextType
<1>6. CASE UNCHANGED vars
    BY <1>6 DEF vars, runVars, TypeOK
<1> QED
    BY <1>1, <1>2, <1>3, <1>4, <1>5, <1>6 DEF Next

LEMMA TypeInit == Init => TypeOK
<1>1. 0 \in 0..MaxStarts /\ 0 \in 0..MaxUpsets
    BY RunRecordsAssumption
<1>2. NoSurvey \in Survey
    BY DEF NoSurvey, Survey
<1> QED
    BY <1>1, <1>2 DEF Init, TypeOK, Status, OwnerPc, Holder

\* Every variable keeps its type (TypeOK), over kills of the daemon and of the
\* surveys.
THEOREM TypeCorrect == Spec => []TypeOK
BY TypeInit, TypeStep, PTL DEF Spec

-----------------------------------------------------------------------------
(* The record of a run.                                                    *)

\* The runs the repair has in hand.
InHand ==
    LET v == survey["repair"] IN v.todo \cup v.open \cup v.dead \cup v.spent

\* A run without a row has not begun and has no record; one that was recorded
\* keeps its record while its row says running, but for a handle that was
\* dropped without a close; what the repair stamped does not say running any
\* more.
RecordInv ==
    /\ TypeOK
    /\ \A r \in Run : row[r] = "none" <=> owner[r] = "new"
    /\ \A r \in Run : owner[r] \in {"new", "opened"} => r \notin recorded
    /\ \A r \in Run : owner[r] \in {"stamped", "unlinked"} => row[r] # "running"
    /\ \A r \in recorded :
           row[r] = "running" /\ owner[r] \notin {"lost", "dropped"} => r \in file
    /\ \A r \in InHand : row[r] # "none"
    /\ \A r \in survey["repair"].spent : row[r] # "running"

LEMMA RecordInit == Init => RecordInv
BY TypeInit DEF Init, RecordInv, InHand, Surveyor, NoSurvey

LEMMA RecordOwnerStep ==
    ASSUME RecordInv, OwnerNext
    PROVE  RecordInv'
<1>t. TypeOK /\ TypeOK'
    BY TypeStep DEF RecordInv, Next
<1> USE DEF RecordInv, InHand, OwnerStep, TypeOK
<1>1. ASSUME NEW r \in Run, OpenRow(r) PROVE RecordInv'
    BY <1>1, <1>t DEF OpenRow
<1>2. ASSUME NEW r \in Run, CreateRecord(r) PROVE RecordInv'
    BY <1>2, <1>t DEF CreateRecord
<1>3. ASSUME NEW r \in Run, GoUnrecorded(r) \/ TryLock(r) \/ GiveUp(r) \/ Drop(r) \/ Release(r)
      PROVE  RecordInv'
    BY <1>3, <1>t DEF GoUnrecorded, TryLock, GiveUp, Drop, Release
<1>4. ASSUME NEW r \in Run, NEW outcome \in Outcome, CloseRow(r, outcome) PROVE RecordInv'
    BY <1>4, <1>t DEF CloseRow, Outcome
<1>5. ASSUME NEW r \in Run, Unlink(r) PROVE RecordInv'
    BY <1>5, <1>t DEF Unlink
<1> QED
    BY <1>1, <1>2, <1>3, <1>4, <1>5 DEF OwnerNext

\* A survey under way takes up rows only, and writes none.
LEMMA SurveyInHand ==
    ASSUME TypeOK, NEW s \in Surveyor, Begin(s) \/ SurveyNext(s) \/ KillSurvey(s)
    PROVE  /\ UNCHANGED <<up, row, file, owner, recorded>>
           /\ survey'["repair"].spent \subseteq survey["repair"].spent
           /\ InHand' \subseteq InHand \cup Listed
           /\ InHand' \subseteq InHand \/ (s = "repair" /\ survey["repair"].pc = "checked")
<1> USE DEF TypeOK, InHand, Survey, Surveyor, runVars, SurveyStep
<1>1. CASE Begin(s)
    BY <1>1 DEF Begin
<1>2. CASE List(s)
    BY <1>2 DEF List
<1>3. ASSUME NEW r \in Run, ProbeOpen(s, r) \/ ProbeLock(s, r) \/ ProbeRelease(s, r)
      PROVE  /\ UNCHANGED <<up, row, file, owner, recorded>>
             /\ survey'["repair"].spent \subseteq survey["repair"].spent
             /\ InHand' \subseteq InHand
    BY <1>3 DEF ProbeOpen, ProbeLock, ProbeRelease
<1>4. CASE EndSurvey(s) \/ KillSurvey(s)
    BY <1>4 DEF EndSurvey, KillSurvey, NoSurvey
<1> QED
    BY <1>1, <1>2, <1>3, <1>4 DEF SurveyNext

LEMMA RecordStep == RecordInv /\ [Next]_vars => RecordInv'
<1> SUFFICES ASSUME RecordInv, [Next]_vars PROVE RecordInv'
    OBVIOUS
<1>t. TypeOK /\ TypeOK'
    BY TypeStep DEF RecordInv
<1>1. CASE Start
    BY <1>1, <1>t DEF Start, runVars, RecordInv, InHand
<1>2. CASE Die
    BY <1>2, <1>t DEF Die, RecordInv, InHand, TypeOK
<1>3. CASE OwnerNext
    BY <1>3, RecordOwnerStep
<1>4. ASSUME NEW s \in Surveyor, Begin(s) \/ SurveyNext(s) \/ KillSurvey(s) PROVE RecordInv'
    BY <1>4, <1>t, SurveyInHand DEF RecordInv, Listed
<1>5. CASE RepairNext
    <2> USE DEF RecordInv, InHand, SurveyStep, TypeOK, Surveyor, Survey, runVars
    <2>1. ASSUME NEW r \in Run, NEW ok \in BOOLEAN, StampOne(r, ok) PROVE RecordInv'
        BY <1>t, <2>1 DEF StampOne
    <2>2. ASSUME NEW r \in Run, DiscardOne(r) PROVE RecordInv'
        BY <1>t, <2>2 DEF DiscardOne
    <2>3. CASE EndRepair
        BY <1>t, <2>3 DEF EndRepair, NoSurvey
    <2> QED
        BY <1>5, <2>1, <2>2, <2>3 DEF RepairNext
<1>6. CASE UNCHANGED vars
    BY <1>6, <1>t DEF vars, runVars, RecordInv, InHand
<1> QED
    BY <1>1, <1>2, <1>3, <1>4, <1>5, <1>6 DEF Next

LEMMA RecordAlways == Spec => []RecordInv
BY RecordInit, RecordStep, PTL DEF Spec

\* A recorded run whose process died, or that gave up on its row, keeps the
\* file that proves it (UnclosedRunsAreProvable), also where a daemon comes up
\* in the middle of a repair.  A handle dropped without a close keeps nothing:
\* the steps of its drop are part of the specification and the exception of
\* the invariant.
THEOREM UnclosedRunsKeepTheirRecord == Spec => []UnclosedRunsAreProvable
<1>1. RecordInv => UnclosedRunsAreProvable
    BY DEF RecordInv, UnclosedRunsAreProvable
<1> QED
    BY <1>1, RecordAlways, PTL

-----------------------------------------------------------------------------
(* The repair and the runs in flight.                                      *)

\* No daemon is up when the repair lists the rows, so every run it has in
\* hand is over and has not recorded how it ended.
RepairInv ==
    /\ RecordInv
    /\ ~up => \A r \in Run : owner[r] \in {"new"} \cup Gone
    /\ survey["repair"].pc = "checked" => ~up
    /\ \A r \in InHand : owner[r] \in Gone /\ row[r] \in {"running", "abandoned"}
    /\ \A r \in Run :
           owner[r] \in {"opened", "created", "working", "unwinding", "lost"} => row[r] = "running"
    /\ LiveRunsAreLeftAlone

LEMMA RepairInit == Init => RepairInv
BY RecordInit DEF Init, RepairInv, InHand, Surveyor, NoSurvey, LiveRunsAreLeftAlone

LEMMA RepairStep ==
    ASSUME Overlap = FALSE
    PROVE  RepairInv /\ [Next]_vars => RepairInv'
<1> SUFFICES ASSUME RepairInv, [Next]_vars PROVE RepairInv'
    OBVIOUS
<1>t. RecordInv /\ RecordInv' /\ TypeOK
    BY RecordStep DEF RepairInv, RecordInv
<1> USE DEF RepairInv, LiveRunsAreLeftAlone, Gone
<1>1. CASE Start
    BY <1>1, <1>t DEF Start, runVars, InHand
<1>2. CASE Die
    <2>1. /\ UNCHANGED <<row, survey>> /\ ~up'
          /\ \A r \in Run : owner'[r] = IF owner[r] = "lost" THEN "dropped"
                                        ELSE IF owner[r] \in {"new", "left", "dropped"}
                                             THEN owner[r] ELSE "dead"
        BY <1>2, <1>t DEF Die, TypeOK
    <2>2. InHand' = InHand /\ InHand \subseteq Run
        BY <2>1, <1>t DEF InHand, TypeOK, Survey, Surveyor
    <2> QED
        BY <2>1, <2>2, <1>t DEF TypeOK, OwnerPc
<1>3. ASSUME NEW r \in Run, NEW outcome \in Outcome,
             \/ OpenRow(r) \/ CreateRecord(r) \/ GoUnrecorded(r) \/ TryLock(r)
             \/ CloseRow(r, outcome) \/ GiveUp(r) \/ Drop(r) \/ Unlink(r) \/ Release(r)
      PROVE  RepairInv'
    <2>1. /\ up /\ up' = up /\ survey' = survey /\ InHand' = InHand
          /\ owner[r] \notin Gone
          /\ \A q \in Run \ {r} : owner'[q] = owner[q] /\ row'[q] = row[q]
        BY <1>3, <1>t DEF OpenRow, CreateRecord, GoUnrecorded, TryLock, CloseRow, GiveUp, Drop,
            Unlink, Release, OwnerStep, InHand, TypeOK
    <2>2. /\ row'[r] = "abandoned" => owner'[r] \in Gone
          /\ owner'[r] \in {"opened", "created", "working", "unwinding", "lost"}
                 => row'[r] = "running"
        <3> USE DEF OwnerStep, TypeOK
        <3>1. CASE OpenRow(r)
            BY <3>1, <1>t DEF OpenRow
        <3>2. CASE CreateRecord(r) \/ GoUnrecorded(r) \/ TryLock(r)
            BY <3>2, <1>t DEF CreateRecord, GoUnrecorded, TryLock
        <3>3. CASE CloseRow(r, outcome)
            BY <3>3, <1>t DEF CloseRow, Outcome
        <3>4. CASE GiveUp(r) \/ Drop(r) \/ Unlink(r) \/ Release(r)
            BY <3>4, <1>t DEF GiveUp, Drop, Unlink, Release
        <3> QED
            BY <1>3, <3>1, <3>2, <3>3, <3>4
    <2>3. r \notin InHand
        BY <2>1
    <2>4. InHand \subseteq Run
        BY <1>t DEF InHand, TypeOK, Survey, Surveyor
    <2> QED
        BY <2>1, <2>2, <2>3, <2>4, <1>t
<1>4. ASSUME NEW s \in Surveyor, Begin(s) \/ SurveyNext(s) \/ KillSurvey(s) PROVE RepairInv'
    <2>1. survey'["repair"].pc = "checked" => ~up
        <3> USE DEF SurveyStep, TypeOK, Survey, Surveyor
        <3>1. CASE Begin(s)
            BY <3>1, <1>t DEF Begin
        <3>2. CASE List(s)
            BY <3>2, <1>t DEF List
        <3>3. ASSUME NEW r \in Run, ProbeOpen(s, r) \/ ProbeLock(s, r) \/ ProbeRelease(s, r)
              PROVE  survey'["repair"].pc = "checked" => ~up
            BY <3>3, <1>t DEF ProbeOpen, ProbeLock, ProbeRelease
        <3>4. CASE EndSurvey(s) \/ KillSurvey(s)
            BY <3>4, <1>t DEF EndSurvey, KillSurvey, NoSurvey
        <3> QED
            BY <1>4, <3>1, <3>2, <3>3, <3>4 DEF SurveyNext
    <2>2. \A r \in InHand' : owner[r] \in Gone /\ row[r] \in {"running", "abandoned"}
        <3>1. CASE InHand' \subseteq InHand
            BY <3>1
        <3>2. CASE s = "repair" /\ survey["repair"].pc = "checked"
            <4>1. \A r \in Listed : owner[r] \in Gone /\ row[r] = "running"
                BY <3>2, <1>t DEF Listed, RecordInv
            <4> QED
                BY <4>1, <1>4, <1>t, SurveyInHand
        <3> QED
            BY <3>1, <3>2, <1>4, <1>t, SurveyInHand
    <2> QED
        BY <2>1, <2>2, <1>4, <1>t, SurveyInHand
<1>5. CASE RepairNext
    <2> USE DEF InHand, SurveyStep, TypeOK, Surveyor, Survey, runVars
    <2>1. ASSUME NEW r \in Run, NEW ok \in BOOLEAN, StampOne(r, ok) PROVE RepairInv'
        BY <1>t, <2>1 DEF StampOne
    <2>2. ASSUME NEW r \in Run, DiscardOne(r) PROVE RepairInv'
        BY <1>t, <2>2 DEF DiscardOne
    <2>3. CASE EndRepair
        BY <1>t, <2>3 DEF EndRepair, NoSurvey
    <2> QED
        BY <1>5, <2>1, <2>2, <2>3 DEF RepairNext
<1>6. CASE UNCHANGED vars
    BY <1>6, <1>t DEF vars, runVars, InHand
<1> QED
    BY <1>1, <1>2, <1>3, <1>4, <1>5, <1>6 DEF Next, OwnerNext, Outcome

\* A run in flight is never stamped abandoned (LiveRunsAreLeftAlone), provided
\* no daemon comes up between the repair's check and its listing.
THEOREM LiveRunsAreSpared ==
    ASSUME Overlap = FALSE
    PROVE  Spec => []LiveRunsAreLeftAlone
<1>1. RepairInv /\ [Next]_vars => RepairInv'
    BY RepairStep
<1>2. RepairInv => LiveRunsAreLeftAlone
    BY DEF RepairInv
<1> QED
    BY <1>1, <1>2, RepairInit, PTL DEF Spec

\* What a run recorded about its end is never overwritten (OutcomesStand),
\* under the same proviso.
THEOREM OutcomesAreKept ==
    ASSUME Overlap = FALSE
    PROVE  Spec => OutcomesStand
<1> DEFINE Stand == \A r \in Run : row[r] \in Outcome => row'[r] = row[r]
<1>1. RepairInv /\ [Next]_vars => RepairInv'
    BY RepairStep
<1>2. RepairInv /\ [Next]_vars => [Stand]_vars
    <2> SUFFICES ASSUME RepairInv, Next PROVE Stand
        OBVIOUS
    <2>t. RecordInv /\ TypeOK
        BY DEF RepairInv, RecordInv
    <2>1. CASE Start \/ Die
        BY <2>1 DEF Start, Die, runVars
    <2>2. CASE OwnerNext
        BY <2>2, <2>t DEF RepairInv, RecordInv, OwnerNext, OpenRow, CreateRecord, GoUnrecorded,
            TryLock, CloseRow, GiveUp, Drop, Unlink, Release, OwnerStep, TypeOK, Outcome
    <2>3. CASE \E s \in Surveyor : Begin(s) \/ SurveyNext(s) \/ KillSurvey(s)
        BY <2>3, <2>t, SurveyInHand
    <2>4. CASE RepairNext
        BY <2>4, <2>t DEF RepairInv, InHand, RepairNext, StampOne, DiscardOne, EndRepair,
            SurveyStep, runVars, TypeOK, Outcome
    <2> QED
        BY <2>1, <2>2, <2>3, <2>4 DEF Next
<1> QED
    BY <1>1, <1>2, RepairInit, PTL DEF Spec, OutcomesStand
=============================================================================
