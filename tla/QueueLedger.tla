---------------------------- MODULE QueueLedger ----------------------------
(***************************************************************************)
(* What the ingest queue promises its clients: a ledger of submitted files *)
(* of which at most one is being worked on.  Whatever a client is told has *)
(* happened to a file has happened durably; what the worker does on its    *)
(* own may be forgotten by a crash, but never half of it.                  *)
(***************************************************************************)
EXTENDS Naturals, Sequences

VARIABLES
    rows,    \* the status of each submitted file, as clients see it
    saved,   \* the ledger a restart brings back
    shut,    \* picking up files is paused
    runner   \* the row being worked on, 0 for none

vars == <<rows, saved, shut, runner>>

\* "open": ended, and may be retried.  "closed": ingested or a duplicate.
Status == {"waiting", "running", "open", "closed"}

Init ==
    /\ rows \in Seq(Status)
    /\ saved = rows
    /\ shut \in BOOLEAN
    /\ runner = 0

\* What a step did reaches the durable ledger as a whole or not at all.
SavedOrNot == saved' \in {rows', saved}

\* New files queue up behind the others.
Submit ==
    /\ rows' \in Seq(Status)
    /\ Len(rows) <= Len(rows')
    /\ \A i \in DOMAIN rows' : rows'[i] = IF i \in DOMAIN rows THEN rows[i] ELSE "waiting"
    /\ saved' = rows'
    /\ UNCHANGED <<shut, runner>>

\* The moves a client may ask of a row: cancel what has not ended, retry
\* what has ended without success.
Asked(old, new) ==
    \/ new = old
    \/ old \in {"waiting", "running"} /\ new = "open"
    \/ old = "open" /\ new = "waiting"

Settle ==
    /\ rows' \in [DOMAIN rows -> Status]
    /\ \A i \in DOMAIN rows : Asked(rows[i], rows'[i])
    /\ saved' = rows'
    /\ UNCHANGED <<shut, runner>>

Pause(flag) ==
    /\ shut' = flag
    /\ saved' = rows
    /\ UNCHANGED <<rows, runner>>

Begin(i) ==
    /\ ~shut
    /\ runner = 0
    /\ rows[i] = "waiting"
    /\ rows' = [rows EXCEPT ![i] = "running"]
    /\ runner' = i
    /\ SavedOrNot
    /\ UNCHANGED shut

\* The result of a run closes its row, whatever became of the row meanwhile.
End(i, result, pausing) ==
    /\ runner = i
    /\ result \in {"open", "closed"}
    /\ rows[i] # "closed"
    /\ rows' = [rows EXCEPT ![i] = result]
    /\ runner' = 0
    /\ shut' = (shut \/ pausing)
    /\ IF shut' = shut THEN SavedOrNot ELSE saved' = rows'

\* The process dies: what was not saved is forgotten.
Forget ==
    /\ rows' = saved
    /\ runner' = 0
    /\ UNCHANGED <<saved, shut>>

\* It comes back: rows nobody runs wait again, or are given up.
Recover ==
    /\ runner = 0
    /\ rows' \in [DOMAIN rows -> Status]
    /\ \A i \in DOMAIN rows :
           \/ rows'[i] = rows[i]
           \/ rows[i] \in {"waiting", "running"} /\ rows'[i] \in {"waiting", "open"}
    /\ SavedOrNot
    /\ UNCHANGED <<shut, runner>>

Next ==
    \/ Submit
    \/ Settle
    \/ \E flag \in BOOLEAN : Pause(flag)
    \/ \E i \in DOMAIN rows : Begin(i)
    \/ \E i \in DOMAIN rows, result \in Status, pausing \in BOOLEAN : End(i, result, pausing)
    \/ Forget
    \/ Recover

Spec == Init /\ [][Next]_vars
=============================================================================
