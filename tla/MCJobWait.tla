----------------------------- MODULE MCJobWait -----------------------------
(* JobWait with two jobs: queued, ended, or still to be submitted. *)
EXTENDS JobWait

CONSTANTS j1, j2

Pairs == {<<"pending", "pending">>, <<"pending", "failed">>,
          <<"pending", "absent">>, <<"absent", "absent">>}

Queues == {[j \in Job |-> pair[IF j = j1 THEN 1 ELSE 2]] : pair \in Pairs}
=============================================================================
