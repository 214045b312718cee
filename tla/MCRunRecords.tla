---------------------------- MODULE MCRunRecords ----------------------------
(* RunRecords with named runs. *)
EXTENDS RunRecords

CONSTANTS r1, r2
=============================================================================
