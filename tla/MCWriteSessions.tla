-------------------------- MODULE MCWriteSessions --------------------------
(* Instances of WriteSessions for TLC.                                     *)
EXTENDS WriteSessions

CONSTANTS c1, c2, f1, nobody
=============================================================================
