--------------------------- MODULE MCControlClient ---------------------------
(* One connection with two callers, one of which waits without a timeout.  *)
EXTENDS ControlClient

CONSTANTS c1, c2, nobody
=============================================================================
