------------------------- MODULE MCRerankSupervisor -------------------------
(* Instances of RerankSupervisor for TLC.                                  *)
EXTENDS RerankSupervisor

CONSTANTS p1, p2, p3, nopid
=============================================================================
