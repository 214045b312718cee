----------------------------- MODULE MCJobQueue -----------------------------
(* Instances of JobQueue for TLC.                                          *)
EXTENDS JobQueue

CONSTANTS lib1, lib2, c1, c2, unnamed

OneLibrary   == {lib1}
TwoLibraries == {lib1, lib2}

\* The daemon started under a registered library serves every entry.
RegistryPlans == {Library}

NoRows == {<<>>}

\* A document an earlier binary left behind: a row that names no library,
\* interrupted, and one that was cancelled.
LegacyRows ==
    {<<>>,
     <<Started(NewJob(unnamed, "normal")), Cancelled(NewJob(unnamed, "normal"))>>}

OnePriority   == {"normal"}
TwoPriorities == {"normal", "high"}
=============================================================================
