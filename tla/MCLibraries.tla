---------------------------- MODULE MCLibraries ----------------------------
(* Instances of Libraries for TLC.                                         *)
EXTENDS Libraries, TLC

CONSTANTS a, b, c, d, none, r1, r2, r3, c1, c2, nobody, op

\* b is a second registry entry for a's root; d is there to be forked.
AliasRoots    == [n \in Name |-> CASE n \in {a, b} -> r1 [] n = c -> r2 [] OTHER -> r3]
DistinctRoots == [n \in Name |-> CASE n = a -> r1 [] n = b -> r2 [] OTHER -> r3]

SameStage  == [n \in Name |-> "none"]
\* c declares a reranker, a and b none.
OtherStage == [n \in Name |-> IF n = c THEN "rerank" ELSE "none"]

AllRoots == {r1, r2, r3}

Serving  == {"mount", "unmount", "set_default"}
Reading  == {"read", "mount", "unmount"}
Everything == {"read", "mount", "unmount", "set_default", "fork"}

Editing  == {"add", "remove", "default"}
Purging  == {"add", "purge"}

\* Connections differ only in what they are asked.
ClientSymmetry == Permutations(Client)
=============================================================================
