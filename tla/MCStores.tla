------------------------------ MODULE MCStores ------------------------------
(* Instances of Stores for TLC.                                            *)
EXTENDS Stores, TLC

CONSTANTS b1, b2, x, y, z, m1, m2

\* The second extractor reads b1 differently and b2 the same.
Readings == [b \in Book |-> [v \in Version |-> IF b = b2 THEN z ELSE IF v = 1 THEN x ELSE y]]

Models == Permutations(Model)

TwoChunks == [c \in Content |-> IF c = z THEN 1 ELSE 2]
=============================================================================
