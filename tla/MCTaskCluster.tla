--------------------------- MODULE MCTaskCluster ----------------------------
(* Instances of TaskCluster for TLC. *)
EXTENDS TaskCluster, TLC

CONSTANTS t1, t2, u1, u2, w1, w2, none, c1, c2

OneShard  == [t \in Tasks |-> 1]
LastShard == [t \in Tasks |-> 2]
Scores    == [t \in Tasks |-> IF t = t1 THEN 1 ELSE 2]
UrlOf     == [t \in Tasks |-> IF t = t1 THEN u1 ELSE u2]
Singles   == {{t} : t \in Tasks}
AllBatches == (SUBSET Tasks) \ {{}}

WorkerSymmetry == Permutations(Workers)
=============================================================================
