----------------------------- MODULE MCRunService -----------------------------
(* Small instances of RunService; the bounds are in the cfg files.         *)
EXTENDS RunService, TLC

CONSTANTS c1, c2, w1, w2, k1

OneClient  == {c1}
TwoClients == {c1, c2}
OneWorker  == {w1}
TwoWorkers == {w1, w2}
OneKey     == {k1}

\* Bound: one of the runs has a key.
KeyOnce == Cardinality({r \in Runs : keyOf[r] # NoKey}) <= 1

ActorSymmetry == Permutations(TwoClients) \cup Permutations(TwoWorkers)
===============================================================================
