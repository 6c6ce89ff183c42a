---------------------------- MODULE MCLifecycle ----------------------------
EXTENDS Lifecycle, TLC

CONSTANTS h1, t1, t2

\* The request has a token of its own, all the others share one.
MCTokenOf == [a \in Actors |-> IF a = h1 THEN t1 ELSE t2]

WorkerSymmetry == Permutations(Workers)
=============================================================================
