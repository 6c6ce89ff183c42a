----------------------------- MODULE MCApiKeys -----------------------------
EXTENDS ApiKeys, TLC

\* An edit that lifts the limit per minute and lets the key expire.
MCPatches == {("rate" :> 0) @@ ("daily" :> 1) @@ ("expires" :> 0)}

RequestSymmetry == Permutations(Requests)
=============================================================================
