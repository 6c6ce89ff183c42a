---------------------------- MODULE UsageLedger ----------------------------
(***************************************************************************)
(* What the usage buffer promises for the records it is given, numbered in *)
(* the order they came: each is pending until it is stored, once, in that  *)
(* order, or dropped, and a record is only dropped when at least Max newer *)
(* ones have come.                                                         *)
(***************************************************************************)
EXTENDS Naturals

CONSTANT Max        \* maxUsageBufferSize

VARIABLES recorded, pending, stored, dropped

ledger == <<recorded, pending, stored, dropped>>

Init ==
    /\ recorded = 0
    /\ pending = {} /\ stored = {} /\ dropped = {}

\* A record and those it crowds out.
Accept(D) ==
    /\ recorded' = recorded + 1
    /\ \A r \in D : recorded' >= r + Max
    /\ pending' = (pending \cup {recorded'}) \ D
    /\ dropped' = dropped \cup D
    /\ UNCHANGED stored

Drop(D) ==
    /\ \A r \in D : recorded >= r + Max
    /\ pending' = pending \ D
    /\ dropped' = dropped \cup D
    /\ UNCHANGED <<recorded, stored>>

\* Nothing is stored before what was stored already.
Store(S) ==
    /\ \A r \in S, q \in stored : q < r
    /\ pending' = pending \ S
    /\ stored' = stored \cup S
    /\ UNCHANGED <<recorded, dropped>>

Next ==
    \/ \E D \in SUBSET pending : Accept(D) \/ Drop(D)
    \/ \E S \in SUBSET pending : Store(S)

Spec == Init /\ [][Next]_ledger
=============================================================================
