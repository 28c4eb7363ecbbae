---------------------------- MODULE MCSettlement -----------------------------
(* Settlement and the app's oracle page on small instances.                   *)
EXTENDS OracleApp, TLC

CONSTANTS p1, p2, p3, q1, q2

Half == [num |-> 1, den |-> 2]
Third == [num |-> 1, den |-> 3]

AnyQuestion == [p \in Proposers |-> Questions]

\* Bound: two votes with two proposers, or three proposers and one vote.
SmallElectorate ==
    Cardinality(DOMAIN proposer) <= 2 \/ Cardinality(DOMAIN fact_vote) <= 1

Symmetry == Permutations(Proposers) \cup Permutations(Voters)
=============================================================================
