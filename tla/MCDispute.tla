------------------------------ MODULE MCDispute ------------------------------
(* Dispute on small instances: values for its constants.                      *)
EXTENDS Dispute, TLC

CONSTANTS p1, p2, p3, q1, q2

Half == [num |-> 1, den |-> 2]
Third == [num |-> 1, den |-> 3]

\* Challengers build on any question of the oracle, also on a used one.
AnyQuestion == [p \in Proposers |-> Questions]

\* Proposers may bond the same amounts and pick the same options, and any
\* question fits any claim, so both sets are symmetric.
Symmetry == Permutations(Proposers) \cup Permutations(Questions)
=============================================================================
