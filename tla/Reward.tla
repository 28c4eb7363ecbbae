------------------------------- MODULE Reward --------------------------------
(* How a resolved oracle's reward pool is split between the proposers that    *)
(* were right and the stakers of approved facts (reward.rs).                  *)
EXTENDS Amounts

CONSTANTS ProposerWeight, FactWeight

ASSUME WeightAssumption ==
    /\ ProposerWeight \in U64 /\ FactWeight \in U64
    /\ ProposerWeight + FactWeight > 0

\* Mutant: the pool is split although no fact was approved.
ProposerBucket_NoRollIn(pool, correct, approved) ==
    IF correct = 0 THEN 0
    ELSE (pool * ProposerWeight) \div (ProposerWeight + FactWeight)

\* The cohort totals are the bonds of the right proposers and the stake behind
\* approved facts; a cohort without stake leaves the pool to the other one.
ProposerBucket(pool, correct, approved) ==
    IF approved = 0 THEN pool
    ELSE IF correct = 0 THEN 0
    ELSE (pool * ProposerWeight) \div (ProposerWeight + FactWeight)

FactBucket(pool, correct, approved) ==
    IF approved = 0 THEN 0
    ELSE IF correct = 0 THEN pool
    ELSE (pool * FactWeight) \div (ProposerWeight + FactWeight)

\* A member's part of its cohort's bucket, in proportion to its stake.
ShareOf(stake, bucket, total) ==
    IF total = 0 THEN 0 ELSE (stake * bucket) \div total
=============================================================================
