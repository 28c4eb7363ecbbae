------------------------------- MODULE Amounts -------------------------------
(* Token amounts and the fractions the oracle program takes of them.          *)
(*                                                                            *)
(* Amounts are u64 base units.  Products are taken in u128, which no          *)
(* u64 * u64 overflows, so only the result of an addition can leave the       *)
(* type: a checked_add that would is an instruction that fails, and appears   *)
(* in the models as the guard  x + y \in U64.                                 *)
EXTENDS Integers

CONSTANT U64_MAX            \* 2^64 - 1 in the program; small in the TLC runs

ASSUME U64MaxAssumption == U64_MAX \in Nat

U64 == 0 .. U64_MAX

\* A governable fraction; set_config keeps every denominator positive.
Ratio == [num : U64, den : U64 \ {0}]

\* A fraction of at most one (set_config bounds num <= den).
ProperRatio == { r \in Ratio : r.num <= r.den }

\* value * num / den, rounded down: flip slash, rejected-voter slash, fees.
FloorFrac(value, ratio) == (value * ratio.num) \div ratio.den

\* value * num / den, rounded up: what one approve-voter loses on a
\* rejected fact.
CeilFrac(value, ratio) ==
    (value * ratio.num + ratio.den - 1) \div ratio.den

AtMost(x, y) == IF x <= y THEN x ELSE y
SaturatingSub(x, y) == IF x >= y THEN x - y ELSE 0
=============================================================================
