------------------------------ MODULE Plurality ------------------------------
(* What plurality() promises: the option that strictly more survivors claim   *)
(* than any other, if there is one.  PluralityScan is the loop that computes  *)
(* it; the oracle's lifecycle (Dispute) uses only what is stated here.        *)
EXTENDS Integers, FiniteSets

CONSTANT OptionsCount       \* options are 0 .. OptionsCount - 1, u8 in the program

ASSUME OptionsAssumption == OptionsCount \in 2 .. 255

Options == 0 .. OptionsCount - 1

CLAIM_OPTION_NONE == 255

\* Claims is a function from voters (surviving proposers) to options.
Support(claims, o) == { p \in DOMAIN claims : claims[p] = o }
Votes(claims, o) == Cardinality(Support(claims, o))

\* o has strictly more votes than every other option.
Wins(claims, o) ==
    /\ Votes(claims, o) > 0
    /\ \A other \in Options \ {o} : Votes(claims, other) < Votes(claims, o)

\* The Winner(option) of plurality(), or CLAIM_OPTION_NONE for Tie and
\* NoSurvivors, which its only caller treats alike.
Plurality(claims) ==
    IF \E o \in Options : Wins(claims, o)
    THEN CHOOSE o \in Options : Wins(claims, o)
    ELSE CLAIM_OPTION_NONE
=============================================================================
