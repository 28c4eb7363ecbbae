-------------------------- MODULE MCActionSequence --------------------------
(* Nothing is promised of a creation whose oracle was edited after the first  *)
(* click, and an oracle edited before it is like the first one: what follows  *)
(* an edit is not explored.                                                   *)
EXTENDS ActionSequence
Unedited == oracle = CHOOSE o \in Oracles : TRUE
=============================================================================
