------------------------- MODULE MCPredictionMarket --------------------------
(* PredictionMarket and the app's market page on small instances.             *)
EXTENDS MarketApp, TLC

Symmetry == Permutations(Contributors)
=============================================================================
