--------------------------- MODULE MCEventIndexer ---------------------------
(* A chain of three transactions in two slots: oracle o1 writes its metadata, *)
(* o2 does, and o1, swept and created again, writes others.                    *)
EXTENDS EventIndexer

MCSlots == <<1, 2, 2>>
MCMetas == <<[oracle |-> "o1", json |-> "a"], [oracle |-> "o2", json |-> "b"],
             [oracle |-> "o1", json |-> "c"]>>

\* o1's host serves what o1 committed to first, o2's host something else
MCHosted == [o1 |-> "a", o2 |-> "x"]
=============================================================================
