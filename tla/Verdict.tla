------------------------------- MODULE Verdict -------------------------------
(* What an oracle promises to whoever reads it: at most one verdict, which    *)
(* nothing changes once it is given.  Only a dead end, which is no verdict,   *)
(* may still become one.  Settlement implements this module;                  *)
(* PredictionMarket relies on no more of an oracle than this.                 *)
EXTENDS Plurality

VARIABLE verdict

\* What the prediction-market program reads of an oracle account, or that the
\* account is gone.
Verdicts ==
    [status : {"Pending", "Resolved", "InvalidDeadend", "Swept"},
     option : Options \cup {CLAIM_OPTION_NONE}]

WithoutOption(status) == [status |-> status, option |-> CLAIM_OPTION_NONE]

Init == verdict = WithoutOption("Pending")

Decide(option) ==
    /\ verdict.status = "Pending"
    /\ verdict' = [status |-> "Resolved", option |-> option]

DeadEnd ==
    /\ verdict.status = "Pending"
    /\ verdict' = WithoutOption("InvalidDeadend")

\* The DAO decides a dead end.
ResolveDeadend(option) ==
    /\ verdict.status = "InvalidDeadend"
    /\ verdict' = [status |-> "Resolved", option |-> option]

Sweep ==
    /\ verdict.status \in {"Resolved", "InvalidDeadend"}
    /\ verdict' = WithoutOption("Swept")

Finish == DeadEnd \/ \E option \in Options : Decide(option)

Next ==
    \/ Finish
    \/ \E option \in Options : ResolveDeadend(option)
    \/ Sweep

Spec == Init /\ [][Next]_verdict
=============================================================================
