----------------------------- MODULE MCProtocol -----------------------------
(* Protocol on a small instance: the configurations that governance sends.    *)
EXTENDS Protocol, TLC

Genesis ==
    [fraction |-> [f \in Fractions |->
         CASE f = "emission" -> [num |-> 1, den |-> 4]
           [] f = "flip_slash" -> [num |-> 1, den |-> 2]
           [] OTHER -> [num |-> 1, den |-> 3]],
     window |-> [w \in Windows |-> 1],
     amount |-> [a \in Amounts64 |->
         CASE a = "total_supply_cap" -> 30
           [] a \in {"reward_proposer_weight", "stake_floor_ema_threshold"} -> 2
           [] a = "stake_floor_ema_cap" -> 6
           [] a = "stake_floor_max" -> 0
           [] OTHER -> 1]]

\* The stake floor switched on, and a cap below what circulates by then.
Tight == [Genesis EXCEPT !.amount["stake_floor_max"] = 4,
                         !.amount["total_supply_cap"] = 20,
                         !.fraction["emission"] = [num |-> 1, den |-> 1]]

\* What set_config has to refuse, or creation to survive.
Invalid ==
    { [Genesis EXCEPT !.fraction["fact_vote_slash"].den = 0],
      [Genesis EXCEPT !.fraction["emission"].num = 5],
      [Genesis EXCEPT !.fraction["challenge_success_kass_fee"] =
                            [num |-> 2, den |-> 3]],
      [Genesis EXCEPT !.window["phase_window"] = 0],
      [Genesis EXCEPT !.amount["reward_proposer_weight"] = 0,
                      !.amount["reward_fact_weight"] = 0] }

SentConfigs == {Genesis, Tight} \cup Invalid

Symmetry == Permutations(Nonces) \cup Permutations(Keys)
=============================================================================
