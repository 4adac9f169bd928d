------------------------------ MODULE MCRewards ------------------------------
(* The constants of RewardCycle are given in the configurations.           *)
EXTENDS RewardCycle
=============================================================================
