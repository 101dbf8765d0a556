---------------------------- MODULE MCLiquidity ----------------------------
(* Values for the constants of the liquidity loops, for model checking.     *)
EXTENDS NodeLiquidity

\* Both rails by default, the fallback from DeepBook without a pool, and no chain at all.
MCEnvironments ==
  {[network |-> "testnet", pool |-> TRUE, deepbook |-> "unset", chain |-> TRUE],
   [network |-> "localnet", pool |-> FALSE, deepbook |-> "unset", chain |-> TRUE],
   [network |-> "testnet", pool |-> FALSE, deepbook |-> "on", chain |-> TRUE],
   [network |-> "testnet", pool |-> TRUE, deepbook |-> "off", chain |-> FALSE]}

=============================================================================
