----------------------------- MODULE MCConsumer -----------------------------
(* Values for the constants of the consumer's programs, for model checking. *)
EXTENDS ConsumerTask, TLC

CONSTANTS r1, r2

\* A localnet configuration with the ask it needs, one that asks for funds first, and a
\* testnet one that lacks the pool.
MCConfigs ==
  {[network |-> "localnet", path |-> "", given |-> {"providerUrl", "askId"}, fund |-> TRUE, prompt |-> TRUE],
   [network |-> "testnet", path |-> "", given |-> Keys, fund |-> FALSE, prompt |-> TRUE],
   [network |-> "testnet", path |-> "", given |-> {"providerUrl", "askId"}, fund |-> FALSE, prompt |-> TRUE]}

\* A gateway request or the command line client beside another gateway's or the demo.
MCClients == [r \in Requests |-> IF r = r1 THEN {"testnet", "cli"} ELSE {"localnet", "demo"}]

=============================================================================
