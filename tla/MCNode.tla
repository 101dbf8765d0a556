------------------------------- MODULE MCNode -------------------------------
(* Values for the constants of the provider node, for model checking.       *)
EXTENDS ProviderNode

CONSTANTS j1, j2

\* One job of each kind; the prompts of both may also be posted.
MCOffers ==
  [j \in {j1, j2} |-> IF j = j1 THEN [fill : {FALSE}, input : {"cached"}]
                      ELSE [fill : {TRUE}, input : {"blob"}]]

=============================================================================
