----------------------------- MODULE MCExchange -----------------------------
(***************************************************************************)
(* Values for the constants of the exchange, for model checking.  Amounts   *)
(* are in the code's own magnitudes (basis points of 10_000, a bond of      *)
(* 1_000 behind 20 SCU): only how many values there are costs states.       *)
(***************************************************************************)
EXTENDS ExchangeAccounting, TLC

CONSTANTS p1, p2, c1, c2, admin

MCUsdc ==
  [x \in Addrs |-> IF x \in Providers THEN 1000 ELSE IF x \in Consumers THEN 2000 ELSE 0]

\* Deadlines in clock units: the ack is due first, the attestation last.
UsualSla == [p99 |-> 1, ack |-> 1, exec |-> 2, attest |-> 3]
HastySla == [p99 |-> 0, ack |-> 0, exec |-> 0, attest |-> 1]

OneSla  == {UsualSla}
TwoSlas == {UsualSla, HastySla}

\* config.move's defaults, and a schedule with a flat penalty.
HarshSlash   == [bps |-> [f \in Faults |-> 10000], flat |-> 500]
OneSchedule  == {InitialSlash}
TwoSchedules == {InitialSlash, HarshSlash}

\* Collateral added later, with capacity and without.
NoTopUps   == {}
SomeTopUps == {<<100, 10>>}

\* Jobs are interchangeable: nothing compares two ids, and only safety is checked with it.
JobSymmetry == Permutations(JobIds)

=============================================================================
