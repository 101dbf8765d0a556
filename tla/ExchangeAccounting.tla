------------------------- MODULE ExchangeAccounting -------------------------
(***************************************************************************)
(* What the exchange owes and owns, as sums over its objects: the counters  *)
(* of staking.move against the credits in circulation, the dollars held by  *)
(* wallets, escrows, bonds and the treasury, and the promise a consumer is  *)
(* given (EscrowPromise), which the exchange is checked to implement.       *)
(***************************************************************************)
EXTENDS Exchange, Functions

LiveJobs == {j \in JobIds : Live(j)}

\* What each object holds, 0 for one that does not exist or is closed.
AskCredits  == [a \in AskIds |-> IF asks[a] = NULL THEN 0 ELSE asks[a].remaining]
JobCredits  == [j \in JobIds |-> IF Live(j) THEN jobs[j].credits ELSE 0]
JobEscrows  == [j \in JobIds |-> IF Live(j) THEN jobs[j].escrow ELSE 0]
StakeBonds  == [s \in StakeIds |-> IF stakes[s] = NULL THEN 0 ELSE stakes[s].bond]

\* The SCU the create_job jobs in flight have reserved.
OwnedQuantities ==
  [j \in JobIds |-> IF Live(j) /\ jobs[j].kind = "owned" THEN jobs[j].qty ELSE 0]

\* Credits in circulation: in wallets, resting in asks, reserved in live jobs.
CirculatingCredits ==
  SumFunction(credits) + SumFunction(AskCredits) + SumFunction(JobCredits)

\* Every credit of the supply is in exactly one place, and none is burned twice.
CreditsAccounted == supply = CirculatingCredits

\* With one stake: minted_scu is "credits currently minted and outstanding"
\* (staking.move header), so the counter and the supply never part.
MintedMatchesSupply ==
  \A s \in StakeIds : stakes[s] # NULL => stakes[s].minted = supply

\* A reservation belongs to a live job: the counter never holds more SCU than the
\* create_job jobs in flight, so no terminal path leaks one (staking.move release).
ReservationsNotLeaked ==
  \A s \in StakeIds : stakes[s] # NULL =>
    stakes[s].reserved <= SumFunction(OwnedQuantities)

\* The dollars are conserved over wallets, escrows, bonds and the treasury.
DollarsConserved ==
  SumFunction(usdc) + SumFunction(JobEscrows) + SumFunction(StakeBonds) + treasury.funds
    = SumFunction(InitialUsdc)

\* unstake "Cannot pull bond that backs outstanding credits or in-flight jobs"
\* (staking.move): with one stake, bond that leaves other than by a slash leaves while
\* no credit circulates and no job is live.
BondLockedWhileAtRisk ==
  [][\A s \in StakeIds :
       (/\ stakes[s] # NULL
        /\ stakes'[s].bond < stakes[s].bond
        /\ stakes'[s].slashedTotal = stakes[s].slashedTotal)
       => CirculatingCredits = 0 /\ LiveJobs = {}]_vars

\* I3 (staking.move header): "minted_scu <= capacity_scu and reserved_scu <=
\* capacity_scu at all times".
CapacityBoundsClaims ==
  \A s \in StakeIds : stakes[s] # NULL =>
    stakes[s].minted <= stakes[s].capacity /\ stakes[s].reserved <= stakes[s].capacity

\* "release is a tolerant no-op" for ask and fill jobs (ask.move, settlement.move): the
\* reservation of a live create_job job survives the end of any other job.
ReservationHeldWhileLive ==
  \A s \in StakeIds : stakes[s] # NULL =>
    SumFunction(OwnedQuantities) <= stakes[s].reserved

=============================================================================
