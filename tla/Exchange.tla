------------------------------ MODULE Exchange ------------------------------
(***************************************************************************)
(* The on-chain GIX exchange: one market, its credit supply, the providers' *)
(* stakes and resting asks, the consumers' jobs with their escrows, the     *)
(* treasury and the governance switches (contracts/sources/*.move).         *)
(*                                                                          *)
(* One action is one Move entry point run as one transaction: its asserts   *)
(* are the action's guards and a transaction that aborts changes nothing,   *)
(* so it is no step.  A ProviderStake is an OWNED object, which only its    *)
(* owner may pass to a transaction: an action that takes a stake s is       *)
(* therefore signed by stakes[s].provider, and by nobody else.              *)
(*                                                                          *)
(* Bounds: the finite sets given to the constants below (ids, amounts,      *)
(* latencies, SLAs) and Governed, the set of switches the administrator     *)
(* turns in a run.  Tick stops once no live job has a deadline ahead:       *)
(* nothing else reads the clock.                                            *)
(***************************************************************************)
EXTENDS StakeLedger, FiniteSets

CONSTANTS
  Providers, Consumers, Admin,      \* addresses
  JobIds, AskIds, StakeIds,         \* object ids not yet used are NULL
  Models, MarketModel,              \* ModelRecords, and the one the market serves
  Measurements, MockMeasurements,   \* runtime measurements; those with the MOCK prefix
  SeedMeasurements,                 \* allowlisted for MarketModel when the run starts
  Quantities, UnitPrices, Tips,     \* SCU, USDC per SCU, USDC paid above the ask price
  Bonds, Capacities, Latencies,
  TopUps,                           \* the <<bond, capacity>> pairs add_bond is called with
  Slas,                             \* the SlaParams governance may give the market
  FeeRates,                         \* the fees governance may set, in basis points
  SlashSchedules,                   \* the slash magnitudes governance may set
  MaxCapacity,                      \* bound: the capacity a stake is raised to at most
  Withdrawals,                      \* the amounts taken out of the treasury
  InitialUsdc,                      \* what each address holds at the start
  Governed,                         \* the governance switches used in this run
  NULL

Addrs == Providers \cup Consumers \cup {Admin}

SlaParams == [p99 : Nat, ack : Nat, exec : Nat, attest : Nat]

Switches ==
  {"pause", "localnet", "fee", "slash", "stake", "active", "pool", "sla", "model",
   "allowlist", "treasury"}

ASSUME AddressAssumption ==
  /\ Admin \notin Providers \cup Consumers
  /\ InitialUsdc \in [Addrs -> Nat]
ASSUME MarketAssumption ==
  /\ MarketModel \in Models
  /\ MockMeasurements \subseteq Measurements
  /\ SeedMeasurements \subseteq Measurements
  /\ Slas \subseteq SlaParams
  /\ FeeRates \subseteq 0 .. BPS_DENOM
  /\ SlashSchedules \subseteq SlashTerms
ASSUME AmountAssumption ==
  /\ Quantities \subseteq Nat /\ UnitPrices \subseteq Nat /\ Tips \subseteq Nat
  /\ Bonds \subseteq Nat /\ Capacities \subseteq Nat /\ Latencies \subseteq Nat
  /\ TopUps \subseteq Nat \X Nat
  /\ Withdrawals \subseteq Nat
ASSUME GovernedAssumption == Governed \subseteq Switches
\* An address and an object id are 32 bytes.
ASSUME FiniteAssumption ==
  /\ IsFiniteSet(Providers) /\ IsFiniteSet(Consumers)
  /\ IsFiniteSet(StakeIds) /\ IsFiniteSet(AskIds) /\ IsFiniteSet(JobIds)

VARIABLES
  clock,       \* sui::clock, in units of the deadlines
  cfg,         \* Config: paused, localnet, feeBps, minStake, slash (k is never read)
  market,      \* Market<M>: active, pool, sla, feeTier
  supply,      \* Market<M>.supply: credits minted and not yet burned
  operators,   \* addresses with a ProviderRecord and a ProviderCap
  models,      \* ModelRecord.active
  allowlist,   \* MeasurementAllowlist: the measurements approved for a model
  stakes,      \* ProviderStake objects
  asks,        \* shared Ask objects
  jobs,        \* shared Job objects
  usdc,        \* quote-dollar coins held by each address
  credits,     \* Credit<M> coins held by each address
  treasury,    \* Treasury<Q>: funds, fees, slashes
  receipts     \* what the terminal events of a job reported

governance == <<cfg, market, operators, models, allowlist>>
money      == <<usdc, treasury>>
vars == <<clock, governance, supply, stakes, asks, jobs, money, credits, receipts>>

-----------------------------------------------------------------------------
(* The shape of the state *)

LiveStates     == {"Dispatched", "Executing", "Attested", "Verified"}
TerminalStates == {"Settled", "Refunded"}
JobStates      == LiveStates \cup TerminalStates
JobKinds       == {"owned", "ask", "fill"}
Verdicts       == {"none", "valid", "sla", "invalid"}
Reasons        == {"none", "Cancelled", "AckTimeout", "SlaOverrun", "AttTimeout",
                   "InvalidAttestation", "SlaBreach"}

Jobs ==
  [state : JobStates, kind : JobKinds, consumer : Providers \cup Consumers, provider : Providers,
   qty : Nat, price : Nat, escrow : Nat, credits : Nat,
   ackBy : Nat, execBy : Nat, attestBy : Nat,
   acked : BOOLEAN, verdict : Verdicts, slashed : BOOLEAN]

Asks == [provider : Providers, price : Nat, remaining : Nat]

\* Settled{payout, fee}, Refunded{amount, reason}, Slashed{penalty, to_consumer}.
Receipts ==
  [payout : Nat, fee : Nat, refund : Nat, penalty : Nat, comp : Nat, reason : Reasons]

SettledReceipt(payout, fee) ==
  [payout |-> payout, fee |-> fee, refund |-> 0, penalty |-> 0, comp |-> 0,
   reason |-> "none"]

RefundReceipt(amount, penalty, comp, reason) ==
  [payout |-> 0, fee |-> 0, refund |-> amount, penalty |-> penalty, comp |-> comp,
   reason |-> reason]

NoReceipt == SettledReceipt(0, 0)

ASSUME NullAssumption == NULL \notin Jobs /\ NULL \notin Asks /\ NULL \notin Stakes(Providers)

Exists(j)   == jobs[j] # NULL
Live(j)     == Exists(j) /\ jobs[j].state \in LiveStates
Terminal(j) == Exists(j) /\ jobs[j].state \in TerminalStates

-----------------------------------------------------------------------------
(* The deployed exchange: config::init, create_market and deploy.sh *)

Init ==
  /\ clock = 0
  /\ cfg = [paused |-> FALSE, localnet |-> TRUE, feeBps |-> 30, minStake |-> 0,
            slash |-> InitialSlash]
  /\ \E sla \in Slas :
       market = [active |-> TRUE, pool |-> FALSE, sla |-> sla, feeTier |-> 0]
  /\ supply = 0
  /\ operators = {}
  /\ models = [m \in Models |-> TRUE]
  /\ allowlist = [m \in Models |-> IF m = MarketModel THEN SeedMeasurements ELSE {}]
  /\ stakes = [s \in StakeIds |-> NULL]
  /\ asks = [a \in AskIds |-> NULL]
  /\ jobs = [j \in JobIds |-> NULL]
  /\ usdc = InitialUsdc
  /\ credits = [a \in Addrs |-> 0]
  /\ treasury = [funds |-> 0, fees |-> 0, slashes |-> 0]
  /\ receipts = [j \in JobIds |-> NoReceipt]

-----------------------------------------------------------------------------
(* Providers: registry.move and staking.move *)

\* Anyone may register, and again: the new record has the same operator.
RegisterProvider(p) ==
  /\ operators' = operators \cup {p}
  /\ UNCHANGED <<clock, cfg, market, models, allowlist, supply, stakes, asks, jobs,
                 money, credits, receipts>>

Stake(p, s, amount, cap) ==
  /\ ~cfg.paused
  /\ p \in operators
  /\ stakes[s] = NULL
  /\ amount >= cfg.minStake
  /\ usdc[p] >= amount
  /\ stakes' = [stakes EXCEPT ![s] = NewStake(p, amount, cap)]
  /\ usdc' = [usdc EXCEPT ![p] = @ - amount]
  /\ UNCHANGED <<clock, governance, supply, asks, jobs, treasury, credits, receipts>>

\* No pause check: topping up collateral stays possible.  The bound on the declared
\* capacity is the model's: unstake and add_bond in turn could raise it for ever.
AddBond(s, amount, extra) ==
  /\ stakes[s] # NULL
  /\ stakes[s].capacity + extra <= MaxCapacity
  /\ LET p == stakes[s].provider IN
       /\ usdc[p] >= amount
       /\ usdc' = [usdc EXCEPT ![p] = @ - amount]
  /\ stakes' = [stakes EXCEPT ![s] = AddedBond(@, amount, extra)]
  /\ UNCHANGED <<clock, governance, supply, asks, jobs, treasury, credits, receipts>>

Unstake(s, amount) ==
  /\ stakes[s] # NULL
  /\ Uncommitted(stakes[s])
  /\ stakes[s].bond >= amount
  /\ stakes' = [stakes EXCEPT ![s] = Withdrawn(@, amount)]
  /\ usdc' = [usdc EXCEPT ![stakes[s].provider] = @ + amount]
  /\ UNCHANGED <<clock, governance, supply, asks, jobs, treasury, credits, receipts>>

\* The gate mint_credits and post_ask share.
MayMint(s, qty) ==
  /\ ~cfg.paused
  /\ market.active
  /\ stakes[s] # NULL
  /\ CanMint(stakes[s], qty)

MintCredits(s, qty) ==
  /\ MayMint(s, qty)
  /\ stakes' = [stakes EXCEPT ![s] = Minted(@, qty)]
  /\ supply' = supply + qty
  /\ credits' = [credits EXCEPT ![stakes[s].provider] = @ + qty]
  /\ UNCHANGED <<clock, governance, asks, jobs, money, receipts>>

PostAsk(s, a, qty, price) ==
  /\ MayMint(s, qty)
  /\ asks[a] = NULL
  /\ stakes' = [stakes EXCEPT ![s] = Minted(@, qty)]
  /\ supply' = supply + qty
  /\ asks' = [asks EXCEPT ![a] =
                [provider |-> stakes[s].provider, price |-> price, remaining |-> qty]]
  /\ UNCHANGED <<clock, governance, jobs, money, credits, receipts>>

\* A coin goes from one address to another, which may be the same one.
Moved(coins, from, to, amount) ==
  LET left == [coins EXCEPT ![from] = @ - amount] IN [left EXCEPT ![to] = @ + amount]

\* External: a DeepBook match.  Credits go to the taker, who pays the maker at once.
DeepBookMatch(p, c, qty, price) ==
  /\ market.pool
  /\ qty > 0 /\ credits[p] >= qty
  /\ usdc[c] >= qty * price
  /\ credits' = Moved(credits, p, c, qty)
  /\ usdc' = Moved(usdc, c, p, qty * price)
  /\ UNCHANGED <<clock, governance, supply, stakes, asks, jobs, treasury, receipts>>

-----------------------------------------------------------------------------
(* Job creation: job.move *)

\* build_and_share: the deadlines are absolute and fixed here.
NewJob(kind, c, p, qty, price, escrow) ==
  [state |-> "Dispatched", kind |-> kind, consumer |-> c, provider |-> p,
   qty |-> qty, price |-> price, escrow |-> escrow, credits |-> qty,
   ackBy |-> clock + market.sla.ack, execBy |-> clock + market.sla.exec,
   attestBy |-> clock + market.sla.attest,
   acked |-> FALSE, verdict |-> "none", slashed |-> FALSE]

\* Mutant: job creation does not look at the pause switch.
MayCreateWhilePaused(j) == market.active /\ jobs[j] = NULL

MayCreate(j) == ~cfg.paused /\ market.active /\ jobs[j] = NULL

\* create_job takes the provider's stake, so its signer owns it and is the consumer too.
CreateJob(s, j, qty, price) ==
  /\ MayCreate(j)
  /\ stakes[s] # NULL
  /\ qty > 0 /\ price > 0
  /\ CanReserve(stakes[s], qty)
  /\ LET p == stakes[s].provider IN
       /\ credits[p] >= qty
       /\ usdc[p] >= price
       /\ jobs' = [jobs EXCEPT ![j] = NewJob("owned", p, p, qty, price, price)]
       /\ credits' = [credits EXCEPT ![p] = @ - qty]
       /\ usdc' = [usdc EXCEPT ![p] = @ - price]
  /\ stakes' = [stakes EXCEPT ![s] = Reserved(@, qty)]
  /\ UNCHANGED <<clock, governance, supply, asks, treasury, receipts>>

\* draw: split credits off the resting ask.
Drawn(ask, qty) == [ask EXCEPT !.remaining = @ - qty]

\* The consumer pays at least the asked price; an overpayment stays in the escrow.
CreateJobFromAsk(c, a, j, qty, tip) ==
  /\ MayCreate(j)
  /\ asks[a] # NULL
  /\ qty > 0 /\ qty <= asks[a].remaining
  /\ LET price == qty * asks[a].price + tip IN
       /\ usdc[c] >= price
       /\ usdc' = [usdc EXCEPT ![c] = @ - price]
       /\ jobs' = [jobs EXCEPT ![j] =
                      NewJob("ask", c, asks[a].provider, qty, price, price)]
  /\ asks' = [asks EXCEPT ![a] = Drawn(@, qty)]
  /\ UNCHANGED <<clock, governance, supply, stakes, treasury, credits, receipts>>

\* No escrow: the provider was paid at the match.  The price recorded is the quantity.
CreateJobFromFill(c, p, j, qty) ==
  /\ MayCreate(j)
  /\ market.pool
  /\ p \in operators
  /\ qty > 0 /\ credits[c] >= qty
  /\ jobs' = [jobs EXCEPT ![j] = NewJob("fill", c, p, qty, qty, 0)]
  /\ credits' = [credits EXCEPT ![c] = @ - qty]
  /\ UNCHANGED <<clock, governance, supply, stakes, asks, money, receipts>>

-----------------------------------------------------------------------------
(* Execution and attestation: job.move and attestation.move *)

AckInTime(j) == clock <= jobs[j].ackBy

\* Mutant: acknowledging takes the deadlines anew from the market.
AckedAnew(job) ==
  [job EXCEPT !.state = "Executing", !.acked = TRUE, !.execBy = clock + market.sla.exec]

Acked(job) == [job EXCEPT !.state = "Executing", !.acked = TRUE]

\* Signed by the job's provider; acknowledging again is a no-op and so no step.
Ack(j) ==
  /\ Exists(j)
  /\ jobs[j].state = "Dispatched"
  /\ AckInTime(j)
  /\ jobs' = [jobs EXCEPT ![j] = Acked(@)]
  /\ UNCHANGED <<clock, governance, supply, stakes, asks, money, credits, receipts>>

\* compute_verdict: the p99 is the market's of this moment, not the job's.
Verdict(model, measurement, hasOutput, latency) ==
  IF \/ ~models[model]
     \/ model # MarketModel
     \/ measurement \notin allowlist[MarketModel]
     \/ ~hasOutput
  THEN "invalid"
  ELSE IF latency > market.sla.p99 THEN "sla" ELSE "valid"

\* Mutant: a verdict other than valid also advances the job to Verified.
AttestedStateAlwaysVerified(verdict) == "Verified"

AttestedState(verdict) == IF verdict = "valid" THEN "Verified" ELSE "Attested"

\* Mutant: a failing verdict already marks the job slashed.
JudgedSlashes(job, verdict) ==
  [job EXCEPT !.verdict = verdict, !.state = AttestedState(verdict),
              !.slashed = verdict # "valid"]

Judged(job, verdict) ==
  [job EXCEPT !.verdict = verdict, !.state = AttestedState(verdict)]

\* What both submissions share, from the state check to record_attestation.
RecordAttestation(j, verdict) ==
  /\ Exists(j)
  /\ jobs[j].state = "Executing"
  /\ jobs[j].verdict = "none"
  /\ clock <= jobs[j].attestBy
  /\ jobs' = [jobs EXCEPT ![j] = Judged(@, verdict)]
  /\ UNCHANGED <<clock, governance, supply, stakes, asks, money, credits, receipts>>

SubmitMockAttestation(j, model, measurement, hasOutput, latency) ==
  /\ cfg.localnet
  /\ measurement \in MockMeasurements
  /\ RecordAttestation(j, Verdict(model, measurement, hasOutput, latency))

\* A signature that does not verify, or another input hash, aborts: no step.
SubmitSignedAttestation(j, model, measurement, hasOutput, latency) ==
  /\ Exists(j)
  /\ jobs[j].provider \in operators
  /\ RecordAttestation(j, Verdict(model, measurement, hasOutput, latency))

-----------------------------------------------------------------------------
(* Settlement: settlement.move *)

EffectiveFeeBps == IF market.feeTier > 0 THEN market.feeTier ELSE cfg.feeBps

FeeOn(price) == (price * EffectiveFeeBps) \div BPS_DENOM

DepositFee(t, fee) == [t EXCEPT !.funds = @ + fee, !.fees = @ + fee]

\* Mutant: the slash is banked and its running total is not.
DepositSlashUntallied(t, amount) == [t EXCEPT !.funds = @ + amount]

DepositSlash(t, amount) == [t EXCEPT !.funds = @ + amount, !.slashes = @ + amount]

\* Mutant: a closed job keeps the credits it reserved.
ClosedKeepsCredits(job, outcome) == [job EXCEPT !.state = outcome, !.escrow = 0]

\* take_escrow_funds, take_reserved_credits and the terminal state.
Closed(job, outcome) ==
  [job EXCEPT !.state = outcome, !.escrow = 0, !.credits = 0]

ClosedBySlash(job) == [Closed(job, "Refunded") EXCEPT !.slashed = TRUE]

\* Mutant: the credits of a settled job are never burned.
RetireWithoutBurn(s, j) ==
  /\ stakes' = [stakes EXCEPT ![s] =
                  Released(ConsumedMinted(@, jobs[j].qty), jobs[j].qty)]
  /\ UNCHANGED supply

\* burn_credit, consume_minted and release, in the order settle calls them.
Retire(s, j) ==
  /\ supply' = supply - jobs[j].credits
  /\ stakes' = [stakes EXCEPT ![s] =
                  Released(ConsumedMinted(@, jobs[j].qty), jobs[j].qty)]

\* The stake passed in is the signer's; settlement does not relate it to the job.
Settle(s, j) ==
  /\ Exists(j)
  /\ stakes[s] # NULL
  /\ jobs[j].kind # "fill"
  /\ jobs[j].state = "Verified"
  /\ supply >= jobs[j].credits
  /\ LET fee    == FeeOn(jobs[j].price)
         payout == jobs[j].escrow - fee
     IN  /\ jobs[j].escrow >= fee
         /\ usdc' = [usdc EXCEPT ![jobs[j].provider] = @ + payout]
         /\ treasury' = DepositFee(treasury, fee)
         /\ receipts' = [receipts EXCEPT ![j] = SettledReceipt(payout, fee)]
  /\ Retire(s, j)
  /\ jobs' = [jobs EXCEPT ![j] = Closed(@, "Settled")]
  /\ UNCHANGED <<clock, governance, asks, credits>>

SettleFill(s, j) ==
  /\ Exists(j)
  /\ stakes[s] # NULL
  /\ jobs[j].kind = "fill"
  /\ jobs[j].state = "Verified"
  /\ supply >= jobs[j].credits
  /\ Retire(s, j)
  /\ jobs' = [jobs EXCEPT ![j] = Closed(@, "Settled")]
  /\ receipts' = [receipts EXCEPT ![j] = SettledReceipt(0, 0)]
  /\ UNCHANGED <<clock, governance, asks, money, credits>>

\* Mutant: the compensation is not capped at the job's price.
CompensationUncapped(penalty, price) == penalty

\* Decision D1: the penalty makes up for at most the price; the rest is the treasury's.
Compensation(penalty, price) == AtMost(penalty, price)

\* The escrow goes back first, then the slash is executed and shared out.
RefundAndSlash(s, j, fault, reason) ==
  /\ stakes[s] # NULL
  /\ LET job     == jobs[j]
         penalty == SlashAmount(cfg.slash, stakes[s], job.qty, fault)
         comp    == Compensation(penalty, job.price)
     IN  /\ usdc' = [usdc EXCEPT ![job.consumer] = @ + job.escrow + comp]
         /\ treasury' = DepositSlash(treasury, penalty - comp)
         /\ credits' = [credits EXCEPT ![job.provider] = @ + job.credits]
         /\ stakes' = [stakes EXCEPT ![s] =
                         Released(Derated(Slashed(@, penalty)), job.qty)]
         /\ jobs' = [jobs EXCEPT ![j] = ClosedBySlash(@)]
         /\ receipts' = [receipts EXCEPT ![j] =
                           RefundReceipt(job.escrow, penalty, comp, reason)]
  /\ UNCHANGED <<clock, governance, supply, asks>>

\* Mutant: the verdict alone is asked for, also in a job already refunded on it.
RefundOnVerdictAgain(s, j) ==
  /\ jobs[j].verdict \in {"sla", "invalid"}
  /\ IF jobs[j].verdict = "sla"
     THEN RefundAndSlash(s, j, "sla", "SlaBreach")
     ELSE RefundAndSlash(s, j, "invalid", "InvalidAttestation")

\* resolve_attested and resolve_fill route a failing verdict the same way.
RefundOnVerdict(s, j) ==
  /\ jobs[j].state = "Attested"
  /\ jobs[j].verdict # "none"
  /\ IF jobs[j].verdict = "sla"
     THEN RefundAndSlash(s, j, "sla", "SlaBreach")
     ELSE RefundAndSlash(s, j, "invalid", "InvalidAttestation")

ResolveAttested(s, j) == Exists(j) /\ jobs[j].kind # "fill" /\ RefundOnVerdict(s, j)

ResolveFill(s, j) == Exists(j) /\ jobs[j].kind = "fill" /\ RefundOnVerdict(s, j)

\* Mutant: the attestation deadline is charged from its own instant on.
ExpiryFaultEarly(j) ==
  IF ~jobs[j].acked
  THEN IF clock >= jobs[j].ackBy THEN <<"liveness", "AckTimeout">> ELSE <<>>
  ELSE IF clock > jobs[j].attestBy THEN <<"missing", "AttTimeout">>
  ELSE IF clock > jobs[j].execBy THEN <<"sla", "SlaOverrun">> ELSE <<>>

\* The fault and reason an expiry is charged with now; none before the deadline.
ExpiryFault(j) ==
  IF ~jobs[j].acked
  THEN IF clock > jobs[j].ackBy THEN <<"liveness", "AckTimeout">> ELSE <<>>
  ELSE IF clock > jobs[j].attestBy THEN <<"missing", "AttTimeout">>
  ELSE IF clock > jobs[j].execBy THEN <<"sla", "SlaOverrun">> ELSE <<>>

\* Mutant: a deadline that has passed refunds a job whatever its state.
ExpireAnyLive(s, j) ==
  /\ Live(j)
  /\ ExpiryFault(j) # <<>>
  /\ RefundAndSlash(s, j, ExpiryFault(j)[1], ExpiryFault(j)[2])

\* Mutant: the pause switch stops expiries too.
ExpireUnlessPaused(s, j) ==
  /\ ~cfg.paused
  /\ Exists(j)
  /\ jobs[j].state \in {"Dispatched", "Executing"}
  /\ jobs[j].verdict = "none"
  /\ ExpiryFault(j) # <<>>
  /\ RefundAndSlash(s, j, ExpiryFault(j)[1], ExpiryFault(j)[2])

ExpireAndResolve(s, j) ==
  /\ Exists(j)
  /\ jobs[j].state \in {"Dispatched", "Executing"}
  /\ jobs[j].verdict = "none"
  /\ ExpiryFault(j) # <<>>
  /\ RefundAndSlash(s, j, ExpiryFault(j)[1], ExpiryFault(j)[2])

\* Signed by the consumer, who must own the stake as well.
Cancel(s, j) ==
  /\ Exists(j)
  /\ stakes[s] # NULL
  /\ jobs[j].consumer = stakes[s].provider
  /\ jobs[j].state = "Dispatched" /\ ~jobs[j].acked
  /\ usdc' = [usdc EXCEPT ![jobs[j].consumer] = @ + jobs[j].escrow]
  /\ credits' = [credits EXCEPT ![jobs[j].provider] = @ + jobs[j].credits]
  /\ stakes' = [stakes EXCEPT ![s] = Released(@, jobs[j].qty)]
  /\ jobs' = [jobs EXCEPT ![j] = Closed(@, "Refunded")]
  /\ receipts' = [receipts EXCEPT ![j] =
                    RefundReceipt(jobs[j].escrow, 0, 0, "Cancelled")]
  /\ UNCHANGED <<clock, governance, supply, asks, treasury>>

-----------------------------------------------------------------------------
(* Governance (AdminCap) and time *)

\* One switch of Config is turned; the run names the switches it uses in Governed.
Configure(switch, newCfg) ==
  /\ switch \in Governed
  /\ cfg' = newCfg
  /\ UNCHANGED <<clock, market, operators, models, allowlist, supply, stakes, asks, jobs,
                 money, credits, receipts>>

SetPause(b)          == Configure("pause", [cfg EXCEPT !.paused = b])
SetIsLocalnet(b)     == Configure("localnet", [cfg EXCEPT !.localnet = b])
SetProtocolFee(rate) == Configure("fee", [cfg EXCEPT !.feeBps = rate])
SetSlashTerms(terms) == Configure("slash", [cfg EXCEPT !.slash = terms])
SetMinStake(amount)  == Configure("stake", [cfg EXCEPT !.minStake = amount])

Remarket(switch, newMarket) ==
  /\ switch \in Governed
  /\ market' = newMarket
  /\ UNCHANGED <<clock, cfg, operators, models, allowlist, supply, stakes, asks, jobs,
                 money, credits, receipts>>

SetMarketActive(b) == Remarket("active", [market EXCEPT !.active = b])
SetPool            == Remarket("pool", [market EXCEPT !.pool = TRUE])
SetSla(sla)        == Remarket("sla", [market EXCEPT !.sla = sla])
SetFeeTier(rate)   == Remarket("fee", [market EXCEPT !.feeTier = rate])

SetModelActive(m, b) ==
  /\ "model" \in Governed
  /\ models' = [models EXCEPT ![m] = b]
  /\ UNCHANGED <<clock, cfg, market, operators, allowlist, supply, stakes, asks, jobs,
                 money, credits, receipts>>

\* K4: a mock measurement is refused off localnet.
AddMeasurement(m, measurement) ==
  /\ "allowlist" \in Governed
  /\ measurement \in MockMeasurements => cfg.localnet
  /\ allowlist' = [allowlist EXCEPT ![m] = @ \cup {measurement}]
  /\ UNCHANGED <<clock, cfg, market, operators, models, supply, stakes, asks, jobs,
                 money, credits, receipts>>

RemoveMeasurement(m, measurement) ==
  /\ "allowlist" \in Governed
  /\ allowlist' = [allowlist EXCEPT ![m] = @ \ {measurement}]
  /\ UNCHANGED <<clock, cfg, market, operators, models, supply, stakes, asks, jobs,
                 money, credits, receipts>>

WithdrawTreasury(amount) ==
  /\ "treasury" \in Governed
  /\ treasury.funds >= amount
  /\ treasury' = [treasury EXCEPT !.funds = @ - amount]
  /\ usdc' = [usdc EXCEPT ![Admin] = @ + amount]
  /\ UNCHANGED <<clock, governance, supply, stakes, asks, jobs, credits, receipts>>

\* Only deadlines read the clock, so it moves while a live job has one to reach.
DeadlineAhead(j) ==
  \/ clock <= jobs[j].ackBy
  \/ clock <= jobs[j].execBy
  \/ clock <= jobs[j].attestBy

Tick ==
  /\ \E j \in JobIds : Live(j) /\ DeadlineAhead(j)
  /\ clock' = clock + 1
  /\ UNCHANGED <<governance, supply, stakes, asks, jobs, money, credits, receipts>>

-----------------------------------------------------------------------------
(* The next-state relation *)

ProviderStep ==
  \/ \E p \in Providers : RegisterProvider(p)
  \/ \E p \in Providers, s \in StakeIds, b \in Bonds, n \in Capacities : Stake(p, s, b, n)
  \/ \E s \in StakeIds, t \in TopUps : AddBond(s, t[1], t[2])
  \/ \E s \in StakeIds, b \in Bonds : Unstake(s, b)
  \/ \E s \in StakeIds, q \in Quantities : MintCredits(s, q)
  \/ \E s \in StakeIds, a \in AskIds, q \in Quantities, u \in UnitPrices : PostAsk(s, a, q, u)
  \/ \E p \in Providers, c \in Consumers, q \in Quantities, u \in UnitPrices :
       DeepBookMatch(p, c, q, u)

CreationStep ==
  \/ \E s \in StakeIds, j \in JobIds, q \in Quantities, u \in UnitPrices : CreateJob(s, j, q, q * u)
  \/ \E c \in Consumers, a \in AskIds, j \in JobIds, q \in Quantities, t \in Tips :
       CreateJobFromAsk(c, a, j, q, t)
  \/ \E c \in Consumers, p \in Providers, j \in JobIds, q \in Quantities :
       CreateJobFromFill(c, p, j, q)

WorkStep ==
  \/ \E j \in JobIds : Ack(j)
  \/ \E j \in JobIds, m \in Models, r \in Measurements, o \in BOOLEAN, l \in Latencies :
       SubmitMockAttestation(j, m, r, o, l)
  \/ \E j \in JobIds, m \in Models, r \in Measurements, o \in BOOLEAN, l \in Latencies :
       SubmitSignedAttestation(j, m, r, o, l)

\* The ways a job leaves the live states without its consumer's consent.
Resolve(s, j) ==
  \/ Settle(s, j)
  \/ SettleFill(s, j)
  \/ ResolveAttested(s, j)
  \/ ResolveFill(s, j)
  \/ ExpireAndResolve(s, j)

SettlementStep ==
  \/ \E s \in StakeIds, j \in JobIds : Resolve(s, j)
  \/ \E s \in StakeIds, j \in JobIds : Cancel(s, j)

GovernanceStep ==
  \/ \E b \in BOOLEAN : SetPause(b)
  \/ \E b \in BOOLEAN : SetIsLocalnet(b)
  \/ \E rate \in FeeRates : SetProtocolFee(rate)
  \/ \E terms \in SlashSchedules : SetSlashTerms(terms)
  \/ \E b \in Bonds : SetMinStake(b)
  \/ \E b \in BOOLEAN : SetMarketActive(b)
  \/ SetPool
  \/ \E sla \in Slas : SetSla(sla)
  \/ \E rate \in FeeRates : SetFeeTier(rate)
  \/ \E m \in Models, b \in BOOLEAN : SetModelActive(m, b)
  \/ \E m \in Models, r \in Measurements : AddMeasurement(m, r)
  \/ \E m \in Models, r \in Measurements : RemoveMeasurement(m, r)
  \/ \E amount \in Withdrawals : WithdrawTreasury(amount)

Next ==
  \/ ProviderStep
  \/ CreationStep
  \/ WorkStep
  \/ SettlementStep
  \/ GovernanceStep
  \/ Tick

Spec == Init /\ [][Next]_vars

-----------------------------------------------------------------------------
(* Fairness: time passes, and the owner of a stake keeps submitting whatever *)
(* settlement transaction it is entitled to for a job.                       *)

CooperativeSpec ==
  /\ Spec
  /\ WF_vars(Tick)
  /\ \A j \in JobIds : WF_vars(\E s \in StakeIds : Resolve(s, j))

\* Everybody but the job's own provider does so.
ResolveByOthers(j) ==
  \E s \in StakeIds :
    /\ stakes[s] # NULL
    /\ stakes[s].provider # jobs[j].provider
    /\ Resolve(s, j)

BystanderSpec ==
  /\ Spec
  /\ WF_vars(Tick)
  /\ \A j \in JobIds : WF_vars(Exists(j) /\ ResolveByOthers(j))

-----------------------------------------------------------------------------
(* Properties *)

\* Every variable holds a value of its Move type; an id is NULL until its object is shared.
TypeOK ==
  /\ clock \in Nat
  /\ cfg \in [paused : BOOLEAN, localnet : BOOLEAN, feeBps : 0 .. BPS_DENOM,
              minStake : Nat, slash : SlashTerms]
  /\ market \in [active : BOOLEAN, pool : BOOLEAN, sla : SlaParams,
                 feeTier : 0 .. BPS_DENOM]
  /\ supply \in Nat
  /\ operators \subseteq Providers
  /\ models \in [Models -> BOOLEAN]
  /\ allowlist \in [Models -> SUBSET Measurements]
  /\ stakes \in [StakeIds -> Stakes(Providers) \cup {NULL}]
  /\ asks \in [AskIds -> Asks \cup {NULL}]
  /\ jobs \in [JobIds -> Jobs \cup {NULL}]
  /\ usdc \in [Addrs -> Nat]
  /\ credits \in [Addrs -> Nat]
  /\ treasury \in [funds : Nat, fees : Nat, slashes : Nat]
  /\ receipts \in [JobIds -> Receipts]

\* I8 and the reserve-then-burn rule: a job holds its whole escrow and all its credits
\* from creation to its terminal state, and nothing after it (escrow.move, job.move).
JobCustody(j) ==
  /\ Live(j) =>
       /\ jobs[j].credits = jobs[j].qty
       /\ jobs[j].escrow = IF jobs[j].kind = "fill" THEN 0 ELSE jobs[j].price
  /\ Terminal(j) => jobs[j].escrow = 0 /\ jobs[j].credits = 0
CustodyIntact == \A j \in JobIds : JobCustody(j)

\* No payout without Verified, and no refund of verified work (task-lifecycle.md 12): the
\* state a job is in agrees with its acknowledgement and with the verdict recorded for it.
JobOutcome(j) == Exists(j) =>
  /\ jobs[j].state = "Dispatched" => ~jobs[j].acked /\ jobs[j].verdict = "none"
  /\ jobs[j].state = "Executing"  => jobs[j].acked /\ jobs[j].verdict = "none"
  /\ jobs[j].state = "Attested"   => jobs[j].acked /\ jobs[j].verdict \in {"sla", "invalid"}
  /\ jobs[j].state \in {"Verified", "Settled"} => jobs[j].acked /\ jobs[j].verdict = "valid"
  /\ jobs[j].state = "Refunded"   => jobs[j].verdict # "valid"
OutcomeFollowsVerdict == \A j \in JobIds : JobOutcome(j)

\* No terminal event before the end: a job that is not terminal has reported no payment,
\* no refund and no penalty, and carries no slash (settlement.move emits them only there).
JobQuiet(j) == ~Terminal(j) =>
  /\ receipts[j] = NoReceipt
  /\ Exists(j) => ~jobs[j].slashed
NothingReportedEarly == \A j \in JobIds : JobQuiet(j)

\* A terminal escrow job handed out exactly its price: to the provider and the treasury
\* when it settled, to the consumer when it did not; and the slash's compensation is the
\* penalty up to the price (decision D1, settlement.move).
JobDisbursed(j) == Terminal(j) =>
  LET job == jobs[j]  r == receipts[j] IN
    /\ job.kind # "fill" /\ job.state = "Settled"  => r.payout + r.fee = job.price /\ r.refund = 0
    /\ job.kind # "fill" /\ job.state = "Refunded" => r.refund = job.price /\ r.payout + r.fee = 0
    /\ job.kind = "fill" => r.payout + r.fee + r.refund = 0
    /\ r.comp = AtMost(r.penalty, job.price)
EscrowFullyDisbursed == \A j \in JobIds : JobDisbursed(j)

\* No slash without provider fault (task-lifecycle.md 12): the reason a slashed job reports
\* is true of the job's record, and the deadline it blames has really passed.
JobBlame(j) == Exists(j) =>
  LET job == jobs[j]  why == receipts[j].reason IN
    /\ why = "AckTimeout" => ~job.acked /\ clock > job.ackBy
    /\ why = "AttTimeout" => job.acked /\ job.verdict = "none" /\ clock > job.attestBy
    /\ why = "SlaOverrun" => job.acked /\ job.verdict = "none" /\ clock > job.execBy
    /\ why = "SlaBreach"  => job.verdict = "sla"
    /\ why = "InvalidAttestation" => job.verdict = "invalid"
    /\ why \in {"none", "Cancelled"} => ~job.slashed /\ receipts[j].penalty = 0
NoSlashWithoutFault == \A j \in JobIds : JobBlame(j)

\* Treasury books: what was collected is still there or went to the administrator.
TreasuryBooksBalance ==
  treasury.funds + usdc[Admin] = InitialUsdc[Admin] + treasury.fees + treasury.slashes

\* Exactly once (task-lifecycle.md 7): nothing changes in a terminal job, and what its
\* terminal events reported stays what was paid.
TerminalIsFinal ==
  [][\A j \in JobIds : Terminal(j) =>
       jobs'[j] = jobs[j] /\ receipts'[j] = receipts[j]]_vars

\* The terms a job was created with are the ones it is closed on, whatever governance does
\* in between: parties, quantity, price and the three deadlines (job.move build_and_share).
Terms(job) ==
  <<job.kind, job.consumer, job.provider, job.qty, job.price, job.ackBy, job.execBy,
    job.attestBy>>
TermsFixedAtCreation ==
  [][\A j \in JobIds : Exists(j) => Terms(jobs'[j]) = Terms(jobs[j])]_vars

\* Pausing stops new exposure only (sui-move-contracts.md: pause blocks the job path): no
\* credits and no jobs appear while paused, and yet a live job can still be closed, which
\* JobsResolve checks with the switch free to move.
PauseStopsNewExposure ==
  [][cfg.paused =>
       /\ supply' <= supply
       /\ \A j \in JobIds : jobs'[j] # NULL => Exists(j)
       /\ \A s \in StakeIds : stakes'[s] # NULL => stakes[s] # NULL]_vars

\* Every job ends: whatever state it was left in, and whatever governance did to the
\* market, the model or the pause switch meanwhile, a settlement call for it is accepted.
JobsResolve == \A j \in JobIds : Live(j) ~> Terminal(j)

\* settlement.move: expire_and_resolve is "Callable by anyone once the relevant deadline
\* passes", so an unacknowledged job past its ack deadline is refunded.
ExpiredJobIsRefunded ==
  \A j \in JobIds :
    (Exists(j) /\ jobs[j].state = "Dispatched" /\ ~AckInTime(j)) ~> Terminal(j)

-----------------------------------------------------------------------------
(* The exchange implements EscrowPromise *)

Phase(j) ==
  IF jobs[j] = NULL THEN "none"
  ELSE CASE jobs[j].state \in {"Dispatched", "Executing"} -> "held"
         [] jobs[j].state = "Verified" -> "accepted"
         [] jobs[j].state = "Attested" -> "rejected"
         [] jobs[j].state = "Settled"  -> "released"
         [] OTHER -> "returned"

Promise == INSTANCE EscrowPromise WITH
  phase    <- [j \in JobIds |-> Phase(j)],
  deposit  <- [j \in JobIds |-> IF jobs[j] = NULL THEN 0 ELSE jobs[j].escrow],
  released <- [j \in JobIds |-> receipts[j].payout + receipts[j].fee],
  returned <- [j \in JobIds |-> receipts[j].refund]

\* The consumer's deposit is released or returned, whole, once, and by the job's outcome.
EscrowPromiseKept == Promise!Spec

=============================================================================
