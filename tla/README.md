# GIX in TLA+

GIX is an exchange for GPU inference. A Sui Move package holds the money and the rules: providers
stake dollars, mint compute credits against declared capacity and offer them; consumers turn
credits and an escrow into a *job*; the provider acknowledges, runs the model, submits a signed
attestation; a settlement call then pays the provider or refunds the consumer and slashes the
provider. Around the package live a provider node, a consumer SDK, an OpenAI-compatible gateway, a
simulation harness and a web client.

This directory holds TLA+ modules of the exchange, TLC configurations that check them on small
instances, and TLAPS proofs for every size. `PROJECT.json` maps every definition to its source
lines and lists runs, mutants, findings, hazards and theorems.

## Inventory

| Component | State it keeps | Operations | What makes it correct |
|---|---|---|---|
| Stake ledger: `staking.move`, `slashing.move` | bond, capacity, minted, reserved, slashed total per provider | stake, add_bond, unstake, mint, post_ask; reserve, release, consume_minted, slash, derate from inside the package | counters match the credits and jobs they stand for; bond stays while anything is at risk; a slash never exceeds the bond |
| Jobs: `job.move`, `escrow.move` | one shared `Job` each: state, parties, price, escrow, reserved credits, deadlines, verdict | three creations (owned credits, resting ask, DeepBook fill), ack, record_attestation | escrow and credits are whole until one terminal step takes them; terms never change |
| Attestation: `attestation.move` | none | mock and signed submission, verdict | a job is judged once, in time, by its provider |
| Settlement: `settlement.move` | treasury | settle, settle_fill, resolve_attested, resolve_fill, expire_and_resolve, cancel, withdraw | exactly one terminal outcome, by the verdict or a missed deadline; dollars conserved |
| Order book: `ask.move` | resting asks | post, draw | never oversold |
| Market, credits, config, registry | switches, SLA, fees, supply, allowlist | governance setters | in-flight jobs keep their terms; pausing stops new exposure and strands nobody |
| Provider node, serve loop (`node/src`) | event cursor, one task per job, prompt and result caches in memory | start up, poll, serve a job (meta, prompt, ack, infer, upload, attest, settle), two HTTP routes, crash | no event is skipped; what it attested it serves; what it leaves open has a reason outside of it |
| Provider node, liquidity (`main.ts`, `deepbook.ts`, `state.ts`) | current ask, balance manager, discovery file | choose the rail, post and top up asks, mint-deposit-place on DeepBook, shut down, crash | promises stay within the stakes; little gets stranded; the file names the ask that is tended; a spent offer is renewed |
| Consumer SDK, gateway, example clients | none kept over a call; the wallet's coins | discover an ask, buy in one of three ways, wait on the event log, fetch and verify the result | money leaves only with a job; what a client tells is so; tampering is noticed; a task ends |
| Harness (`harness/src`) | actor mirror, backend ledger, tally, feed | match, create, attest, resolve, broadcast | the mirror backs every order; no money is made or lost |
| Web client (`web/src`) | order, row, activity, wallet, connection and poller state | subscribe, reconnect, buy, poll, fetch, audit | rows and outcomes are what happened; totals catch up; a passed audit hashed what was attested |
| Onramp, storage, key handling, charts, end-to-end tests, scripts | - | I/O, or drivers of the above | - |

Interactions: all protocol state is on chain. Jobs, asks, the market and the configuration are
shared objects that any transaction may name, in any order; a stake is an *owned* object that only
its owner's transactions may name. The node learns of jobs by polling the `Dispatched` event; the
SDK learns of the outcome by polling events; prompts and results travel over HTTP, inline on chain
or through Walrus.

What is hard here: transactions of several parties and governance interleave on shared objects;
deadlines race with late acknowledgements and attestations; several calls can end one job;
counters are kept in two places (stake and supply, escrow and price); parameters change under jobs
in flight; progress depends on who is *able* to sign. Off chain, programs read, wait and then act on
what they read; concurrent tasks spend the same owned coins; cursors and windows of an event log,
timeouts, lost replies, restarts and multi-transaction sequences that fail half way; a page whose
answers arrive in any order. `PROJECT.json` lists each at its line under `hazards`.

## Modules

| Module | Contents |
|---|---|
| `StakeLedger` | The value of one stake and each operation on it, as operators: capacity counters, bond, size of a slash, derating. |
| `Exchange` | The whole package as a state machine: 14 variables, one action per Move entry point, governance, the clock; its safety and liveness properties. |
| `EscrowPromise` | The abstract specification: a deposit is held, judged, then released or returned, whole and once. |
| `ExchangeAccounting` | Properties that are sums over objects: credits in circulation, dollars, counters. |
| `ProviderNode` | The serve loop of a node: start-up, event cursor and pages, one task per job, caches and routes, crash and restart. |
| `NodeLiquidity` | The liquidity loops of a node: both rails, the three-transaction refresh, balance manager, discovery file, shutdown, crash and restart. |
| `ConsumerTask` | Buying one inference with the SDK, the gateway, the command line client or the demo: discovery, purchase, wait, result, verdict. |
| `Harness` | The simulation harness: orchestrator, matcher, the backends, economics, tally, and the frames of its feed. |
| `WebPage` | The trading page in its three modes, composed with `Harness` (EXTENDS) in the mode that shows the harness. |
| `MCExchange`, `MCNode`, `MCLiquidity`, `MCConsumer`, `MCWeb` | Constant values for TLC. |
| `SumProofs` | Lemmas about sums over finite functions, which `AccountingProofs`, `LiquidityProofs` and `WebProofs` rest on. |
| `ExchangeProofs`, `EscrowProofs`, `AccountingProofs` | The proofs about the exchange: types and ledger; single jobs and the refinement; money, credits, governance. |
| `NodeProofs`, `LiquidityProofs` | The proofs about the node. |
| `ConsumerProofs` | The proofs about the clients. |
| `WebProofs` | The proofs about the harness, its feed and the page. |

How the models of the contracts correspond to the code:

- A Move transaction is atomic, and one that aborts changes nothing. So one entry point is one
  action; its asserts are the guards; whatever the call does before it returns (fee split, burn,
  `consume_minted`, `release`, the events) is inside the same action.
- A call that takes `&mut ProviderStake` can only be signed by the owner of that stake. Actions
  quantify over *any* stake, because settlement does not relate the stake passed to the job; the
  signer is that stake's provider. This is what makes `cancel` possible only for a consumer that
  also owns a stake.
- Object ids come from finite sets; an object that does not exist yet is `NULL`. Balances are
  numbers. `usdc` and `credits` are the coins per address; a job's `escrow` and `credits` are the
  balances inside the shared object.
- `receipts[j]` keeps the amounts and the reason of the terminal events of `job j`
  (`events.move`): what was paid out is not visible in the job afterwards, and the properties
  about payouts speak of it.
- The clock is in units of the deadlines. `Tick` is enabled while a live job has a deadline ahead:
  no other code reads the clock.
- A match on DeepBook happens outside the package. `DeepBookMatch` moves credits and dollars between
  maker and taker (`Moved`), as the code assumes (`job.move`, create_job_from_fill), and is marked
  external.
- Content is abstracted: prompts, hashes, blob ids, signatures. A wrong signature, a wrong
  `input_hash` or an oversized inline input aborts, which is no step. The verdict keeps its four
  binding tests (model active, model is the market's, measurement allowed, output present) and the
  latency test.
- Two things a Move owner could do and this deployment does not: hand a `ProviderStake` to another
  address, or send credits without a trade.

How the models of the programs do:

- The TypeScript programs are single-threaded and cooperative. A step is what a function does from
  one `await` to the next; a program counter names the await a task stands at. Everything between
  two awaits is one step, also when it writes several variables; whatever may happen at an await
  (other tasks, the chain, time, a crash) happens between two steps.
- Each program meets the part of the chain it can tell apart. In `ProviderNode` a job is its
  phase, its deadlines as `late`, its output and whether the verdict was valid; in `ConsumerTask` a
  job is what its creator can observe; in `NodeLiquidity` asks and orders are amounts of SCU. The
  rules the reduced chain follows (who may acknowledge, when an attestation is accepted, that a
  settlement needs a verdict) are those of `Exchange`.
- A transaction takes the versions of the owned coins and the stake it was built from: when another
  transaction of the same wallet lands in between, it is rejected. A reply may be lost: the
  transaction landed and the program takes it for a failure. Reads fail. With `Faulty = FALSE` none
  of this happens.
- The event log is a list the node reads by pages behind a cursor, and for the SDK a window of the
  newest events, from which older ones are buried.
- Walrus, Ollama and the JSON-RPC are outcomes: a blob is read, altered or missing, an inference
  completes, fails or never returns.
- The harness's feed is a wire of frames. A crash of the harness and a broken connection both show
  to the page as a close; what was on the wire is lost.

## Runs

The runs on the contracts use the code's own magnitudes (basis points of 10 000, `config::init`'s
slash schedule). Bounds: the sets in each `.cfg`, `Governed` (which switches governance turns in
that run), `MaxCapacity` (unstake and add_bond in turn would raise the capacity for ever) and the
clock as above.

| Run | Instance | Shows |
|---|---|---|
| `exchange` | 1 provider, 1 consumer, 2 interchangeable jobs of all three kinds, 1 ask, 1 stake of capacity 20, pool switch | types; every credit of the supply is in one wallet, ask or live job (`CreditsAccounted`); `minted_scu` equals the supply; reservations never leak; dollars are conserved; bond leaves only when no credit circulates and no job is live; the exchange implements `EscrowPromise` |
| `settlement` | 1 job of any kind, 2 providers of whom one has a stake, 2 SLAs (one with an ack and execution deadline of zero), changing fees, 2 slash schedules (one with a flat penalty larger than the price), top-ups, minimum stake, treasury withdrawal | custody, outcome by verdict, nothing reported early, escrow fully disbursed, no slash without fault, treasury books balance, terminal is final, terms fixed at creation |
| `live` | pause, localnet, market, model and allowlist switches, 2 models, mock and real measurement | `JobsResolve` (liveness) and `PauseStopsNewExposure` |
| `node` | an escrow job whose prompt is posted and a fill job whose prompt is a Walrus blob, an event of another provider, pages of 2, a crash and a restart, faults | no event since the anchor is skipped; a job attested by this process has its result served; a job left open has an excuse; every job handed over is carried to an end (`DispatchedIsServed`) |
| `liquidity` | capacity 6, lots of 2, threshold 1, 2 lives, 2 failures, 4 posts, 4 environments (both rails, DeepBook asked for and no pool, no chain) | what is promised stays within the stakes; what is stranded within the failures; no big ask is left behind; the discovery file names the tended ask; a spent offer is renewed (`OfferIsRenewed`) |
| `consumer` | 2 tasks of one wallet: a testnet gateway request or the command line client, beside a localnet gateway request or the demo; 2 packages, 3 configurations, 2 asks of 1 SCU, 1 unit of money, faults | money leaves only with a job; what is told of a job is so; an altered output is noticed; every task ends (`TaskEnds`) |
| `web` | 2 orders, 1 broken connection, the 4 backends of the harness, 2 providers, 1 consumer, quantities 1-2, prices 300 and 500, the 4 faults; the 3 modes of the page, up to 3 credits in the mock wallet, 2 reads in flight | the mirror backs every order; money is neither made nor lost; the feed is the tally; outcomes shown are true; a passed audit hashed the attested output; the page catches up (`PageCatchesUp`) |

Why the bounds are enough: a job's course depends on its own record, the stake passed, the switches
and the clock; two jobs on one stake are the smallest instance in which one job can take what
belongs to another (reservations, minted counter), a second provider without a stake the smallest
in which a job is closed with a stake that is not its provider's, and two units between deadlines
cover before, at and after each. Quantities 10 and 20 against a capacity of 20 reach the capacity
gate, partial draws of an ask and derating to 18. `MintedMatchesSupply` and `BondLockedWhileAtRisk`
are statements about an exchange with one stake, as deployed: with several, `consume_minted` may be
charged to a stake other than the minter's.

For the programs: two tasks are enough for one to make the other's transaction stale or to take its
ask; three events on pages of two for a page that ends between them; two lives for what a restart
forgets; two failures for one in the retry of another; one unit of money and asks of one SCU for
tasks that compete for both; a threshold of 1 with lots of 2 for an ask that is nearly sold out and
not quite; two reads in flight for answers in the wrong order.

Five runs expect a violation: the code does not do what a text in the repository says.

| Run | Statement | What happens |
|---|---|---|
| `capacity` | `staking.move` I3: minted and reserved never exceed capacity | a slash derates the capacity below what is minted |
| `reservation` | `ask.move`: `release` is a no-op for ask jobs | it takes the reservation of another live job on the stake |
| `expiry` | `settlement.move`: expire_and_resolve is callable by anyone | it needs an owned stake; a consumer cannot get out alone |
| `verified` | `sdk/src/types.ts:173`: verified is true iff the output has the hash of the attestation on chain | without an attestation it is compared with the hash the provider sends along (`client.ts:139`) |
| `audit` | `web/src/trade/audit.ts:150`: failed fetches and missing values become fail or skip rows | without an output the audit hashes a stub of its own and passes (`audit.ts:346`) |

### Fairness

- *Contracts.* `CooperativeSpec` assumes that time passes (weak fairness of `Tick`) and, for each
  job, that the owner of some stake submits a settlement call when one stays acceptable. Nothing
  on chain runs by itself, so the result is about the contract: *no reachable state of a live job,
  under any governance, is one in which every closing call would be refused for ever*. That the
  node does not keep calling is what `OpenJobIsExcused` is about: it logs a failed settlement and
  does not retry. `BystanderSpec` gives the same fairness to everybody except the job's provider
  and is used by `expiry` only.
- *Serve loop.* Weak fairness of the start-up, of the poll and of each task: the event loop runs
  whatever callback is due, timers come back. No fairness for inferences that hang (`ollama.ts` has
  no timeout), for the chain, or against failures.
- *Liquidity.* Weak fairness of the loop's own steps. Nobody has to buy, and failures may come.
- *Consumer.* Weak fairness of each task's step and of its own timer (`Deadline`). Nobody has to
  trade, serve, attest or settle.
- *Page.* Weak fairness of `Connect`, the reconnect timer and the handshake behind it.

## Proofs

Every invariant and every action property that a passing run checks is also a theorem, for every
value of the constants; so is the refinement. The theorems about the exchange hold for arbitrary
finite sets of addresses and objects (an address and an object id are 32 bytes) and any sets of
amounts, latencies, SLAs, fees and slash schedules, under the named assumptions of `Exchange`:
amounts are naturals, fees and slash shares at most 10 000 basis points, `Admin` is neither a
provider nor a consumer, the market's model is one of the models, `NULL` is no object. Three of
them (`MintedIsSupply`, `NoReservationLeaks`, `BondLocked`) have the further hypothesis that there
is one stake, `StakeIds = {s}` for any `s`: with several, `consume_minted` and `release` may be
charged to a stake other than the minter's, and the statements are not true. The other theorems
hold for any jobs, pages, lots, capacities, clients, configurations, orders, amounts and numbers of
restarts, failures and disconnects, under the assumption named at the top of `ProviderNode`,
`NodeLiquidity`, `ConsumerTask`, `Harness` and `WebPage`.

**The exchange**

1. `ExchangeProofs`: each ledger operation maps stakes to stakes; `PenaltyWithinBond`: a slash is
   between zero and the remaining bond. `TypeCorrect`, one lemma per group of actions: `TypeOK` is
   inductive by itself, and its content is that no balance or counter is ever negative.
2. `EscrowProofs`, one job: `JobStepLemma`. Whatever the step, each single job is untouched,
   created, acknowledged, judged, settled, slashed or cancelled, with its receipt, and the clock
   does not run back. This reduces every later proof about jobs from 31 actions on 14 variables to 7
   cases on one job.
3. `EscrowProofs`, custody: the invariant `EscrowInv` is `TypeOK` and, for each job, custody,
   outcome, silence, disbursement and blame together. They are proved as one because none is
   inductive alone: disbursement at a refund needs custody (the escrow is the price), blame after a
   refund needs outcome (an attested job has a failing verdict) and silence (no earlier reason), and
   silence of a live job needs its outcome. From it follow `CustodyKept`, `OutcomeCorrect`,
   `QuietUntilTheEnd`, `EscrowDisbursed` and `SlashJustified`; the action properties `FinalStays`
   and `TermsStay` follow from `TypeOK` and the step lemma.
4. `EscrowProofs`, refinement: `ExchangeKeepsPromise`, that `Exchange` implements `EscrowPromise`
   under the mapping at the end of `Exchange`. `OneJobLemma`: a step touches at most one job. The
   step lemma and `EscrowInv` then give, for that job, one of the abstract moves or none (`Kept`):
   what is released or returned is the whole deposit because of custody and disbursement.
   `PromiseStep` puts the two together into a step of the promise or a stutter.
5. `SumProofs`: what `SumFunction` gives when one value changes (`SumChange`), is added
   (`SumAppend`) or is the same everywhere (`SumConstant`), that a sum of naturals is one and no
   term exceeds it (`SumBounds`). The fold of the library is a recursive function over the subsets,
   and the induction theorems take an operator no installed prover can instantiate; so the
   lemmas argue by a smallest counterexample (`LeastNumber`, `LeastSubset`): among the subsets
   where a claim fails there is one with the fewest elements, and taking out an element contradicts it.
6. `AccountingProofs`, all the objects: `StepAccounts` says for each entry point that the credits
   minted less those burned are the change of those in wallets, asks and jobs, and that what leaves
   one wallet, bond, escrow or the treasury arrives in the others. `AccountsInv` is `EscrowInv` with the
   two totals: custody is needed because a settlement pays out and burns what the *job* holds. From it
   follow `CreditsAccountedFor` and `DollarsStay`.
7. `AccountingProofs`, one stake: `StakeStepLemma` gives, from the side of a stake, the seven things
   a step can do to it. `OneStakeInv` adds to `AccountsInv` that `minted` is the supply, that
   `reserved` is within the quantities of the live `create_job` jobs, and that no live job is empty.
   `consume_minted` subtracts only as far as zero, which would part `minted` from the supply; that it
   never stops short is because the burned credits were part of the supply, by the accounts. `release`
   does stop short, and takes what is another job's; that only lowers the counter
   (`ReleaseWithinFlight`). `BondLocked` follows, as an unstake needs `minted` to be zero, then the
   supply is, and a live job would hold at least one credit of it.
8. `AccountingProofs`, governance: `TreasuryBalances` is inductive with `TypeOK`: every step leaves
   the treasury and the administrator's balance alone, takes in an amount and books it, or pays one
   out to the administrator; nobody else's payment touches that balance because `Admin` is no
   provider or consumer. `PauseHolds`: while paused, no action that mints, creates or stakes is
   enabled, and a settlement only burns.

**The programs**

9. `NodeProofs`: `NodeInv` holds `TypeOK`, the number of lives left (`TypeOK` alone is not
   inductive: a restart counts one), that tasks only run while the node polls, what the events
   name, that what was handed over lies up to the cursor, and for each job four parts: the result
   is at hand from the inference on (`ResultAtHand`), what is on the chain is served (`Served`),
   what the task knows of its job is true unless a read failed (`Knows`), and what it left open is
   excused (`Excused`). One lemma per step says what it does to its own task; for the others it
   only makes transactions stale. The theorems are `NodeTypeCorrect`, `EventsHandedOver`,
   `OutputServed` and `OpenJobExcused`.
10. `LiquidityProofs`: the place in the program says what is in the wallet and the balance manager
    (`Course`), the file stays right also while the loop posts (`FileNamesAsk`), and each failure or
    restart strands at most one lot (`LotsBound`). `PromisesWithinStakes` is not inductive: a
    restart raises the bound, and minting is gated by the stake of this life only. `Backed` is
    stronger: everything on sale is within a capacity for each *earlier* life and what this one's
    stake counts. The theorems are `LiquidityTypeCorrect`, `AbandonedSpent`, `StrandedBounded`,
    `DiscoveryRight` and `PromisesBacked`.
11. `ConsumerProofs`: `ConsumerInv` gives each job the events its phase allows (`History`), and
    relates each task to its job (`Fits`): a task has a job only after its purchase, and what it was
    told (`seen`, `term`, `paid`) is in that history. A query shows a window of it, so whatever it
    finds, happened. Every step of a client moves one task to a record that fits its job again, every
    step of the world one job to a record its task fits. The balance follows by counting the tasks
    with and without a job. The theorems are `ConsumerTypeCorrect`, `TasksPayOnce`, `ReportsAreTrue`
    and `TamperingShows`.
12. `WebProofs`, the harness: `HarnessInv` says at each await of `run` what the mirror and the
    backend have in common. `OrdersAreBacked` and `BooksBalance` speak of the time between two orders
    or of totals; in the middle of one, what is reserved is the quantity of the job under way
    (`Reserving`), what the mirror deducted is what the backend will (`Mirroring`), and the job
    under way is one the backend still holds open (`Course`). The theorems are `HarnessInductive`,
    `OrdersBacked` and `BooksBalanced`; they are about the harness wherever it runs, and stated for
    `WebPage`'s specification, in which every step of the harness is a step.
13. `WebProofs`, the feed: `FeedInv` says that the feed's sums are the tally (`Tallied`), that no frame
    on the wire is ahead of the backend (`WireIsTrue`), that the last ticker on the wire, or
    the page's own when there is none, is the current one (`Fresh`), and that there is one deal for
    each job which the feed, every frame and every row agree with and which the amounts paid are
    computed from (`AsDealt`). A lost connection empties the wire: then nothing is owed but the
    snapshot after the next subscription. `FeedIsTally` follows.
14. `WebProofs`, the page: `PageInv` is the page's types, that every answer on its way, job and row
    only names states the job has been in (`Past`), and `OutcomesAreTrue`, in which a state reached
    stays reached. `WebTypeCorrect` and `OutcomesTrue` follow. `AuditSound` needs less: only `RunAudit`
    writes the audit.

Only model-checked: the liveness properties (`JobsResolve`, `DispatchedIsServed`, `OfferIsRenewed`,
`TaskEnds`, `PageCatchesUp`), which are beyond the prover, as is everything with ENABLED; and the
five violations, which are about particular states. What the prover cannot do, by induction over
data, is replaced by the smallest counterexample where the proofs need it: `SumFunction` is the one
recursive definition the models rest on.

## Divergences seen and not checked by a run

- `sdk/src/chain.ts:63` and `examples/no-gpu-client/src/chain.ts:49` say that target and argument
  order must match the package. The plans they build take one type argument and no inline `input`:
  they match the ABI of `contracts/README.md` (the "documented" package of `ConsumerTask`), not
  `contracts/sources`, whose functions take a second type argument for the quote coin, and not the
  checked-in `deployment.testnet.json` ("generic"). Both are instances of the run.
- `create_job` takes a stake and credits its signer must own, so a consumer of its own cannot call
  it; the harness on one funded account can.
- The dry-run backend and the chain differ: an SLA fault costs 30 % there and 50 % on chain, the
  share of the bond is `min(escrow, bond)` there and `bond * qty / capacity` on chain, a flat
  penalty is 1 USDC there and 0 on chain, and a wrong output is judged there only.
- On a chain, events carry `scu_qty` and `price_usdc`, which the feed does not read, so its sizes and
  prices are 0; the mirror drifts, because refunded credits come back as a coin `sui.ts:497` never
  looks for.
- The cancellation of orders at shutdown is built and never sent; a lost balance manager leads to a
  second one, whose predecessor's deposit and orders nobody tends.
- `splitEscrowCoin` reads the first page of coins only. The SDK demo polls without a deadline.
- The mock wallet reads its balance before a delay and writes it after: two fundings at once leave
  the money of one. Reads of the live poller are applied in the order of their answers, also after
  it stopped, so a row may go back; rows are not sent again after a reconnect.
- A mock measurement approved on localnet stays approved when the flag is turned off, although
  `registry.move:159` says it can never reach a live allowlist.

## Not modelled

- `set_k` (k is never read), the object version gate (one version exists), `locked_until` (its
  setter has no caller) and `STATE_EXPIRED` (never set).
- u64 overflow, which aborts a transaction: amounts in the runs stay far below 2^64.
- A second market: it shares only `Config` and the treasury with the first. The harness and the page
  are modelled with one market too.
- `withdraw_treasury` to an arbitrary recipient: the administrator's own address is used.
- The binding of a DeepBook fill to the job created from it: `create_job_from_fill` names any
  provider and takes the quantity for the price, and so does the model.
- Encodings, signatures, key files, HTTP framing, blob transfer and the model server, beyond their
  outcomes. The fee in DEEP and the prices of DeepBook orders.
- The harness's synthetic book, candles, trades, scenario files and shutdown (`wsserver.ts:407`
  waits for its clients); the page's order book, candles, DeepBook data source, wallet connection,
  key storage and onramp. None of it feeds back into jobs or money. A page whose reply to a
  purchase is lost does not track the paid job: the `live` mode has that outcome, no property
  speaks of a job nobody tracks.
- End-to-end tests and deployment scripts: they drive the calls modelled here. `deploy.sh` is
  `Exchange`'s initial state.

## Plan

1. `ProviderNode` and `ConsumerTask` on one chain: a consumer's wait against the node's failures. The
   reduced chains of both, and of `Harness`, shown to be implemented by `Exchange`.
2. The exchange with several stakes: what `consume_minted` and `release` still guarantee for the sum
   over the stakes, which the one-stake theorems do not say.
3. Two markets in the harness and the page.
