------------------------------ MODULE Harness ------------------------------
(***************************************************************************)
(* The simulation harness (harness/src): the orchestrator streams synthetic *)
(* orders, matches each with a provider's ask and drives the job to its end *)
(* through a chain backend; every event is folded into the tally and into   *)
(* the frames the WebSocket feed broadcasts to its client, the web page.    *)
(*                                                                          *)
(* A step runs from one await of streamOne to the next.  The orchestrator   *)
(* keeps its own view of providers and consumers (actor) beside the         *)
(* backend's ledger, and sizes orders by that view alone.  Backends: the    *)
(* in-memory "dry-run", or a Sui chain - "generic" (the package of the      *)
(* checked-in deployment, whose functions take a second type argument),     *)
(* "distinct" (the package the harness was written for, providers and       *)
(* consumers on different accounts) or "one-account".                       *)
(*                                                                          *)
(* One market, one client of the feed.  Bounds: Orders, Drops.              *)
(***************************************************************************)
EXTENDS Naturals, Sequences, FiniteSets, FiniteSetsExt, SequencesExt, Functions

CONSTANTS
  Chains, NProviders, NConsumers,
  Capacity, Mint, Bond, Budget,  \* of each provider, of each consumer
  Qtys, Prices, Faults,          \* what the scenario's distributions may draw
  Orders,                        \* orders to stream
  Drops                          \* times the client's connection may break

ASSUME HarnessAssumption ==
  /\ Chains \subseteq {"dry-run", "generic", "distinct", "one-account"}
  /\ {NProviders, NConsumers, Orders} \subseteq Nat \ {0}
  /\ {Capacity, Bond, Budget, Drops} \subseteq Nat
  /\ Mint \subseteq Nat /\ Qtys \subseteq Nat \ {0} /\ Prices \subseteq Nat \ {0}
  /\ Faults \subseteq {"None", "SkipAttest", "LateAttest", "WrongOutput"}

VARIABLES
  chain,    \* the backend
  ledger,   \* what the backend holds
  actor,    \* the orchestrator's mirror of it
  pc,       \* where run() stands
  order,    \* orders streamed so far
  job,      \* the match or job being driven
  ended,    \* how each job created so far stands on the chain
  tally, feed,
  link, wire, drops  \* the client's connection, the frames on it, the times it broke

harness == <<chain, ledger, actor, pc, order, job, ended, tally, feed, link, wire, drops>>

Providers == 1 .. (IF chain = "one-account" THEN 1 ELSE NProviders)
Consumers == 1 .. (IF chain = "one-account" THEN 1 ELSE NConsumers)
JobIds    == 1 .. Orders
SlaP99Ms  == 10

-----------------------------------------------------------------------------
(* Economics of the two kinds of backend. *)

\* f where it is defined, g elsewhere.
Over(f, g) == [x \in DOMAIN f \cup DOMAIN g |-> IF x \in DOMAIN f THEN f[x] ELSE g[x]]

\* What is one thing in the dry run and another on a chain.
ByBackend(dry, sui) == IF chain = "dry-run" THEN dry ELSE sui

Least(a, b) == IF a < b THEN a ELSE b
Most(a, b)  == IF a > b THEN a ELSE b

SettleFee(escrow) == (escrow * 30) \div 10000

BondShare(escrow, bond) == Least(escrow, bond)

\* The dry run's penalty, by reason.
SlashAmount(reason, escrow, bond) ==
  LET share == BondShare(escrow, bond)
  IN CASE reason = "InvalidAttestation" -> Least(bond, share + 1000000)
       [] reason = "AttTimeout"         -> share
       [] reason = "SlaOverrun"         -> (share * 3000) \div 10000

\* The contract's: a share of the bond by capacity, half of it for a late answer, 3 % for a
\* missed ack.
ChainSlash(reason, qty, bond, capacity) ==
  LET share == IF capacity = 0 THEN bond ELSE (bond * qty) \div capacity
  IN Least(bond, IF reason = "SlaOverrun" THEN (share * 5000) \div 10000 ELSE (share * 300) \div 10000)

\* Mutant: the treasury gets all of it, too.
DistributeTwice(penalty, escrow) == [toConsumer |-> Least(penalty, escrow), toTreasury |-> penalty]

DistributeSlash(penalty, escrow) ==
  [toConsumer |-> Least(penalty, escrow), toTreasury |-> penalty - Least(penalty, escrow)]

-----------------------------------------------------------------------------
(* Events, and what the tally and the feed make of them. *)

NoData == [qty |-> 0, price |-> 0, escrow |-> 0, payout |-> 0, fee |-> 0, amount |-> 0, penalty |-> 0]

\* A field an event lacks is read as 0.
Event(type, id, data) == [type |-> type, id |-> id, data |-> data]

\* What stands second where a call makes one event only.
NoEvent == Event("none", 0, NoData)

ZeroTally ==
  [orders |-> 0, fills |-> 0, noMatches |-> 0, jobs |-> 0, dispatched |-> 0, attestations |-> 0,
   settled |-> 0, refunded |-> 0, slashed |-> 0, expired |-> 0,
   usdcEscrowed |-> 0, usdcSettledPayout |-> 0, usdcFees |-> 0, usdcRefunded |-> 0, usdcSlashed |-> 0]

Record(s, e) ==
  CASE e.type = "Order"      -> [s EXCEPT !.orders = @ + 1]
    [] e.type = "Match"      -> [s EXCEPT !.fills = @ + 1]
    [] e.type = "NoMatch"    -> [s EXCEPT !.noMatches = @ + 1]
    [] e.type = "JobCreated" -> [s EXCEPT !.jobs = @ + 1, !.usdcEscrowed = @ + e.data.escrow]
    [] e.type = "Dispatched" -> [s EXCEPT !.dispatched = @ + 1]
    [] e.type = "AttestationSubmitted" -> [s EXCEPT !.attestations = @ + 1]
    [] e.type = "Settled"    -> [s EXCEPT !.settled = @ + 1, !.usdcSettledPayout = @ + e.data.payout,
                                          !.usdcFees = @ + e.data.fee]
    [] e.type = "Refunded"   -> [s EXCEPT !.refunded = @ + 1, !.usdcRefunded = @ + e.data.amount]
    [] e.type = "Slashed"    -> [s EXCEPT !.slashed = @ + 1, !.usdcSlashed = @ + e.data.penalty]
    [] e.type = "Expired"    -> [s EXCEPT !.expired = @ + 1]
    [] OTHER                 -> s

\* out: the frames one handler broadcasts, in order; meta: the jobs in flight.
NoFeed == [last |-> 0, volScu |-> 0, usdcEscrowed |-> 0, usdcSettled |-> 0, usdcSlashed |-> 0,
           meta |-> <<>>, out |-> <<>>]

Ticker(f) == [t |-> "ticker", last |-> f.last, volScu |-> f.volScu, usdcEscrowed |-> f.usdcEscrowed,
              usdcSettled |-> f.usdcSettled, usdcSlashed |-> f.usdcSlashed]

\* money: payoutUsdc, refundUsdc and slashUsdc, those of them the frame carries.
JobFrame(f, e, state, money) ==
  LET m == IF e.id \in DOMAIN f.meta THEN f.meta[e.id] ELSE [sizeScu |-> e.data.qty, price |-> e.data.price]
  IN [t |-> "job", id |-> e.id, state |-> state, sizeScu |-> m.sizeScu, price |-> m.price, money |-> money]

Broadcast(f, frames) == [f EXCEPT !.out = @ \o frames]

Forget(f, id) == [f EXCEPT !.meta = [i \in DOMAIN @ \ {id} |-> @[i]]]

\* No trade print for a price of 0.
RecordTrade(f, e) ==
  IF e.data.price = 0 THEN f ELSE [f EXCEPT !.last = e.data.price, !.volScu = @ + e.data.qty]

OnJobCreated(f, e) ==
  LET g == [RecordTrade(f, e) EXCEPT
              !.meta = Over([i \in {e.id} |-> [sizeScu |-> e.data.qty, price |-> e.data.price]], @),
              !.usdcEscrowed = @ + e.data.escrow]
  IN Broadcast(g, <<[t |-> "trade", id |-> e.id, sizeScu |-> e.data.qty, price |-> e.data.price],
                    Ticker(g), JobFrame(g, e, "Dispatched", <<>>)>>)

OnSettled(f, e) ==
  LET g == [f EXCEPT !.usdcSettled = @ + e.data.payout]
  IN Forget(Broadcast(g, <<JobFrame(g, e, "Settled", [payout |-> e.data.payout]), Ticker(g)>>), e.id)

\* Mutant: the meta goes with the refund.
OnRefundedForgets(f, e) ==
  Forget(Broadcast(f, <<JobFrame(f, e, "Refunded", [refund |-> e.data.amount]), Ticker(f)>>), e.id)

\* The meta stays, for the Slashed that may follow.
OnRefunded(f, e) ==
  Broadcast(f, <<JobFrame(f, e, "Refunded", [refund |-> e.data.amount]), Ticker(f)>>)

OnSlashed(f, e) ==
  LET g == [f EXCEPT !.usdcSlashed = @ + e.data.penalty]
  IN Forget(Broadcast(g, <<JobFrame(g, e, "Slashed", [slash |-> e.data.penalty]), Ticker(g)>>), e.id)

Handle(f, e) ==
  CASE e.type = "JobCreated" -> OnJobCreated(f, e)
    [] e.type = "Dispatched" -> Broadcast(f, <<JobFrame(f, e, "Dispatched", <<>>)>>)
    [] e.type = "AttestationSubmitted" -> Broadcast(f, <<JobFrame(f, e, "Attested", <<>>)>>)
    [] e.type = "Settled"    -> OnSettled(f, e)
    [] e.type = "Refunded"   -> OnRefunded(f, e)
    [] e.type = "Slashed"    -> OnSlashed(f, e)
    [] e.type = "Expired"    -> Broadcast(f, <<JobFrame(f, e, "Expired", <<>>)>>)
    [] OTHER                 -> f

\* The events of one call, in order.
Emit(first, second) ==
  LET f == Handle(Handle(feed, first), second)
  IN /\ tally' = Record(Record(tally, first), second)
     /\ feed' = [f EXCEPT !.out = <<>>]
     /\ wire' = IF link = "up" THEN wire \o f.out ELSE wire

\* A client that connects is sent the markets and the tickers, and no job.
OnConnection == wire' = <<[t |-> "hello"], Ticker(feed)>>

-----------------------------------------------------------------------------
(* The orchestrator. *)

NoJob == [id |-> 0, provider |-> 0, consumer |-> 0, qty |-> 0, price |-> 0, escrow |-> 0,
          fault |-> "None", output |-> "", latency |-> 0]

HarnessInit ==
  /\ chain \in Chains
  /\ \E minted \in Mint :
       /\ actor = [minted   |-> [p \in Providers |-> minted],
                   reserved |-> [p \in Providers |-> 0],
                   budget   |-> [c \in Consumers |-> Budget]]
       /\ ledger = [bond |-> [p \in Providers |-> 0], capacity |-> [p \in Providers |-> 0],
                    minted |-> [p \in Providers |-> 0], reserved |-> [p \in Providers |-> 0],
                    credit |-> [p \in Providers |-> 0], budget |-> [c \in Consumers |-> 0], treasury |-> 0]
  /\ pc = "setup" /\ order = 0 /\ job = NoJob /\ ended = [i \in JobIds |-> "none"]
  /\ tally = ZeroTally /\ feed = NoFeed
  /\ link = "down" /\ wire = <<>> /\ drops = 0

\* Nothing catches what a backend throws: the process exits and the feed goes with it.
Crash == pc' = "crashed" /\ UNCHANGED <<ledger, actor, order, job, ended, tally, feed, wire>>

WithinCapacity == \A p \in Providers : actor.minted[p] <= Capacity

\* Every call of the chain backend names one type argument too few for the generic package.
CallsAccepted == chain # "generic"

\* Stake, mint and fund.
Setup ==
  /\ pc = "setup"
  /\ UNCHANGED <<chain, link, drops>>
  /\ \/ ~(CallsAccepted /\ WithinCapacity) /\ Crash
     \/ /\ CallsAccepted /\ WithinCapacity
        /\ pc' = "order"
        /\ ledger' = [ledger EXCEPT !.bond = [p \in Providers |-> Bond], !.capacity = [p \in Providers |-> Capacity],
                                    !.minted = actor.minted, !.credit = actor.minted, !.budget = actor.budget]
        /\ UNCHANGED <<actor, order, job, ended, tally, feed, wire>>

NextOrder == IF order' = Orders THEN "done" ELSE "order"

\* Asks are priced per provider and sized to the capacity its actor has free.
Crossing(ask, price) ==
  {p \in Providers : actor.minted[p] > actor.reserved[p] /\ ask[p] <= price}

\* The cheapest, of those the largest, of those the first.
Best(ask, S) ==
  LET free(p) == actor.minted[p] - actor.reserved[p]
      cheapest == {p \in S : \A o \in S : ask[p] <= ask[o]}
      largest == {p \in cheapest : \A o \in cheapest : free(p) >= free(o)}
  IN CHOOSE p \in largest : \A o \in largest : p <= o

MatchOf(c, qty, ask, S) ==
  LET p == Best(ask, S)
      q == Least(qty, actor.minted[p] - actor.reserved[p])
  IN [NoJob EXCEPT !.provider = p, !.consumer = c, !.qty = q, !.price = ask[p], !.escrow = q * ask[p]]

Unmatched ==
  /\ pc' = NextOrder
  /\ Emit(Event("Order", 0, NoData), Event("NoMatch", 0, NoData))
  /\ UNCHANGED <<actor, job>>

\* An order: the affordability gate, the match, and the mirror of the reservation.
StreamOrder ==
  /\ pc = "order" /\ order < Orders
  /\ order' = order + 1
  /\ UNCHANGED <<chain, ledger, ended, link, drops>>
  /\ \E c \in Consumers, qty \in Qtys, price \in Prices :
       \/ actor.budget[c] < qty * price /\ Unmatched
       \/ /\ actor.budget[c] >= qty * price
          /\ \E ask \in [Providers -> Prices] :
               LET S == Crossing(ask, price)
                   m == MatchOf(c, qty, ask, S)
               IN \/ S = {} /\ Unmatched
                  \/ /\ S # {}
                     /\ pc' = "create" /\ job' = m
                     /\ actor' = [actor EXCEPT !.reserved[m.provider] = @ + m.qty,
                                               !.budget[c] = @ - m.escrow]
                     /\ Emit(Event("Order", 0, NoData), Event("Match", 0, NoData))

\* On a chain the consumer signs: it must own the provider's stake and credits, and the
\* credits come out of the one coin that was minted at setup.
CanCreate(j) ==
  /\ ledger.budget[j.consumer] >= j.escrow
  /\ IF chain = "dry-run"
     THEN ledger.reserved[j.provider] + j.qty <= ledger.minted[j.provider]
     ELSE /\ chain = "one-account"
          /\ ledger.credit[j.provider] >= j.qty
          /\ ledger.reserved[j.provider] + j.qty <= ledger.capacity[j.provider]

\* The chain's own event names the amounts differently: only the escrow is passed on.
JobCreated(j) ==
  Event("JobCreated", j.id,
        ByBackend([NoData EXCEPT !.qty = j.qty, !.price = j.price, !.escrow = j.escrow],
                  [NoData EXCEPT !.escrow = j.escrow]))

CreateJob ==
  /\ pc = "create"
  /\ UNCHANGED <<chain, link, drops>>
  /\ \/ ~CanCreate(job) /\ Crash
     \/ /\ CanCreate(job)
        /\ \E fault \in Faults :
             LET j == [job EXCEPT !.id = tally.jobs + 1, !.fault = fault]
             IN /\ job' = j
                /\ pc' = IF fault = "SkipAttest" THEN "resolve" ELSE "attest"
                /\ ledger' = [ledger EXCEPT !.budget[j.consumer] = @ - j.escrow,
                                            !.reserved[j.provider] = @ + j.qty,
                                            !.credit[j.provider] = ByBackend(@, @ - j.qty)]
                /\ ended' = [ended EXCEPT ![j.id] = "Dispatched"]
                /\ Emit(JobCreated(j), Event("Dispatched", j.id, NoData))
        /\ UNCHANGED <<actor, order>>

\* The latency is pushed over the limit for a late answer, and under it for the others.
Attestation(fault, latency) ==
  [output  |-> IF fault = "WrongOutput" THEN "wrong" ELSE "honest",
   latency |-> IF fault = "LateAttest" THEN Most(latency, SlaP99Ms + 1) ELSE Least(latency, SlaP99Ms)]

SubmitMockAttestation ==
  /\ pc = "attest"
  /\ \E latency \in {SlaP99Ms, SlaP99Ms + 1} :
       LET att == Attestation(job.fault, latency)
       IN job' = [job EXCEPT !.output = att.output, !.latency = att.latency]
  /\ pc' = "resolve"
  /\ ended' = [ended EXCEPT ![job.id] = "Attested"]
  /\ Emit(Event("AttestationSubmitted", job.id, NoData), NoEvent)
  /\ UNCHANGED <<chain, ledger, actor, order, link, drops>>

\* A chain backend does not judge the output: only a late answer is at fault.
PredictVerdict(j) ==
  IF j.output # "honest" /\ chain = "dry-run" THEN "InvalidAttestation"
  ELSE IF j.latency > SlaP99Ms THEN "SlaOverrun" ELSE "VALID"

ReasonOf(j) == IF j.fault = "SkipAttest" THEN "AttTimeout" ELSE PredictVerdict(j)

\* The dry run pays the provider's wallet, which it does not keep; on one account the
\* payout returns to the consumer's.
Settled(j) ==
  LET fee == SettleFee(j.escrow)
  IN /\ ledger' = [ledger EXCEPT !.minted[j.provider] = @ - j.qty, !.reserved[j.provider] = @ - j.qty,
                                 !.treasury = @ + fee,
                                 !.budget[j.consumer] = ByBackend(@, @ + j.escrow - fee)]
     /\ ended' = [ended EXCEPT ![j.id] = "Settled"]
     /\ Emit(Event("Settled", j.id, [NoData EXCEPT !.payout = j.escrow - fee, !.fee = fee]), NoEvent)

\* Refunded, and the bond slashed in favour of the consumer and then of the treasury.
FaultTerminal(j, reason) ==
  LET bond    == ledger.bond[j.provider]
      cap     == ledger.capacity[j.provider]
      penalty == ByBackend(SlashAmount(reason, j.escrow, bond), ChainSlash(reason, j.qty, bond, cap))
      split   == DistributeSlash(penalty, j.escrow)
  IN /\ ledger' = [ledger EXCEPT !.bond[j.provider] = @ - penalty, !.reserved[j.provider] = @ - j.qty,
                                 !.capacity[j.provider] = ByBackend(@, @ - @ \div 10),
                                 !.budget[j.consumer] = @ + j.escrow + split.toConsumer,
                                 !.treasury = @ + split.toTreasury]
     /\ ended' = [ended EXCEPT ![j.id] = "Refunded"]
     /\ Emit(Event("Refunded", j.id, [NoData EXCEPT !.amount = j.escrow]),
             IF penalty > 0 \/ chain # "dry-run"
             THEN Event("Slashed", j.id, [NoData EXCEPT !.penalty = penalty]) ELSE NoEvent)

\* The wait for the ack deadline ends by the simulated clock, which may be behind the
\* chain's; the expiry is then rejected.
MayExpireEarly(j) == chain # "dry-run" /\ j.fault = "SkipAttest"

\* Mutant: credits are only given back, never used up.
ReleaseOnly(j, burnt) ==
  actor' = [actor EXCEPT !.reserved[j.provider] = @ - j.qty,
                         !.budget[j.consumer] = IF burnt THEN @ ELSE @ + j.escrow]

\* The mirror once the job is terminal: a settled job used its credits up.
Release(j, burnt) ==
  actor' = [actor EXCEPT !.reserved[j.provider] = @ - j.qty,
                         !.minted[j.provider] = IF burnt THEN @ - j.qty ELSE @,
                         !.budget[j.consumer] = IF burnt THEN @ ELSE @ + j.escrow]

Resolve ==
  /\ pc = "resolve"
  /\ UNCHANGED <<chain, order, link, drops>>
  /\ \/ MayExpireEarly(job) /\ Crash
     \/ /\ \/ ReasonOf(job) = "VALID" /\ Settled(job) /\ Release(job, TRUE)
           \/ ReasonOf(job) # "VALID" /\ FaultTerminal(job, ReasonOf(job)) /\ Release(job, FALSE)
        /\ pc' = NextOrder /\ job' = NoJob

HarnessNext == Setup \/ StreamOrder \/ CreateJob \/ SubmitMockAttestation \/ Resolve

-----------------------------------------------------------------------------
(* Properties of the harness. *)

\* Every value is of its type.
HarnessTypeOK ==
  /\ chain \in Chains /\ pc \in {"setup", "order", "create", "attest", "resolve", "done", "crashed"}
  /\ order \in 0 .. Orders /\ drops \in 0 .. Drops /\ link \in {"down", "opening", "up"}
  /\ ended \in [JobIds -> {"none", "Dispatched", "Attested", "Settled", "Refunded"}]
  /\ \A f \in {actor.minted, actor.reserved, ledger.bond, ledger.minted, ledger.reserved, ledger.credit,
               ledger.capacity} : f \in [Providers -> Nat]
  /\ actor.budget \in [Consumers -> Nat] /\ ledger.budget \in [Consumers -> Nat] /\ ledger.treasury \in Nat
  /\ \A k \in DOMAIN tally : tally[k] \in Nat
  /\ job.provider \in {0} \cup Providers /\ job.qty \in Nat /\ job.escrow = job.qty * job.price
  /\ DOMAIN feed.meta \subseteq JobIds /\ feed.out = <<>>

\* The orchestrator sizes and admits orders by its own mirror of the accounts: between two
\* orders it agrees with the ledger on what is minted, reserves nothing, and never believes
\* a consumer richer than it is; so in a dry run, once set up, no order is ever rejected.
OrdersAreBacked ==
  chain = "dry-run" =>
    /\ pc \in {"order", "done"} =>
         /\ actor.minted = ledger.minted
         /\ \A p \in Providers : actor.reserved[p] = 0 /\ ledger.reserved[p] = 0
         /\ \A c \in Consumers : actor.budget[c] <= ledger.budget[c]
    /\ pc = "crashed" => order = 0

\* No money is made or lost in a dry run: what is in bonds, budgets, the treasury and open
\* escrow, and what was paid out by the tally, is what was put in; and the escrow the tally
\* has seen and has not seen leave is that of the job under way.
BooksBalance ==
  LET open == IF job.id = 0 THEN 0 ELSE job.escrow
  IN /\ tally.usdcEscrowed = open + tally.usdcSettledPayout + tally.usdcFees + tally.usdcRefunded
     /\ chain = "dry-run" /\ pc \notin {"setup", "crashed"} =>
          SumFunction(ledger.bond) + SumFunction(ledger.budget) + ledger.treasury + open + tally.usdcSettledPayout
            = NProviders * Bond + NConsumers * Budget
=============================================================================
