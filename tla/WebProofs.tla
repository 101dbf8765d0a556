----------------------------- MODULE WebProofs -----------------------------
(***************************************************************************)
(* Theorems about the harness, its feed and the page, on every backend, for *)
(* every number of providers, consumers and orders, all amounts and prices, *)
(* and whatever happens to the connection.  HarnessInv says what the mirror *)
(* and the backend have in common at each await, FeedInv what is true of    *)
(* the frames that are still on the wire, PageInv what the page made of     *)
(* those it read.                                                           *)
(***************************************************************************)
EXTENDS WebPage, SumProofs, SequenceTheorems, TLAPS

-----------------------------------------------------------------------------
(* The inductive invariant: the harness *)

Stages == {"setup", "order", "create", "attest", "resolve", "done", "crashed"}
Fates  == {"none", "Dispatched", "Attested", "Settled", "Refunded"}

JobRecords ==
  [id : {0} \cup JobIds, provider : {0} \cup Providers, consumer : {0} \cup Consumers,
   qty : Nat, price : Nat, escrow : Nat, fault : {"None", "SkipAttest", "LateAttest", "WrongOutput"},
   output : {"", "honest", "wrong"}, latency : Nat]

Mirrors == [minted : [Providers -> Nat], reserved : [Providers -> Nat], budget : [Consumers -> Nat]]

Ledgers ==
  [bond : [Providers -> Nat], capacity : [Providers -> Nat], minted : [Providers -> Nat],
   reserved : [Providers -> Nat], credit : [Providers -> Nat], budget : [Consumers -> Nat],
   treasury : Nat]

Tallies ==
  [orders : Nat, fills : Nat, noMatches : Nat, jobs : Nat, dispatched : Nat, attestations : Nat,
   settled : Nat, refunded : Nat, slashed : Nat, expired : Nat, usdcEscrowed : Nat,
   usdcSettledPayout : Nat, usdcFees : Nat, usdcRefunded : Nat, usdcSlashed : Nat]

HarnessShape ==
  /\ chain \in Chains /\ pc \in Stages /\ order \in 0 .. Orders
  /\ job \in JobRecords /\ actor \in Mirrors /\ ledger \in Ledgers /\ tally \in Tallies
  /\ ended \in [JobIds -> Fates]

Working == pc \in {"attest", "resolve"}

\* Where the job under way stands, and which ids were given out.
Course ==
  /\ job.escrow = job.qty * job.price
  /\ tally.jobs <= order /\ (pc = "create" => tally.jobs < order)
  /\ pc = "setup" => order = 0 /\ tally = ZeroTally /\ ledger.treasury = 0
                     /\ actor.budget = [c \in Consumers |-> Budget]
  /\ pc \in {"setup", "order", "done"} => job = NoJob
  /\ pc = "create" => job.id = 0
  /\ pc = "create" \/ Working => job.provider \in Providers /\ job.consumer \in Consumers
  /\ Working => job.id = tally.jobs /\ job.id \in JobIds /\ ended[job.id] \in {"Dispatched", "Attested"}
  /\ \A i \in JobIds : ended[i] = "none" <=> i > tally.jobs

\* The mirror reserves for the job under way, the backend from its creation on; neither
\* reserves more than was minted.
Reserving ==
  \A p \in Providers :
    /\ actor.reserved[p] = IF p = job.provider THEN job.qty ELSE 0
    /\ actor.reserved[p] <= actor.minted[p]
    /\ ledger.reserved[p] = IF p = job.provider /\ job.id # 0 THEN job.qty ELSE 0
    /\ ledger.reserved[p] + (IF chain = "dry-run" THEN 0 ELSE ledger.credit[p]) <= ledger.minted[p]

\* What the mirror believes of a dry run.
Mirroring ==
  chain = "dry-run" =>
    /\ pc = "crashed" => order = 0
    /\ pc \notin {"setup", "crashed"} =>
         /\ actor.minted = ledger.minted
         /\ \A c \in Consumers :
              actor.budget[c] + (IF pc = "create" /\ c = job.consumer THEN job.escrow ELSE 0)
                <= ledger.budget[c]

HarnessInv == HarnessShape /\ Course /\ Reserving /\ Mirroring /\ BooksBalance

-----------------------------------------------------------------------------
(* The inductive invariant: the feed *)

Deals == [sizeScu : Nat, price : Nat]
Metas == UNION {[S -> Deals] : S \in SUBSET JobIds}
Sums  == UNION {[S -> Nat] : S \in SUBSET {"payout", "refund", "slash"}}

Feeds ==
  [last : Nat, volScu : Nat, usdcEscrowed : Nat, usdcSettled : Nat, usdcSlashed : Nat,
   meta : Metas, out : {<<>>}]

Frames ==
  [t : {"hello"}]
  \cup [t : {"trade"}, id : JobIds, sizeScu : Nat, price : Nat]
  \cup [t : {"ticker"}, last : Nat, volScu : Nat, usdcEscrowed : Nat, usdcSettled : Nat,
        usdcSlashed : Nat]
  \cup [t : {"job"}, id : JobIds, state : {"Dispatched", "Attested", "Settled", "Refunded", "Slashed"},
        sizeScu : Nat, price : Nat, money : Sums]

FeedShape ==
  /\ feed \in Feeds /\ wire \in Seq(Frames) /\ link \in {"down", "opening", "up"}
  /\ drops \in 0 .. Drops /\ DOMAIN feed.meta \subseteq 1 .. tally.jobs
  /\ Working => job.id \in DOMAIN feed.meta

\* The ticker is the tally's.
Tallied ==
  /\ feed.usdcEscrowed = tally.usdcEscrowed /\ feed.usdcSettled = tally.usdcSettledPayout
  /\ feed.usdcSlashed = tally.usdcSlashed

\* What the backend did to a job.
OnLedger(fate, state) ==
  CASE state = "Settled" -> fate = "Settled"
    [] state \in {"Refunded", "Slashed"} -> fate = "Refunded"
    [] state = "Attested" -> fate \notin {"none", "Dispatched"}
    [] OTHER -> fate # "none"

JobsIn(frames) == {k \in DOMAIN frames : frames[k].t = "job"}
TickersIn(frames) == {k \in DOMAIN frames : frames[k].t = "ticker"}

\* Nothing on the wire runs ahead of the backend.
WireIsTrue == \A k \in JobsIn(wire) : OnLedger(ended[wire[k].id], wire[k].state)

\* The last ticker on its way is the feed's, or, with none, the one that a page shows.
Fresh ==
  link = "up" =>
    \/ TickersIn(wire) = {} /\ (page.ticker # <<>> => page.ticker = Ticker(feed))
    \/ \E k \in TickersIn(wire) :
         wire[k] = Ticker(feed) /\ \A l \in TickersIn(wire) : l <= k

\* Frames and rows of a job carry the size and price it was made with, and what follows.
Paid(money, escrow) ==
  /\ "payout" \in DOMAIN money => money.payout = escrow - SettleFee(escrow)
  /\ "refund" \in DOMAIN money => money.refund = escrow

Dealt(x, deal) ==
  x.sizeScu = deal.sizeScu /\ x.price = deal.price /\ Paid(x.money, deal.sizeScu * deal.price)

DealtAs(d) ==
  /\ \A i \in DOMAIN feed.meta : feed.meta[i] = d[i]
  /\ Working => d[job.id].sizeScu = job.qty /\ d[job.id].price = job.price
  /\ \A k \in JobsIn(wire) : Dealt(wire[k], d[wire[k].id])
  /\ \A i \in JobIds : rows[i].state # "none" => Dealt(rows[i], d[i])

AsDealt == mode = "ws" /\ chain = "dry-run" => \E d \in [JobIds -> Deals] : DealtAs(d)

FeedInv == FeedShape /\ Tallied /\ WireIsTrue /\ Fresh /\ AsDealt

-----------------------------------------------------------------------------
(* The inductive invariant: the page *)

RowStates == {"none", "Created", "Matched", "Escrowed", "Dispatched", "Executing", "Attested",
              "Verified", "Settled", "Refunded", "Slashed", "Expired"}
LiveStates == {"Dispatched", "Executing", "Attested", "Verified", "Settled", "Slashed"}

Row  == [state : RowStates, sizeScu : Nat, price : Nat, money : Sums]
Logs == [{0} \cup JobIds -> [kind : {"none", "run", "trade", "settle"},
                             status : {"none", "submitted", "settled", "failed"}]]
Jobs == [JobIds -> [been : SUBSET RowStates, state : RowStates, fault : {"none", "slash", "refund"},
                    blob : {"none", "attested", "other"}]]
Wallets == [credits : Nat, usdc : Nat, busy : {"none", "buy", "sell", "run", "buyAndRun"}, have : Nat]
Polls == [on : BOOLEAN, timedOut : BOOLEAN, triggered : BOOLEAN, replies : Seq(LiveStates)]

PageShape ==
  /\ mode \in {"ws", "mock", "live"}
  /\ page \in [status : {"connecting", "connected", "disconnected"}, hello : BOOLEAN,
               subscribed : BOOLEAN, timer : BOOLEAN, ticker : {<<>>} \cup Frames]
  /\ rows \in [JobIds -> Row] /\ activity \in Logs /\ jobs \in Jobs
  /\ orders \in [{0} \cup JobIds -> {"none", "open", "filled", "canceled"}]
  /\ wallet \in Wallets /\ poll \in Polls
  /\ Len(poll.replies) <= Replies
  /\ page.ticker # <<>> => page.subscribed
  /\ \A i \in JobIds : rows[i].state = "none" => rows[i] = NoRow

\* A job has been where it is; the poller only asks for one that exists and has a row.
Past ==
  /\ \A i \in JobIds : jobs[i].state = "none" \/ jobs[i].state \in jobs[i].been
  /\ mode = "live" =>
       /\ jobs[1].state \in {"none"} \cup LiveStates /\ jobs[1].been \subseteq LiveStates
       /\ poll.on \/ poll.replies # <<>> => rows[1].state # "none" /\ jobs[1].state # "none"
       /\ \A k \in DOMAIN poll.replies : poll.replies[k] \in jobs[1].been
       /\ rows[1].state # "none" => jobs[1].state # "none"

PageInv == PageShape /\ Past /\ OutcomesAreTrue

-----------------------------------------------------------------------------
(* Amounts *)

(* What the assumption says of each number. *)
LEMMA Numbers ==
  /\ NProviders \in Nat \ {0} /\ NConsumers \in Nat \ {0} /\ Orders \in Nat \ {0}
  /\ Capacity \in Nat /\ Bond \in Nat /\ Budget \in Nat /\ Drops \in Nat
<1>1. {NProviders, NConsumers, Orders} \subseteq Nat \ {0}
  BY HarnessAssumption
<1>2. {Capacity, Bond, Budget, Drops} \subseteq Nat
  BY HarnessAssumption
<1> QED
  BY <1>1, <1>2

(* A part of an amount, rounded down, is no more than the amount. *)
LEMMA PartBelow ==
  ASSUME NEW x \in Nat, NEW a \in Nat, NEW b \in Nat, a <= b, b > 0
  PROVE  (x * a) \div b \in Nat /\ (x * a) \div b <= x
<1>1. x * a <= x * b /\ x * a \in Nat /\ x * b \in Nat
  <2>1. x * (b - a) >= 0 /\ x * b = x * a + x * (b - a)
    <3>1. b - a \in Nat
      OBVIOUS
    <3>2. ASSUME NEW d \in Nat PROVE x * d \in Nat
      OBVIOUS
    <3> QED
      BY <3>1, <3>2
  <2>2. x * a \in Nat /\ x * b \in Nat /\ x * (b - a) \in Int
    OBVIOUS
  <2> QED
    BY <2>1, <2>2
<1> DEFINE y == x * a
           z == y \div b
<1>2. y \in Nat /\ y <= x * b
  BY <1>1
<1> HIDE DEF y
<1>3. z \in Nat /\ b * z <= y
  BY <1>2
<1> HIDE DEF z
<1>4. z <= x
  <2> SUFFICES ASSUME z > x PROVE FALSE
    BY <1>3
  <2>1. z - x \in Nat \ {0}
    BY <1>3
  <2>2. b * z = b * x + b * (z - x) /\ x * b = b * x
    BY <1>3
  <2>3. b * (z - x) > 0 /\ b * x \in Int /\ b * (z - x) \in Int
    BY <2>1
  <2> QED
    BY <1>2, <1>3, <2>2, <2>3
<1> QED
  BY <1>3, <1>4 DEF y, z

(* The fee is a part of the escrow (economics.ts settleFee). *)
LEMMA FeeBelow ==
  ASSUME NEW escrow \in Nat
  PROVE  SettleFee(escrow) \in Nat /\ SettleFee(escrow) <= escrow
BY PartBelow DEF SettleFee

(* Neither backend slashes more than the bond (economics.ts slashAmount, slashing.move). *)
LEMMA PenaltyBelow ==
  ASSUME NEW escrow \in Nat, NEW bond \in Nat, NEW qty \in Nat, NEW capacity \in Nat,
         NEW reason \in {"InvalidAttestation", "AttTimeout", "SlaOverrun"}
  PROVE  /\ SlashAmount(reason, escrow, bond) \in Nat /\ SlashAmount(reason, escrow, bond) <= bond
         /\ ChainSlash(reason, qty, bond, capacity) \in Nat
         /\ ChainSlash(reason, qty, bond, capacity) <= bond
<1>1. SlashAmount(reason, escrow, bond) \in Nat /\ SlashAmount(reason, escrow, bond) <= bond
  <2> DEFINE share == BondShare(escrow, bond)
  <2>1. share \in Nat /\ share <= bond
    BY DEF BondShare, Least
  <2>2. (share * 3000) \div 10000 \in Nat /\ (share * 3000) \div 10000 <= share
    BY <2>1, PartBelow
  <2>3. Least(bond, share + 1000000) \in Nat /\ Least(bond, share + 1000000) <= bond
    BY <2>1 DEF Least
  <2> HIDE DEF share
  <2>4. CASE reason = "InvalidAttestation"
    BY <2>3, <2>4 DEF SlashAmount, share
  <2>5. CASE reason = "AttTimeout"
    BY <2>1, <2>5 DEF SlashAmount, share
  <2>6. CASE reason = "SlaOverrun"
    BY <2>1, <2>2, <2>6 DEF SlashAmount, share
  <2> QED
    BY <2>4, <2>5, <2>6
<1>2. /\ ChainSlash(reason, qty, bond, capacity) \in Nat
      /\ ChainSlash(reason, qty, bond, capacity) <= bond
  <2> DEFINE share == IF capacity = 0 THEN bond ELSE (bond * qty) \div capacity
             part == IF reason = "SlaOverrun" THEN (share * 5000) \div 10000 ELSE (share * 300) \div 10000
  <2>1. share \in Nat
    <3>1. bond * qty \in Nat
      OBVIOUS
    <3>2. ASSUME NEW x \in Nat, capacity # 0 PROVE x \div capacity \in Nat
      BY <3>2
    <3> QED
      BY <3>1, <3>2
  <2> HIDE DEF share
  <2>2. part \in Nat
    <3>1. (share * 5000) \div 10000 \in Nat /\ (share * 300) \div 10000 \in Nat
      BY <2>1, PartBelow
    <3> QED
      BY <3>1
  <2>3. ChainSlash(reason, qty, bond, capacity) = Least(bond, part)
    BY DEF ChainSlash, share
  <2> HIDE DEF part
  <2> QED
    BY <2>2, <2>3 DEF Least
<1> QED
  BY <1>1, <1>2

(* The two shares of a penalty make it up (economics.ts distributeSlash). *)
LEMMA SharesAdd ==
  ASSUME NEW penalty \in Nat, NEW escrow \in Nat
  PROVE  LET split == DistributeSlash(penalty, escrow)
         IN  /\ split.toConsumer \in Nat /\ split.toTreasury \in Nat
             /\ split.toConsumer + split.toTreasury = penalty
BY DEF DistributeSlash, Least

(* A smaller quantity at a lower price costs no more. *)
LEMMA CostsNoMore ==
  ASSUME NEW a \in Nat, NEW b \in Nat, NEW x \in Nat, NEW y \in Nat, a <= b, x <= y
  PROVE  a * x \in Nat /\ a * x <= b * y
<1>1. ASSUME NEW p \in Nat, NEW q \in Nat PROVE p * q \in Nat
  OBVIOUS
<1>2. b - a \in Nat /\ y - x \in Nat
  OBVIOUS
<1>3. b * y = a * x + a * (y - x) + (b - a) * y
  OBVIOUS
<1>4. a * x \in Nat /\ a * (y - x) \in Nat /\ (b - a) * y \in Nat
  BY <1>1, <1>2
<1> QED
  BY <1>3, <1>4

(* Both kinds of actor are there, whatever the backend. *)
LEMMA Actors ==
  /\ 0 \notin Providers /\ 0 \notin Consumers /\ Providers \subseteq Nat
  /\ IsFiniteSet(Providers) /\ IsFiniteSet(Consumers)
  /\ JobIds \subseteq Nat /\ 0 \notin JobIds /\ 1 \in JobIds
<1>1. ASSUME NEW n \in Nat PROVE IsFiniteSet(1 .. n)
  <2>1. 1 \in Int /\ n \in Int
    OBVIOUS
  <2> QED
    BY <2>1, FS_Interval
<1>2. \E n \in Nat : Providers = 1 .. n
  BY Numbers DEF Providers
<1>3. \E n \in Nat : Consumers = 1 .. n
  BY Numbers DEF Consumers
<1>4. IsFiniteSet(Providers) /\ 0 \notin Providers /\ Providers \subseteq Nat
  BY <1>1, <1>2
<1>5. IsFiniteSet(Consumers) /\ 0 \notin Consumers
  BY <1>1, <1>3
<1>6. JobIds \subseteq Nat /\ 0 \notin JobIds /\ 1 \in JobIds
  BY Numbers DEF JobIds
<1> QED
  BY <1>4, <1>5, <1>6

-----------------------------------------------------------------------------
(* The match *)

(* A nonempty set of providers with natural scores has one of the least and one of the
   greatest score. *)
LEMMA Extremes ==
  ASSUME NEW S \in SUBSET Providers, S # {}, NEW f, \A p \in S : f[p] \in Nat
  PROVE  /\ \E p \in S : \A o \in S : f[p] <= f[o]
         /\ \E p \in S : \A o \in S : f[p] >= f[o]
<1>1. \E p \in S : \A o \in S : f[p] <= f[o]
  <2> DEFINE T == {f[p] : p \in S}
  <2>1. T \in SUBSET Nat /\ T # {}
    OBVIOUS
  <2>2. \E m \in T : \A n \in T : m <= n
    <3> HIDE DEF T
    <3> QED
      BY <2>1, LeastNumber
  <2> QED
    BY <2>2
<1>2. \E p \in S : \A o \in S : f[p] >= f[o]
  <2> DEFINE g == [p \in S |-> f[p]]
             k == SumFunction(g)
             T == {k - f[p] : p \in S}
  <2>1. IsFiniteSet(S) /\ g \in [S -> Nat]
    BY Actors, FS_Subset
  <2>2. k \in Nat /\ \A p \in S : f[p] <= k
    <3>1. k \in Nat
      BY <2>1, SumType
    <3>2. ASSUME NEW p \in S PROVE g[p] <= k
      <4> HIDE DEF g
      <4> QED
        BY <2>1, SumBounds
    <3> QED
      BY <3>1, <3>2
  <2> HIDE DEF k
  <2>3. T \in SUBSET Nat /\ T # {}
    BY <2>2
  <2>4. PICK m \in T : \A n \in T : m <= n
    <3> HIDE DEF T
    <3> QED
      BY <2>3, LeastNumber
  <2>5. PICK p \in S : m = k - f[p]
    BY <2>4
  <2>6. ASSUME NEW o \in S PROVE f[p] >= f[o]
    <3>1. k - f[p] <= k - f[o]
      BY <2>4, <2>5
    <3> QED
      BY <2>2, <3>1
  <2> QED
    BY <2>6
<1> QED
  BY <1>1, <1>2

(* There is a best ask among any (matcher.ts). *)
LEMMA BestIsOne ==
  ASSUME HarnessShape, NEW ask \in [Providers -> Prices], NEW S \in SUBSET Providers, S # {},
         \A p \in S : actor.reserved[p] <= actor.minted[p]
  PROVE  Best(ask, S) \in S
<1> DEFINE free(p) == actor.minted[p] - actor.reserved[p]
           f == [p \in S |-> free(p)]
           cheapest == {p \in S : \A o \in S : ask[p] <= ask[o]}
           largest == {p \in cheapest : \A o \in cheapest : free(p) >= free(o)}
<1>1. \A p \in S : f[p] \in Nat /\ f[p] = free(p)
  BY DEF HarnessShape, Mirrors
<1>2. cheapest # {}
  <2>1. \A p \in S : ask[p] \in Nat
    BY HarnessAssumption
  <2> QED
    BY <2>1, Extremes
<1>3. largest # {}
  <2>1. cheapest \in SUBSET Providers /\ \A p \in cheapest : f[p] \in Nat /\ f[p] = free(p)
    BY <1>1
  <2> HIDE DEF cheapest, f, free
  <2>2. \E p \in cheapest : \A o \in cheapest : f[p] >= f[o]
    BY <1>2, <2>1, Extremes
  <2> QED
    BY <2>1, <2>2
<1>4. \E p \in largest : \A o \in largest : p <= o
  <2>1. largest \in SUBSET Nat
    BY Actors
  <2> HIDE DEF largest
  <2> QED
    BY <1>3, <2>1, LeastNumber
<1>5. Best(ask, S) = CHOOSE p \in largest : \A o \in largest : p <= o
  BY DEF Best
<1>6. largest \subseteq S
  OBVIOUS
<1> HIDE DEF largest
<1>7. Best(ask, S) \in largest
  BY <1>4, <1>5
<1> QED
  BY <1>6, <1>7

(* A match is for at least one SCU, no more than is free, and no dearer than offered. *)
LEMMA MatchFits ==
  ASSUME HarnessShape, NEW c \in Consumers, NEW qty \in Qtys, NEW price \in Prices,
         NEW ask \in [Providers -> Prices], Crossing(ask, price) # {}
  PROVE  LET m == MatchOf(c, qty, ask, Crossing(ask, price))
         IN  /\ m \in JobRecords /\ m.id = 0 /\ m.provider \in Providers /\ m.consumer = c
             /\ m.escrow = m.qty * m.price /\ m.escrow <= qty * price
             /\ m.qty <= actor.minted[m.provider] - actor.reserved[m.provider]
<1> DEFINE S == Crossing(ask, price)
           p == Best(ask, S)
           free == actor.minted[p] - actor.reserved[p]
           q == Least(qty, free)
           m == MatchOf(c, qty, ask, S)
<1>1. S \in SUBSET Providers /\ S # {}
      /\ \A o \in S : actor.minted[o] > actor.reserved[o] /\ ask[o] <= price
  BY DEF Crossing
<1>2. p \in S
  <2>1. \A o \in S : actor.reserved[o] <= actor.minted[o]
    BY <1>1 DEF HarnessShape, Mirrors
  <2> HIDE DEF S
  <2> QED
    BY <1>1, <2>1, BestIsOne
<1>3. m = [NoJob EXCEPT !.provider = p, !.consumer = c, !.qty = q, !.price = ask[p], !.escrow = q * ask[p]]
  BY DEF MatchOf
<1>4. p \in Providers /\ ask[p] \in Nat /\ ask[p] <= price /\ price \in Nat /\ qty \in Nat
  BY <1>1, <1>2, HarnessAssumption
<1>5. free \in Nat
  BY <1>1, <1>2, <1>4 DEF HarnessShape, Mirrors
<1>6. q \in Nat /\ q <= qty /\ q <= free
  BY <1>4, <1>5 DEF Least
<1> HIDE DEF S, p, q, m
<1>7. q * ask[p] \in Nat /\ q * ask[p] <= qty * price
  BY <1>4, <1>6, CostsNoMore
<1>8. /\ m.id = 0 /\ m.provider = p /\ m.consumer = c /\ m.qty = q /\ m.price = ask[p]
      /\ m.escrow = q * ask[p] /\ m.fault = "None" /\ m.output = "" /\ m.latency = 0
  BY <1>3 DEF NoJob
<1>9. m \in JobRecords
  BY <1>3, <1>4, <1>6, <1>7 DEF NoJob, JobRecords
<1> QED
  BY <1>4, <1>6, <1>7, <1>8, <1>9 DEF S, m

-----------------------------------------------------------------------------
(* The tally *)

Data == [qty : Nat, price : Nat, escrow : Nat, payout : Nat, fee : Nat, amount : Nat, penalty : Nat]

\* What tally s has more than tally t, of what anybody relies on.
Adds(s, t, jobs_, escrowed, payout, fees, refunded, slashed) ==
  /\ s \in Tallies
  /\ s.jobs = t.jobs + jobs_ /\ s.usdcEscrowed = t.usdcEscrowed + escrowed
  /\ s.usdcSettledPayout = t.usdcSettledPayout + payout /\ s.usdcFees = t.usdcFees + fees
  /\ s.usdcRefunded = t.usdcRefunded + refunded /\ s.usdcSlashed = t.usdcSlashed + slashed

(* What each event adds to the tally (tally.ts record). *)
LEMMA Recorded ==
  ASSUME NEW t \in Tallies, NEW i, NEW d \in Data
  PROVE  /\ \A type \in {"Order", "Match", "NoMatch", "Dispatched", "AttestationSubmitted", "none"} :
              Adds(Record(t, Event(type, i, d)), t, 0, 0, 0, 0, 0, 0)
         /\ Adds(Record(t, Event("JobCreated", i, d)), t, 1, d.escrow, 0, 0, 0, 0)
         /\ Adds(Record(t, Event("Settled", i, d)), t, 0, 0, d.payout, d.fee, 0, 0)
         /\ Adds(Record(t, Event("Refunded", i, d)), t, 0, 0, 0, 0, d.amount, 0)
         /\ Adds(Record(t, Event("Slashed", i, d)), t, 0, 0, 0, 0, 0, d.penalty)
<1> DEFINE R(type) == Record(t, Event(type, i, d))
<1>1. /\ R("Order") = [t EXCEPT !.orders = @ + 1] /\ R("Match") = [t EXCEPT !.fills = @ + 1]
      /\ R("NoMatch") = [t EXCEPT !.noMatches = @ + 1]
      /\ R("Dispatched") = [t EXCEPT !.dispatched = @ + 1]
      /\ R("AttestationSubmitted") = [t EXCEPT !.attestations = @ + 1] /\ R("none") = t
  BY DEF Record, Event
<1>2. /\ R("JobCreated") = [t EXCEPT !.jobs = @ + 1, !.usdcEscrowed = @ + d.escrow]
      /\ R("Settled") = [t EXCEPT !.settled = @ + 1, !.usdcSettledPayout = @ + d.payout,
                                  !.usdcFees = @ + d.fee]
      /\ R("Refunded") = [t EXCEPT !.refunded = @ + 1, !.usdcRefunded = @ + d.amount]
      /\ R("Slashed") = [t EXCEPT !.slashed = @ + 1, !.usdcSlashed = @ + d.penalty]
  BY DEF Record, Event
<1> HIDE DEF R
<1>3. /\ Adds(R("Order"), t, 0, 0, 0, 0, 0, 0) /\ Adds(R("Match"), t, 0, 0, 0, 0, 0, 0)
      /\ Adds(R("NoMatch"), t, 0, 0, 0, 0, 0, 0) /\ Adds(R("Dispatched"), t, 0, 0, 0, 0, 0, 0)
      /\ Adds(R("AttestationSubmitted"), t, 0, 0, 0, 0, 0, 0) /\ Adds(R("none"), t, 0, 0, 0, 0, 0, 0)
  BY <1>1 DEF Adds, Tallies
<1>4. /\ d.escrow \in Nat /\ d.payout \in Nat /\ d.fee \in Nat /\ d.amount \in Nat /\ d.penalty \in Nat
      /\ t.jobs \in Nat /\ t.settled \in Nat /\ t.refunded \in Nat /\ t.slashed \in Nat
      /\ t.usdcEscrowed \in Nat /\ t.usdcSettledPayout \in Nat /\ t.usdcFees \in Nat
      /\ t.usdcRefunded \in Nat /\ t.usdcSlashed \in Nat
  BY DEF Data, Tallies
<1>5. Adds(R("JobCreated"), t, 1, d.escrow, 0, 0, 0, 0)
  <2> DEFINE x == t.jobs + 1
             y == t.usdcEscrowed + d.escrow
  <2>1. x \in Nat /\ y \in Nat
    BY <1>4
  <2>2. R("JobCreated") = [t EXCEPT !.jobs = x, !.usdcEscrowed = y]
    BY <1>2
  <2> HIDE DEF x, y
  <2>3. R("JobCreated") \in Tallies
    BY <2>1, <2>2, ZenonT(30) DEF Tallies
  <2>4. /\ R("JobCreated").jobs = x /\ R("JobCreated").usdcEscrowed = y
        /\ R("JobCreated").usdcSettledPayout = t.usdcSettledPayout
        /\ R("JobCreated").usdcFees = t.usdcFees /\ R("JobCreated").usdcRefunded = t.usdcRefunded
        /\ R("JobCreated").usdcSlashed = t.usdcSlashed
    BY <2>2 DEF Tallies
  <2> QED
    BY <1>4, <2>3, <2>4 DEF Adds, x, y
<1>6. Adds(R("Settled"), t, 0, 0, d.payout, d.fee, 0, 0)
  <2> DEFINE x == t.settled + 1
             y == t.usdcSettledPayout + d.payout
             z == t.usdcFees + d.fee
  <2>1. x \in Nat /\ y \in Nat /\ z \in Nat
    BY <1>4
  <2>2. R("Settled") = [t EXCEPT !.settled = x, !.usdcSettledPayout = y, !.usdcFees = z]
    BY <1>2
  <2> HIDE DEF x, y, z
  <2>3. R("Settled") \in Tallies
    BY <2>1, <2>2, ZenonT(30) DEF Tallies
  <2>4. /\ R("Settled").jobs = t.jobs /\ R("Settled").usdcEscrowed = t.usdcEscrowed
        /\ R("Settled").usdcSettledPayout = y
        /\ R("Settled").usdcFees = z /\ R("Settled").usdcRefunded = t.usdcRefunded
        /\ R("Settled").usdcSlashed = t.usdcSlashed
    BY <2>2 DEF Tallies
  <2> QED
    BY <1>4, <2>3, <2>4 DEF Adds, x, y, z
<1>7. Adds(R("Refunded"), t, 0, 0, 0, 0, d.amount, 0)
  <2> DEFINE x == t.refunded + 1
             y == t.usdcRefunded + d.amount
  <2>1. x \in Nat /\ y \in Nat
    BY <1>4
  <2>2. R("Refunded") = [t EXCEPT !.refunded = x, !.usdcRefunded = y]
    BY <1>2
  <2> HIDE DEF x, y
  <2>3. R("Refunded") \in Tallies
    BY <2>1, <2>2, ZenonT(30) DEF Tallies
  <2>4. /\ R("Refunded").jobs = t.jobs /\ R("Refunded").usdcEscrowed = t.usdcEscrowed
        /\ R("Refunded").usdcSettledPayout = t.usdcSettledPayout
        /\ R("Refunded").usdcFees = t.usdcFees /\ R("Refunded").usdcRefunded = y
        /\ R("Refunded").usdcSlashed = t.usdcSlashed
    BY <2>2 DEF Tallies
  <2> QED
    BY <1>4, <2>3, <2>4 DEF Adds, x, y
<1>8. Adds(R("Slashed"), t, 0, 0, 0, 0, 0, d.penalty)
  <2> DEFINE x == t.slashed + 1
             y == t.usdcSlashed + d.penalty
  <2>1. x \in Nat /\ y \in Nat
    BY <1>4
  <2>2. R("Slashed") = [t EXCEPT !.slashed = x, !.usdcSlashed = y]
    BY <1>2
  <2> HIDE DEF x, y
  <2>3. R("Slashed") \in Tallies
    BY <2>1, <2>2, ZenonT(30) DEF Tallies
  <2>4. /\ R("Slashed").jobs = t.jobs /\ R("Slashed").usdcEscrowed = t.usdcEscrowed
        /\ R("Slashed").usdcSettledPayout = t.usdcSettledPayout
        /\ R("Slashed").usdcFees = t.usdcFees /\ R("Slashed").usdcRefunded = t.usdcRefunded
        /\ R("Slashed").usdcSlashed = y
    BY <2>2 DEF Tallies
  <2> QED
    BY <1>4, <2>3, <2>4 DEF Adds, x, y
<1> QED
  BY <1>3, <1>5, <1>6, <1>7, <1>8 DEF R

(* The data the events carry. *)
LEMMA DataTyped ==
  /\ NoData \in Data
  /\ \A j \in JobRecords : JobCreated(j) \in [type : {"JobCreated"}, id : {j.id}, data : Data]
                           /\ JobCreated(j).data.escrow = j.escrow
BY DEF NoData, Data, JobCreated, Event, JobRecords, ByBackend

-----------------------------------------------------------------------------
(* The harness, step by step *)

(* Nothing changes of what the chain is. *)
LEMMA SameActors == chain' = chain => Providers' = Providers /\ Consumers' = Consumers
BY DEF Providers, Consumers

(* The shapes, opened. *)
LEMMA Shapes ==
  ASSUME HarnessShape
  PROVE  /\ actor.minted \in [Providers -> Nat] /\ actor.reserved \in [Providers -> Nat]
         /\ actor.budget \in [Consumers -> Nat]
         /\ ledger.bond \in [Providers -> Nat] /\ ledger.capacity \in [Providers -> Nat]
         /\ ledger.minted \in [Providers -> Nat] /\ ledger.reserved \in [Providers -> Nat]
         /\ ledger.credit \in [Providers -> Nat] /\ ledger.budget \in [Consumers -> Nat]
         /\ ledger.treasury \in Nat
         /\ job.id \in {0} \cup JobIds /\ job.qty \in Nat /\ job.price \in Nat /\ job.escrow \in Nat
         /\ tally.jobs \in Nat /\ order \in Nat
         /\ tally.usdcEscrowed \in Nat /\ tally.usdcSettledPayout \in Nat /\ tally.usdcFees \in Nat
         /\ tally.usdcRefunded \in Nat /\ tally.usdcSlashed \in Nat
<1>1. order \in Nat
  BY Numbers DEF HarnessShape
<1> QED
  BY <1>1 DEF HarnessShape, Mirrors, Ledgers, JobRecords, Tallies

(* An exit leaves the books alone: whatever was under way stays under way. *)
LEMMA CrashStep ==
  ASSUME HarnessInv, Crash, chain' = chain, chain = "dry-run" => order = 0
  PROVE  HarnessInv'
<1>1. /\ UNCHANGED <<chain, ledger, actor, order, job, ended, tally>> /\ pc' = "crashed"
      /\ Providers' = Providers /\ Consumers' = Consumers
  BY SameActors DEF Crash
<1>2. HarnessShape'
  BY <1>1 DEF HarnessInv, HarnessShape, Mirrors, Ledgers, JobRecords, Stages
<1>3. Course' /\ Reserving' /\ Mirroring' /\ BooksBalance'
  BY <1>1 DEF HarnessInv, Course, Reserving, Mirroring, BooksBalance, Working
<1> QED
  BY <1>2, <1>3 DEF HarnessInv

(* The setup gives every provider the same bond and every consumer its budget. *)
LEMMA SetupStep ==
  ASSUME HarnessInv, Setup
  PROVE  HarnessInv'
<1>1. /\ pc = "setup" /\ chain' = chain /\ Providers' = Providers /\ Consumers' = Consumers
      /\ order = 0 /\ job = NoJob /\ tally = ZeroTally /\ ledger.treasury = 0
      /\ actor.budget = [c \in Consumers |-> Budget]
      /\ HarnessShape /\ Course /\ Reserving
  BY SameActors DEF Setup, HarnessInv, Course
<1>2. CASE Crash
  BY <1>1, <1>2, CrashStep
<1>3. CASE ~Crash
  <2>1. /\ pc' = "order" /\ UNCHANGED <<actor, order, job, ended, tally>>
        /\ ledger' = [ledger EXCEPT !.bond = [p \in Providers |-> Bond],
                                    !.capacity = [p \in Providers |-> Capacity],
                                    !.minted = actor.minted, !.credit = actor.minted,
                                    !.budget = actor.budget]
    BY <1>3 DEF Setup
  <2>2. /\ ledger'.bond = [p \in Providers |-> Bond] /\ ledger'.minted = actor.minted
        /\ ledger'.credit = actor.minted /\ ledger'.budget = actor.budget
        /\ ledger'.reserved = ledger.reserved /\ ledger'.treasury = ledger.treasury
        /\ ledger' \in Ledgers
    <3>1. [p \in Providers |-> Bond] \in [Providers -> Nat] /\ [p \in Providers |-> Capacity] \in [Providers -> Nat]
      BY Numbers
    <3> QED
      BY <1>1, <2>1, <3>1, Shapes DEF HarnessShape, Ledgers
  <2>3. HarnessShape'
    BY <1>1, <2>1, <2>2 DEF HarnessShape, Mirrors, Ledgers, JobRecords, Stages
  <2>4. Course'
    BY <1>1, <2>1 DEF Course, Working
  <2>5. \A p \in Providers : actor.reserved[p] = 0 /\ ledger.reserved[p] = 0
    BY <1>1, Actors DEF Reserving, NoJob
  <2>6. Reserving'
    <3>1. ASSUME NEW p \in Providers
          PROVE  /\ actor.reserved[p] = 0 /\ ledger.reserved[p] = 0 /\ p # 0
                 /\ actor.minted[p] \in Nat
                 /\ 0 + (IF chain = "dry-run" THEN 0 ELSE actor.minted[p]) <= actor.minted[p]
      BY <1>1, <2>5, Shapes, Actors
    <3>2. job.provider = 0
      BY <1>1 DEF NoJob
    <3> QED
      BY <1>1, <2>1, <2>2, <3>1, <3>2 DEF Reserving
  <2>7. Mirroring'
    <3>1. ASSUME NEW c \in Consumers
          PROVE  actor.budget[c] + 0 <= ledger'.budget[c]
      BY <1>1, <2>2, Shapes
    <3> QED
      BY <1>1, <2>1, <2>2, <3>1 DEF Mirroring
  <2>8. BooksBalance'
    <3>1. /\ tally' = tally /\ job' = job /\ job.id = 0
          /\ tally.usdcEscrowed = 0 /\ tally.usdcSettledPayout = 0 /\ tally.usdcFees = 0
          /\ tally.usdcRefunded = 0
      BY <1>1, <2>1 DEF NoJob, ZeroTally
    <3>2. chain = "dry-run" => /\ SumFunction(ledger'.bond) = NProviders * Bond
                               /\ SumFunction(ledger'.budget) = NConsumers * Budget
      <4>1. ASSUME chain = "dry-run"
            PROVE  Providers = 1 .. NProviders /\ Consumers = 1 .. NConsumers
        BY <4>1 DEF Providers, Consumers
      <4>2. /\ SumFunction([p \in 1 .. NProviders |-> Bond]) = NProviders * Bond
            /\ SumFunction([p \in 1 .. NConsumers |-> Budget]) = NConsumers * Budget
        <5>1. NProviders \in Nat /\ NConsumers \in Nat /\ Bond \in Int /\ Budget \in Int
          BY Numbers
        <5> QED
          BY <5>1, SumConstant
      <4> QED
        BY <1>1, <2>2, <4>1, <4>2
    <3>3. NProviders * Bond + NConsumers * Budget + 0 + 0 + 0 = NProviders * Bond + NConsumers * Budget
      <4>1. NProviders * Bond \in Nat /\ NConsumers * Budget \in Nat
        BY Numbers
      <4> QED
        BY <4>1
    <3> QED
      BY <1>1, <2>1, <2>2, <3>1, <3>2, <3>3 DEF BooksBalance
  <2> QED
    BY <2>3, <2>4, <2>6, <2>7, <2>8 DEF HarnessInv
<1> QED
  BY <1>2, <1>3


(* What each call's events add to the tally. *)
LEMMA Counted ==
  ASSUME HarnessShape, NEW i, NEW d \in Data
  PROVE  /\ \A type \in {"Match", "NoMatch"} :
              Emit(Event("Order", i, NoData), Event(type, i, NoData)) => Adds(tally', tally, 0, 0, 0, 0, 0, 0)
         /\ Emit(Event("JobCreated", i, d), Event("Dispatched", i, NoData))
              => Adds(tally', tally, 1, d.escrow, 0, 0, 0, 0)
         /\ Emit(Event("AttestationSubmitted", i, d), NoEvent) => Adds(tally', tally, 0, 0, 0, 0, 0, 0)
         /\ Emit(Event("Settled", i, d), NoEvent) => Adds(tally', tally, 0, 0, d.payout, d.fee, 0, 0)
         /\ Emit(Event("Refunded", i, d), NoEvent) => Adds(tally', tally, 0, 0, 0, 0, d.amount, 0)
         /\ \A x \in Data :
              Emit(Event("Refunded", i, d), Event("Slashed", i, x))
                => Adds(tally', tally, 0, 0, 0, 0, d.amount, x.penalty)
<1>1. tally \in Tallies /\ NoData \in Data
  BY DataTyped DEF HarnessShape
<1>2. ASSUME NEW e, NEW f, Emit(e, f)
      PROVE  tally' = Record(Record(tally, e), f)
  BY <1>2 DEF Emit
<1>3. ASSUME NEW s \in Tallies, NEW t \in Tallies, NEW u \in Tallies,
             NEW j \in Nat, NEW a \in Nat, NEW p \in Nat, NEW f \in Nat, NEW r \in Nat, NEW x \in Nat,
             NEW y \in Nat, Adds(s, t, j, a, p, f, r, x), Adds(u, s, 0, 0, 0, 0, 0, y)
      PROVE  Adds(u, t, j, a, p, f, r, x + y)
  <2>1. /\ t.jobs \in Nat /\ t.usdcEscrowed \in Nat /\ t.usdcSettledPayout \in Nat /\ t.usdcFees \in Nat
        /\ t.usdcRefunded \in Nat /\ t.usdcSlashed \in Nat
    BY DEF Tallies
  <2> QED
    BY <1>3, <2>1 DEF Adds
<1>4. \A type \in {"Order", "JobCreated", "AttestationSubmitted", "Settled", "Refunded"} :
        Record(tally, Event(type, i, d)) \in Tallies
  BY <1>1, Recorded DEF Adds
<1>5. ASSUME NEW type \in {"Match", "NoMatch"},
             Emit(Event("Order", i, NoData), Event(type, i, NoData))
      PROVE  Adds(tally', tally, 0, 0, 0, 0, 0, 0)
  <2> DEFINE s == Record(tally, Event("Order", i, NoData))
  <2>1. Adds(s, tally, 0, 0, 0, 0, 0, 0) /\ s \in Tallies
    BY <1>1, Recorded DEF Adds
  <2>2. Adds(tally', s, 0, 0, 0, 0, 0, 0) /\ tally' \in Tallies
    <3>1. tally' = Record(s, Event(type, i, NoData))
      BY <1>2, <1>5
    <3> HIDE DEF s
    <3>2. Adds(Record(s, Event(type, i, NoData)), s, 0, 0, 0, 0, 0, 0)
      BY <1>1, <2>1, Recorded
    <3>3. Record(s, Event(type, i, NoData)) \in Tallies
      BY <3>2 DEF Adds
    <3> QED
      BY <3>1, <3>2, <3>3
  <2> HIDE DEF s
  <2>3. Adds(tally', tally, 0, 0, 0, 0, 0, 0 + 0)
    BY <1>1, <1>3, <2>1, <2>2
  <2> QED
    BY <2>3
<1>6. ASSUME Emit(Event("JobCreated", i, d), Event("Dispatched", i, NoData))
      PROVE  Adds(tally', tally, 1, d.escrow, 0, 0, 0, 0)
  <2> DEFINE s == Record(tally, Event("JobCreated", i, d))
  <2>1. Adds(s, tally, 1, d.escrow, 0, 0, 0, 0) /\ s \in Tallies
    BY <1>1, Recorded DEF Adds
  <2>2. Adds(tally', s, 0, 0, 0, 0, 0, 0) /\ tally' \in Tallies
    <3>1. tally' = Record(s, Event("Dispatched", i, NoData))
      BY <1>2, <1>6
    <3> HIDE DEF s
    <3>2. Adds(Record(s, Event("Dispatched", i, NoData)), s, 0, 0, 0, 0, 0, 0)
      BY <1>1, <2>1, Recorded
    <3>3. Record(s, Event("Dispatched", i, NoData)) \in Tallies
      BY <3>2 DEF Adds
    <3> QED
      BY <3>1, <3>2, <3>3
  <2> HIDE DEF s
  <2>3. d.escrow \in Nat
    BY DEF Data
  <2>4. Adds(tally', tally, 1, d.escrow, 0, 0, 0, 0 + 0)
    BY <1>1, <1>3, <2>1, <2>2, <2>3
  <2> QED
    BY <2>4
<1>7. ASSUME NEW type \in {"AttestationSubmitted", "Settled", "Refunded"}, Emit(Event(type, i, d), NoEvent)
      PROVE  tally' = Record(tally, Event(type, i, d))
  <2>1. \A s : Record(s, NoEvent) = s
    BY DEF NoEvent, Event, Record
  <2>2. tally' = Record(Record(tally, Event(type, i, d)), NoEvent)
    BY <1>2, <1>7
  <2> QED
    BY <2>1, <2>2
<1>8. ASSUME NEW x \in Data, Emit(Event("Refunded", i, d), Event("Slashed", i, x))
      PROVE  Adds(tally', tally, 0, 0, 0, 0, d.amount, x.penalty)
  <2> DEFINE s == Record(tally, Event("Refunded", i, d))
  <2>1. Adds(s, tally, 0, 0, 0, 0, d.amount, 0) /\ s \in Tallies
    BY <1>1, Recorded DEF Adds
  <2>2. Adds(tally', s, 0, 0, 0, 0, 0, x.penalty) /\ tally' \in Tallies
    <3>1. tally' = Record(s, Event("Slashed", i, x))
      BY <1>2, <1>8
    <3> HIDE DEF s
    <3>2. Adds(Record(s, Event("Slashed", i, x)), s, 0, 0, 0, 0, 0, x.penalty)
      BY <1>1, <2>1, Recorded
    <3>3. Record(s, Event("Slashed", i, x)) \in Tallies
      BY <3>2 DEF Adds
    <3> QED
      BY <3>1, <3>2, <3>3
  <2> HIDE DEF s
  <2>3. d.amount \in Nat /\ x.penalty \in Nat
    BY DEF Data
  <2>4. Adds(tally', tally, 0, 0, 0, 0, d.amount, 0 + x.penalty)
    BY <1>1, <1>3, <2>1, <2>2, <2>3
  <2>5. 0 + x.penalty = x.penalty
    BY <2>3
  <2> QED
    BY <2>4, <2>5
<1> QED
  BY <1>1, <1>5, <1>6, <1>7, <1>8, Recorded

(* The tally's numbers, where nothing anybody relies on is added. *)
LEMMA NothingAdded ==
  ASSUME tally \in Tallies, Adds(tally', tally, 0, 0, 0, 0, 0, 0)
  PROVE  /\ tally' \in Tallies /\ tally'.jobs = tally.jobs /\ tally'.usdcEscrowed = tally.usdcEscrowed
         /\ tally'.usdcSettledPayout = tally.usdcSettledPayout /\ tally'.usdcFees = tally.usdcFees
         /\ tally'.usdcRefunded = tally.usdcRefunded /\ tally'.usdcSlashed = tally.usdcSlashed
<1>1. /\ tally.jobs \in Nat /\ tally.usdcEscrowed \in Nat /\ tally.usdcSettledPayout \in Nat
      /\ tally.usdcFees \in Nat /\ tally.usdcRefunded \in Nat /\ tally.usdcSlashed \in Nat
  BY DEF Tallies
<1> QED
  BY <1>1 DEF Adds

(* An order that finds no match, or that is not afforded, only counts. *)
LEMMA UnmatchedStep ==
  ASSUME HarnessInv, pc = "order", order < Orders, order' = order + 1, Unmatched,
         UNCHANGED <<chain, ledger, ended>>
  PROVE  HarnessInv'
<1>1. /\ UNCHANGED <<chain, ledger, ended, actor, job>> /\ pc' \in {"order", "done"}
      /\ Providers' = Providers /\ Consumers' = Consumers
  BY SameActors DEF Unmatched, NextOrder
<1>2. HarnessShape /\ Course /\ Reserving /\ Mirroring /\ BooksBalance
  BY DEF HarnessInv
<1>3. Adds(tally', tally, 0, 0, 0, 0, 0, 0)
  BY <1>2, Counted, DataTyped DEF Unmatched
<1>4. /\ tally' \in Tallies /\ tally'.jobs = tally.jobs /\ tally'.usdcEscrowed = tally.usdcEscrowed
      /\ tally'.usdcSettledPayout = tally.usdcSettledPayout /\ tally'.usdcFees = tally.usdcFees
      /\ tally'.usdcRefunded = tally.usdcRefunded
  BY <1>2, <1>3, NothingAdded DEF HarnessShape
<1>5. HarnessShape'
  <2>1. order' \in 0 .. Orders
    BY <1>2, Numbers DEF HarnessShape
  <2> QED
    BY <1>1, <1>2, <1>4, <2>1 DEF HarnessShape, Mirrors, Ledgers, JobRecords, Stages
<1>6. Course'
  <2>1. tally'.jobs <= order'
    BY <1>2, <1>4, Shapes DEF Course
  <2>2. job = NoJob /\ job' = NoJob
    BY <1>1, <1>2 DEF Course
  <2>3. pc' \notin {"create", "attest", "resolve", "setup"}
    BY <1>1
  <2> QED
    BY <1>1, <1>2, <1>4, <2>1, <2>2, <2>3 DEF Course, Working
<1>7. Reserving'
  BY <1>1, <1>2 DEF Reserving
<1>8. Mirroring'
  BY <1>1, <1>2 DEF Mirroring
<1>9. BooksBalance'
  BY <1>1, <1>2, <1>4 DEF BooksBalance
<1> QED
  BY <1>5, <1>6, <1>7, <1>8, <1>9 DEF HarnessInv

(* A match takes from the mirror what it will need. *)
LEMMA MatchStep ==
  ASSUME HarnessInv, pc = "order", order < Orders, order' = order + 1,
         UNCHANGED <<chain, ledger, ended>>,
         NEW c \in Consumers, NEW qty \in Qtys, NEW price \in Prices, actor.budget[c] >= qty * price,
         NEW ask \in [Providers -> Prices], NEW m, m = MatchOf(c, qty, ask, Crossing(ask, price)),
         Crossing(ask, price) # {}, pc' = "create", job' = m,
         actor' = [actor EXCEPT !.reserved[m.provider] = @ + m.qty, !.budget[c] = @ - m.escrow],
         Emit(Event("Order", 0, NoData), Event("Match", 0, NoData))
  PROVE  HarnessInv'
<1>1. HarnessShape /\ Course /\ Reserving /\ Mirroring /\ BooksBalance
  BY DEF HarnessInv
<1>2. Providers' = Providers /\ Consumers' = Consumers /\ job = NoJob
  BY <1>1, SameActors DEF Course
<1>3. Adds(tally', tally, 0, 0, 0, 0, 0, 0)
  BY <1>1, Counted, DataTyped
<1>4. /\ tally' \in Tallies /\ tally'.jobs = tally.jobs /\ tally'.usdcEscrowed = tally.usdcEscrowed
      /\ tally'.usdcSettledPayout = tally.usdcSettledPayout /\ tally'.usdcFees = tally.usdcFees
      /\ tally'.usdcRefunded = tally.usdcRefunded
  BY <1>1, <1>3, NothingAdded DEF HarnessShape
<1>5. /\ m \in JobRecords /\ m.id = 0 /\ m.provider \in Providers /\ m.consumer = c
      /\ m.escrow = m.qty * m.price /\ m.escrow <= qty * price
      /\ m.qty <= actor.minted[m.provider] - actor.reserved[m.provider]
  BY <1>1, MatchFits
<1>6. m.qty \in Nat /\ m.escrow \in Nat /\ m.escrow <= actor.budget[c]
  <2>1. m.qty \in Nat /\ m.escrow \in Nat
    BY <1>5 DEF JobRecords
  <2>2. actor.budget[c] \in Nat
    BY <1>1, Shapes
  <2>3. qty * price \in Nat
    <3>1. qty \in Nat /\ price \in Nat
      BY HarnessAssumption
    <3> QED
      BY <3>1
  <2> QED
    BY <1>5, <2>1, <2>2, <2>3
<1> DEFINE r == actor.reserved[m.provider] + m.qty
           b == actor.budget[c] - m.escrow
           reserved == [actor.reserved EXCEPT ![m.provider] = r]
           budget == [actor.budget EXCEPT ![c] = b]
<1>7. r \in Nat /\ b \in Nat
  BY <1>1, <1>5, <1>6, Shapes
<1>8. /\ reserved \in [Providers -> Nat] /\ reserved[m.provider] = r
      /\ \A p \in Providers : p # m.provider => reserved[p] = actor.reserved[p]
      /\ budget \in [Consumers -> Nat] /\ budget[c] = b
      /\ \A x \in Consumers : x # c => budget[x] = actor.budget[x]
  <2> HIDE DEF r, b
  <2> QED
    BY <1>1, <1>5, <1>7, Shapes
<1>9. actor' = [actor EXCEPT !.reserved = reserved, !.budget = budget]
  BY <1>1 DEF HarnessShape, Mirrors
<1> HIDE DEF reserved, budget
<1>10. /\ actor' \in Mirrors /\ actor'.minted = actor.minted /\ actor'.reserved = reserved
       /\ actor'.budget = budget
  BY <1>1, <1>8, <1>9 DEF HarnessShape, Mirrors
<1>11. HarnessShape'
  <2>1. order' \in 0 .. Orders
    BY <1>1, Numbers DEF HarnessShape
  <2> QED
    BY <1>1, <1>2, <1>4, <1>5, <1>10, <2>1 DEF HarnessShape, Mirrors, Ledgers, JobRecords, Stages
<1>12. Course'
  <2>1. tally'.jobs <= order' /\ tally'.jobs < order'
    BY <1>1, <1>4, Shapes DEF Course
  <2>2. pc' = "create" /\ ended' = ended /\ \A i \in JobIds : ended[i] = "none" <=> i > tally.jobs
    BY <1>1 DEF Course
  <2> QED
    BY <1>2, <1>4, <1>5, <2>1, <2>2 DEF Course, Working
<1>13. Reserving'
  <2>1. ASSUME NEW p \in Providers
        PROVE  /\ reserved[p] = IF p = m.provider THEN m.qty ELSE 0
               /\ reserved[p] <= actor.minted[p]
               /\ ledger.reserved[p] = 0
               /\ ledger.reserved[p] + (IF chain = "dry-run" THEN 0 ELSE ledger.credit[p]) <= ledger.minted[p]
    <3>1. /\ p # 0 /\ NoJob.provider = 0
      BY Actors DEF NoJob
    <3>2. /\ actor.reserved[p] = 0 /\ ledger.reserved[p] = 0 /\ actor.reserved[p] <= actor.minted[p]
          /\ ledger.reserved[p] + (IF chain = "dry-run" THEN 0 ELSE ledger.credit[p]) <= ledger.minted[p]
      BY <1>1, <1>2, <3>1 DEF Reserving
    <3>3. actor.minted[p] \in Nat
      BY <1>1, Shapes
    <3> QED
      BY <1>5, <1>6, <1>8, <3>2, <3>3 DEF r
  <2> QED
    BY <1>2, <1>5, <1>10, <2>1 DEF Reserving
<1>14. Mirroring'
  <2> SUFFICES ASSUME chain = "dry-run"
               PROVE  /\ actor.minted = ledger.minted
                      /\ \A x \in Consumers :
                           budget[x] + (IF x = c THEN m.escrow ELSE 0) <= ledger.budget[x]
    BY <1>2, <1>5, <1>10 DEF Mirroring
  <2>1. actor.minted = ledger.minted /\ \A x \in Consumers : actor.budget[x] + 0 <= ledger.budget[x]
    BY <1>1 DEF Mirroring
  <2>2. ASSUME NEW x \in Consumers
        PROVE  budget[x] + (IF x = c THEN m.escrow ELSE 0) <= ledger.budget[x]
    <3>1. actor.budget[x] \in Nat /\ ledger.budget[x] \in Nat /\ actor.budget[x] + 0 <= ledger.budget[x]
      BY <1>1, <2>1, Shapes
    <3>2. CASE x = c
      BY <1>6, <1>8, <3>1, <3>2 DEF b
    <3>3. CASE x # c
      BY <1>8, <3>1, <3>3
    <3> QED
      BY <3>2, <3>3
  <2> QED
    BY <2>1, <2>2
<1>15. BooksBalance'
  <2>1. job.id = 0 /\ job'.id = 0 /\ pc \notin {"setup", "crashed"} /\ pc' \notin {"setup", "crashed"}
    BY <1>2, <1>5 DEF NoJob
  <2> QED
    BY <1>1, <1>4, <2>1 DEF BooksBalance
<1> QED
  BY <1>11, <1>12, <1>13, <1>14, <1>15 DEF HarnessInv

(* An order, whatever comes of it. *)
LEMMA StreamOrderStep ==
  ASSUME HarnessInv, StreamOrder
  PROVE  HarnessInv'
<1>1. pc = "order" /\ order < Orders /\ order' = order + 1 /\ UNCHANGED <<chain, ledger, ended>>
  BY DEF StreamOrder
<1> DEFINE Matched(c, ask, m) ==
             /\ pc' = "create" /\ job' = m
             /\ actor' = [actor EXCEPT !.reserved[m.provider] = @ + m.qty, !.budget[c] = @ - m.escrow]
             /\ Emit(Event("Order", 0, NoData), Event("Match", 0, NoData))
<1>2. PICK c \in Consumers, qty \in Qtys, price \in Prices :
        \/ actor.budget[c] < qty * price /\ Unmatched
        \/ /\ actor.budget[c] >= qty * price
           /\ \E ask \in [Providers -> Prices] :
                LET S == Crossing(ask, price)
                    m == MatchOf(c, qty, ask, S)
                IN \/ S = {} /\ Unmatched
                   \/ S # {} /\ Matched(c, ask, m)
  BY DEF StreamOrder
<1>3. CASE Unmatched
  BY <1>1, <1>3, UnmatchedStep
<1>4. CASE ~Unmatched
  <2>1. /\ actor.budget[c] >= qty * price
        /\ \E ask \in [Providers -> Prices] :
                LET S == Crossing(ask, price)
                    m == MatchOf(c, qty, ask, S)
                IN \/ S = {} /\ Unmatched
                   \/ S # {} /\ Matched(c, ask, m)
    <3> HIDE DEF Matched
    <3> QED
      BY <1>2, <1>4
  <2>2. PICK ask \in [Providers -> Prices] :
          LET m == MatchOf(c, qty, ask, Crossing(ask, price))
          IN Crossing(ask, price) # {} /\ Matched(c, ask, m)
    <3> HIDE DEF Matched
    <3> QED
      BY <2>1, <1>4
  <2> DEFINE m == MatchOf(c, qty, ask, Crossing(ask, price))
  <2>3. /\ Crossing(ask, price) # {} /\ pc' = "create" /\ job' = m
        /\ actor' = [actor EXCEPT !.reserved[m.provider] = @ + m.qty, !.budget[c] = @ - m.escrow]
        /\ Emit(Event("Order", 0, NoData), Event("Match", 0, NoData))
    BY <2>2
  <2>4. m = MatchOf(c, qty, ask, Crossing(ask, price))
    OBVIOUS
  <2>5. actor.budget[c] >= qty * price
    BY <2>1
  <2> HIDE DEF m
  <2> QED
    BY <1>1, <2>3, <2>4, <2>5, MatchStep
<1> QED
  BY <1>3, <1>4

(* A job that is not admitted: in a dry run there is none. *)
LEMMA AdmittedDry ==
  ASSUME HarnessInv, pc = "create", chain = "dry-run"
  PROVE  CanCreate(job)
<1> DEFINE p == job.provider
           c == job.consumer
<1>1. HarnessShape /\ Course /\ Reserving /\ Mirroring
  BY DEF HarnessInv
<1>2. p \in Providers /\ c \in Consumers /\ job.id = 0
  BY <1>1 DEF Course
<1>3. ledger.budget[c] >= job.escrow
  <2>1. actor.budget[c] + job.escrow <= ledger.budget[c]
    BY <1>1, <1>2 DEF Mirroring
  <2> QED
    BY <1>1, <1>2, <2>1, Shapes
<1>4. ledger.reserved[p] + job.qty <= ledger.minted[p]
  <2>1. ledger.reserved[p] = 0 /\ actor.reserved[p] = job.qty /\ actor.reserved[p] <= actor.minted[p]
    BY <1>1, <1>2 DEF Reserving
  <2>2. actor.minted[p] = ledger.minted[p]
    BY <1>1 DEF Mirroring
  <2> QED
    BY <1>1, <1>2, <2>1, <2>2, Shapes
<1> QED
  BY <1>3, <1>4 DEF CanCreate

(* A job that is created takes its escrow and its credits. *)
LEMMA CreateStep ==
  ASSUME HarnessInv, pc = "create", UNCHANGED <<chain, actor, order>>, CanCreate(job),
         NEW fault \in Faults, NEW j, j = [job EXCEPT !.id = tally.jobs + 1, !.fault = fault],
         job' = j, pc' \in {"attest", "resolve"},
         ledger' = [ledger EXCEPT !.budget[j.consumer] = @ - j.escrow,
                                  !.reserved[j.provider] = @ + j.qty,
                                  !.credit[j.provider] = ByBackend(@, @ - j.qty)],
         ended' = [ended EXCEPT ![j.id] = "Dispatched"],
         Emit(JobCreated(j), Event("Dispatched", j.id, NoData))
  PROVE  HarnessInv'
<1> DEFINE p == job.provider
           c == job.consumer
           i == tally.jobs + 1
<1>1. HarnessShape /\ Course /\ Reserving /\ Mirroring /\ BooksBalance
  BY DEF HarnessInv
<1>2. /\ Providers' = Providers /\ Consumers' = Consumers
      /\ p \in Providers /\ c \in Consumers /\ job.id = 0 /\ job.escrow = job.qty * job.price
      /\ tally.jobs < order
  BY <1>1, SameActors DEF Course
<1>3. /\ i \in JobIds /\ tally.jobs \in Nat /\ i <= order /\ i # 0
  <2>1. tally.jobs \in Nat /\ order \in Nat /\ order <= Orders /\ Orders \in Nat
    BY <1>1, Numbers, Shapes DEF HarnessShape
  <2> QED
    BY <1>2, <2>1 DEF JobIds
<1> HIDE DEF i
<1>4. /\ j.id = i /\ j.provider = p /\ j.consumer = c /\ j.qty = job.qty /\ j.price = job.price
      /\ j.escrow = job.escrow /\ j \in JobRecords
  <2>1. job \in JobRecords /\ fault \in {"None", "SkipAttest", "LateAttest", "WrongOutput"}
        /\ j = [job EXCEPT !.id = i, !.fault = fault]
    BY <1>1, HarnessAssumption DEF HarnessShape, i
  <2> QED
    BY <1>3, <2>1 DEF JobRecords
<1> HIDE DEF p, c
<1>5. /\ ledger.budget[c] \in Nat /\ ledger.reserved[p] \in Nat /\ ledger.credit[p] \in Nat
      /\ ledger.minted[p] \in Nat /\ job.qty \in Nat /\ job.escrow \in Nat
  BY <1>1, <1>2, Shapes
<1>6. ledger.reserved[p] = 0 /\ actor.reserved[p] = job.qty
  BY <1>1, <1>2 DEF Reserving, p
<1>7. /\ ledger.budget[c] >= job.escrow
      /\ chain = "dry-run" => ledger.reserved[p] + job.qty <= ledger.minted[p]
      /\ chain # "dry-run" => ledger.credit[p] >= job.qty
  BY DEF CanCreate, p, c
<1> DEFINE b == ledger.budget[c] - job.escrow
           r == ledger.reserved[p] + job.qty
           k == ByBackend(ledger.credit[p], ledger.credit[p] - job.qty)
           budget == [ledger.budget EXCEPT ![c] = b]
           reserved == [ledger.reserved EXCEPT ![p] = r]
           credit == [ledger.credit EXCEPT ![p] = k]
<1>8. b \in Nat /\ r \in Nat /\ k \in Nat
  BY <1>5, <1>7 DEF ByBackend
<1>9. ledger' = [ledger EXCEPT !.budget = budget, !.reserved = reserved, !.credit = credit]
  <2>1. ledger' = [ledger EXCEPT !.budget[c] = @ - job.escrow, !.reserved[p] = @ + job.qty,
                                 !.credit[p] = ByBackend(@, @ - job.qty)]
    BY <1>4
  <2> QED
    BY <1>1, <2>1 DEF HarnessShape, Ledgers
<1>10. /\ budget \in [Consumers -> Nat] /\ budget[c] = b
       /\ \A x \in Consumers : x # c => budget[x] = ledger.budget[x]
       /\ reserved \in [Providers -> Nat] /\ reserved[p] = r
       /\ credit \in [Providers -> Nat] /\ credit[p] = k
       /\ \A x \in Providers : x # p => reserved[x] = ledger.reserved[x] /\ credit[x] = ledger.credit[x]
  <2> HIDE DEF b, r, k
  <2> QED
    BY <1>1, <1>2, <1>8, Shapes
<1> HIDE DEF budget, reserved, credit
<1>11. /\ ledger' \in Ledgers /\ ledger'.bond = ledger.bond /\ ledger'.minted = ledger.minted
       /\ ledger'.treasury = ledger.treasury /\ ledger'.budget = budget /\ ledger'.reserved = reserved
       /\ ledger'.credit = credit
  BY <1>1, <1>9, <1>10 DEF HarnessShape, Ledgers
<1>12. Adds(tally', tally, 1, job.escrow, 0, 0, 0, 0)
  <2> DEFINE d == JobCreated(j).data
  <2>1. d \in Data /\ d.escrow = job.escrow /\ JobCreated(j) = Event("JobCreated", j.id, d)
    <3>1. JobCreated(j) = Event("JobCreated", j.id, d)
      BY DEF JobCreated, Event
    <3>2. d \in Data /\ d.escrow = j.escrow
      <4>1. JobCreated(j) \in [type : {"JobCreated"}, id : {j.id}, data : Data]
        BY <1>4, DataTyped
      <4> QED
        BY <1>4, <4>1, DataTyped
    <3> QED
      BY <1>4, <3>1, <3>2
  <2> HIDE DEF d
  <2>2. Emit(Event("JobCreated", j.id, d), Event("Dispatched", j.id, NoData))
    BY <2>1
  <2>3. Adds(tally', tally, 1, d.escrow, 0, 0, 0, 0)
    BY <1>1, <2>1, <2>2, Counted
  <2> QED
    BY <2>1, <2>3
<1>13. /\ tally' \in Tallies /\ tally'.jobs = i /\ tally'.usdcEscrowed = tally.usdcEscrowed + job.escrow
       /\ tally'.usdcSettledPayout = tally.usdcSettledPayout /\ tally'.usdcFees = tally.usdcFees
       /\ tally'.usdcRefunded = tally.usdcRefunded
  BY <1>1, <1>12, Shapes DEF Adds, i
<1>14. HarnessShape'
  <2>1. ended' \in [JobIds -> Fates]
    BY <1>1, <1>3, <1>4 DEF HarnessShape, Fates
  <2> QED
    BY <1>1, <1>2, <1>4, <1>11, <1>13, <2>1 DEF HarnessShape, Mirrors, Ledgers, JobRecords, Stages
<1>15. Course'
  <2>1. /\ pc' \notin {"setup", "order", "done", "create"} /\ order' = order
    OBVIOUS
  <2>2. ended[i] = "none" /\ ended'[i] = "Dispatched" /\ \A x \in JobIds : x # i => ended'[x] = ended[x]
    BY <1>1, <1>3, <1>4 DEF HarnessShape, Course, i
  <2>3. ASSUME NEW x \in JobIds PROVE ended'[x] = "none" <=> x > i
    <3>1. x \in Nat /\ (ended[x] = "none" <=> x > tally.jobs)
      BY <1>1, Actors DEF Course
    <3>2. CASE x = i
      BY <1>3, <2>2, <3>2 DEF i
    <3>3. CASE x # i
      BY <1>3, <2>2, <3>1, <3>3 DEF i
    <3> QED
      BY <3>2, <3>3
  <2> QED
    BY <1>2, <1>3, <1>4, <1>13, <2>1, <2>2, <2>3 DEF Course, Working, p, c
<1>16. Reserving'
  <2>1. ASSUME NEW x \in Providers
        PROVE  /\ actor.reserved[x] = IF x = p THEN job.qty ELSE 0
               /\ actor.reserved[x] <= actor.minted[x]
               /\ reserved[x] = IF x = p THEN job.qty ELSE 0
               /\ reserved[x] + (IF chain = "dry-run" THEN 0 ELSE credit[x]) <= ledger.minted[x]
    <3>1. /\ actor.reserved[x] = IF x = p THEN job.qty ELSE 0
          /\ actor.reserved[x] <= actor.minted[x] /\ ledger.reserved[x] = 0
          /\ ledger.reserved[x] + (IF chain = "dry-run" THEN 0 ELSE ledger.credit[x]) <= ledger.minted[x]
      BY <1>1, <1>2 DEF Reserving, p
    <3>2. CASE x = p
      <4>1. reserved[x] = job.qty
        BY <1>5, <1>6, <1>10, <3>2 DEF r
      <4>2. CASE chain = "dry-run"
        BY <1>5, <1>6, <1>7, <3>1, <3>2, <4>1, <4>2
      <4>3. CASE chain # "dry-run"
        <5>1. credit[x] = ledger.credit[p] - job.qty
          BY <1>10, <3>2, <4>3 DEF k, ByBackend
        <5>2. 0 + ledger.credit[p] <= ledger.minted[p]
          BY <3>1, <3>2, <4>3
        <5>3. job.qty + (ledger.credit[p] - job.qty) <= ledger.minted[p]
          BY <1>5, <5>2
        <5> QED
          BY <3>1, <3>2, <4>1, <4>3, <5>1, <5>3
      <4> QED
        BY <4>2, <4>3
    <3>3. CASE x # p
      BY <1>10, <3>1, <3>3
    <3> QED
      BY <3>2, <3>3
  <2>2. actor' = actor /\ chain' = chain /\ job'.id # 0 /\ job'.provider = p /\ job'.qty = job.qty
    BY <1>3, <1>4
  <2>3. ASSUME NEW x \in Providers
        PROVE  /\ actor'.reserved[x] = IF x = job'.provider THEN job'.qty ELSE 0
               /\ actor'.reserved[x] <= actor'.minted[x]
               /\ ledger'.reserved[x] = IF x = job'.provider /\ job'.id # 0 THEN job'.qty ELSE 0
               /\ ledger'.reserved[x] + (IF chain' = "dry-run" THEN 0 ELSE ledger'.credit[x])
                    <= ledger'.minted[x]
    <3>1. ledger'.reserved = reserved /\ ledger'.credit = credit /\ ledger'.minted = ledger.minted
      BY <1>11
    <3>2. /\ actor'.reserved[x] = IF x = job'.provider THEN job'.qty ELSE 0
          /\ ledger'.reserved[x] = IF x = job'.provider /\ job'.id # 0 THEN job'.qty ELSE 0
          /\ actor'.reserved[x] <= actor'.minted[x]
      BY <2>1, <2>2, <3>1, Zenon
    <3>3. ledger'.reserved[x] + (IF chain' = "dry-run" THEN 0 ELSE ledger'.credit[x])
            <= ledger'.minted[x]
      <4>1. CASE chain = "dry-run"
        <5>1. reserved[x] + 0 <= ledger.minted[x]
          BY <2>1, <4>1
        <5> QED
          BY <2>2, <3>1, <4>1, <5>1
      <4>2. CASE chain # "dry-run"
        <5>1. reserved[x] + credit[x] <= ledger.minted[x]
          BY <2>1, <4>2
        <5>2. (IF chain' = "dry-run" THEN 0 ELSE ledger'.credit[x]) = credit[x]
          BY <2>2, <3>1, <4>2
        <5> QED
          BY <3>1, <5>1, <5>2, Zenon
      <4> QED
        BY <4>1, <4>2
    <3> QED
      BY <3>2, <3>3
  <2> QED
    BY <1>2, <2>3 DEF Reserving
<1>17. Mirroring'
  <2> SUFFICES ASSUME chain = "dry-run"
               PROVE  /\ actor.minted = ledger.minted
                      /\ \A x \in Consumers : actor.budget[x] + 0 <= budget[x]
    BY <1>2, <1>11 DEF Mirroring
  <2>1. /\ actor.minted = ledger.minted
        /\ \A x \in Consumers : actor.budget[x] + (IF x = c THEN job.escrow ELSE 0) <= ledger.budget[x]
    BY <1>1 DEF Mirroring, c
  <2>2. ASSUME NEW x \in Consumers
        PROVE  actor.budget[x] + 0 <= budget[x]
    <3>1. /\ actor.budget[x] \in Nat /\ ledger.budget[x] \in Nat
          /\ actor.budget[x] + (IF x = c THEN job.escrow ELSE 0) <= ledger.budget[x]
      BY <1>1, <2>1, Shapes
    <3>2. CASE x = c
      BY <1>5, <1>10, <3>1, <3>2 DEF b
    <3>3. CASE x # c
      BY <1>10, <3>1, <3>3
    <3> QED
      BY <3>2, <3>3
  <2> QED
    BY <2>1, <2>2
<1>18. BooksBalance'
  <2>1. /\ job'.id # 0 /\ job'.escrow = job.escrow /\ job.id = 0
        /\ pc \notin {"setup", "crashed"} /\ pc' \notin {"setup", "crashed"} /\ chain' = chain
    BY <1>2, <1>3, <1>4
  <2>2. SumFunction(budget) = SumFunction(ledger.budget) - job.escrow
    <3>1. /\ budget \in [Consumers -> Int] /\ ledger.budget \in [Consumers -> Int]
          /\ SumFunction(ledger.budget) \in Nat
      BY <1>1, <1>10, Actors, Shapes, SumType
    <3>2. SumFunction(budget) = SumFunction(ledger.budget) - ledger.budget[c] + budget[c]
      BY <1>2, <1>10, <3>1, Actors, SumChange
    <3> QED
      BY <1>5, <1>10, <3>1, <3>2 DEF b
  <2>3. SumFunction(ledger.budget) \in Nat /\ SumFunction(ledger.bond) \in Nat
    BY <1>1, Actors, Shapes, SumType
  <2>4. /\ tally.usdcEscrowed = 0 + tally.usdcSettledPayout + tally.usdcFees + tally.usdcRefunded
        /\ chain = "dry-run" =>
             SumFunction(ledger.bond) + SumFunction(ledger.budget) + ledger.treasury + 0
               + tally.usdcSettledPayout = NProviders * Bond + NConsumers * Budget
    BY <1>1, <2>1 DEF BooksBalance
  <2>5. /\ tally'.usdcEscrowed = job.escrow + tally'.usdcSettledPayout + tally'.usdcFees + tally'.usdcRefunded
        /\ chain = "dry-run" =>
             SumFunction(ledger.bond) + SumFunction(budget) + ledger.treasury + job.escrow
               + tally'.usdcSettledPayout = NProviders * Bond + NConsumers * Budget
    <3> DEFINE total == NProviders * Bond + NConsumers * Budget
    <3> HIDE DEF total
    <3>1. chain = "dry-run" =>
             SumFunction(ledger.bond) + SumFunction(ledger.budget) + ledger.treasury + 0
               + tally.usdcSettledPayout = total
      BY <2>4 DEF total
    <3>2. /\ tally'.usdcEscrowed = job.escrow + tally'.usdcSettledPayout + tally'.usdcFees + tally'.usdcRefunded
          /\ chain = "dry-run" =>
               SumFunction(ledger.bond) + SumFunction(budget) + ledger.treasury + job.escrow
                 + tally'.usdcSettledPayout = total
      BY <1>1, <1>5, <1>13, <2>2, <2>3, <2>4, <3>1, Shapes
    <3> QED
      BY <3>2 DEF total
  <2> QED
    BY <1>11, <2>1, <2>5 DEF BooksBalance
<1> QED
  BY <1>14, <1>15, <1>16, <1>17, <1>18 DEF HarnessInv

(* The call that creates a job, accepted or not. *)
LEMMA CreateJobStep ==
  ASSUME HarnessInv, CreateJob
  PROVE  HarnessInv'
<1>1. pc = "create" /\ chain' = chain
  BY DEF CreateJob
<1>2. CASE ~CanCreate(job)
  <2>1. Crash /\ chain # "dry-run"
    BY <1>1, <1>2, AdmittedDry DEF CreateJob
  <2> QED
    BY <1>1, <2>1, CrashStep
<1>3. CASE CanCreate(job)
  <2>1. PICK fault \in Faults :
          LET j == [job EXCEPT !.id = tally.jobs + 1, !.fault = fault]
          IN /\ job' = j
             /\ pc' = IF fault = "SkipAttest" THEN "resolve" ELSE "attest"
             /\ ledger' = [ledger EXCEPT !.budget[j.consumer] = @ - j.escrow,
                                         !.reserved[j.provider] = @ + j.qty,
                                         !.credit[j.provider] = ByBackend(@, @ - j.qty)]
             /\ ended' = [ended EXCEPT ![j.id] = "Dispatched"]
             /\ Emit(JobCreated(j), Event("Dispatched", j.id, NoData))
    BY <1>3 DEF CreateJob
  <2> DEFINE j == [job EXCEPT !.id = tally.jobs + 1, !.fault = fault]
  <2>2. /\ job' = j /\ pc' \in {"attest", "resolve"}
        /\ ledger' = [ledger EXCEPT !.budget[j.consumer] = @ - j.escrow,
                                    !.reserved[j.provider] = @ + j.qty,
                                    !.credit[j.provider] = ByBackend(@, @ - j.qty)]
        /\ ended' = [ended EXCEPT ![j.id] = "Dispatched"]
        /\ Emit(JobCreated(j), Event("Dispatched", j.id, NoData))
    BY <2>1
  <2>3. j = [job EXCEPT !.id = tally.jobs + 1, !.fault = fault]
    OBVIOUS
  <2>4. UNCHANGED <<chain, actor, order>>
    BY <1>3 DEF CreateJob
  <2> HIDE DEF j
  <2> QED
    BY <1>1, <1>3, <2>2, <2>3, <2>4, CreateStep
<1> QED
  BY <1>2, <1>3

(* The attestation leaves the job's deal as it was. *)
LEMMA SameDeal ==
  ASSUME HarnessShape, SubmitMockAttestation
  PROVE  /\ job'.id = job.id /\ job'.provider = job.provider /\ job'.consumer = job.consumer
         /\ job'.qty = job.qty /\ job'.price = job.price /\ job'.escrow = job.escrow /\ job' \in JobRecords
<1>1. PICK latency \in {SlaP99Ms, SlaP99Ms + 1} :
        job' = [job EXCEPT !.output = Attestation(job.fault, latency).output,
                           !.latency = Attestation(job.fault, latency).latency]
  BY DEF SubmitMockAttestation
<1> DEFINE out == Attestation(job.fault, latency).output
           late == Attestation(job.fault, latency).latency
<1>2. out \in {"", "honest", "wrong"} /\ late \in Nat
  BY DEF Attestation, SlaP99Ms, Most, Least
<1>3. job' = [job EXCEPT !.output = out, !.latency = late] /\ job \in JobRecords
  BY <1>1 DEF HarnessShape
<1> HIDE DEF out, late
<1> QED
  BY <1>2, <1>3 DEF JobRecords

(* An attestation is put on the job under way. *)
LEMMA AttestStep ==
  ASSUME HarnessInv, SubmitMockAttestation
  PROVE  HarnessInv'
<1>1. HarnessShape /\ Course /\ Reserving /\ Mirroring /\ BooksBalance
  BY DEF HarnessInv
<1>2. /\ pc = "attest" /\ pc' = "resolve" /\ UNCHANGED <<chain, ledger, actor, order>>
      /\ Providers' = Providers /\ Consumers' = Consumers
      /\ ended' = [ended EXCEPT ![job.id] = "Attested"]
  BY SameActors DEF SubmitMockAttestation
<1>3. Adds(tally', tally, 0, 0, 0, 0, 0, 0)
  BY <1>1, Counted, DataTyped DEF SubmitMockAttestation
<1>4. /\ tally' \in Tallies /\ tally'.jobs = tally.jobs /\ tally'.usdcEscrowed = tally.usdcEscrowed
      /\ tally'.usdcSettledPayout = tally.usdcSettledPayout /\ tally'.usdcFees = tally.usdcFees
      /\ tally'.usdcRefunded = tally.usdcRefunded
  BY <1>1, <1>3, NothingAdded DEF HarnessShape
<1>5. /\ job'.id = job.id /\ job'.provider = job.provider /\ job'.consumer = job.consumer
      /\ job'.qty = job.qty /\ job'.price = job.price /\ job'.escrow = job.escrow /\ job' \in JobRecords
  BY <1>1, SameDeal
<1>6. /\ job.id = tally.jobs /\ job.id \in JobIds /\ ended[job.id] # "none"
      /\ job.provider \in Providers /\ job.consumer \in Consumers
  BY <1>1, <1>2 DEF Course, Working
<1>7. HarnessShape'
  <2>1. ended' \in [JobIds -> Fates]
    BY <1>1, <1>2, <1>6 DEF HarnessShape, Fates
  <2> QED
    BY <1>1, <1>2, <1>4, <1>5, <2>1 DEF HarnessShape, Mirrors, Ledgers, JobRecords, Stages
<1>8. Course'
  <2>1. ended'[job.id] = "Attested" /\ \A x \in JobIds : x # job.id => ended'[x] = ended[x]
    BY <1>1, <1>2, <1>6 DEF HarnessShape
  <2>2. \A x \in JobIds : ended[x] = "none" <=> x > tally.jobs
    BY <1>1 DEF Course
  <2>3. \A x \in JobIds : ended'[x] = "none" <=> x > tally.jobs
    BY <1>6, <2>1, <2>2
  <2> QED
    BY <1>1, <1>2, <1>4, <1>5, <1>6, <2>1, <2>3 DEF Course, Working
<1>9. Reserving'
  BY <1>1, <1>2, <1>5 DEF Reserving
<1>10. Mirroring'
  BY <1>1, <1>2, <1>5 DEF Mirroring
<1>11. BooksBalance'
  BY <1>1, <1>2, <1>4, <1>5 DEF BooksBalance
<1> QED
  BY <1>7, <1>8, <1>9, <1>10, <1>11 DEF HarnessInv

(* A job is over: nothing is reserved for it any more, and what it used up is gone from the
   mirror as from the ledger. *)
LEMMA OverStep ==
  ASSUME HarnessInv, pc = "resolve", pc' \in {"order", "done"}, UNCHANGED <<chain, order>>,
         job' = NoJob, ledger' \in Ledgers, actor' \in Mirrors, tally' \in Tallies,
         tally'.jobs = tally.jobs, NEW fate \in {"Settled", "Refunded"},
         ended' = [ended EXCEPT ![job.id] = fate],
         NEW burnt \in {0, job.qty},
         actor'.minted = [actor.minted EXCEPT ![job.provider] = actor.minted[job.provider] - burnt],
         ledger'.minted = [ledger.minted EXCEPT ![job.provider] = ledger.minted[job.provider] - burnt],
         actor'.reserved = [actor.reserved EXCEPT ![job.provider] = 0],
         ledger'.reserved = [ledger.reserved EXCEPT ![job.provider] = 0],
         ledger'.credit = ledger.credit,
         chain = "dry-run" => \A x \in Consumers : actor'.budget[x] <= ledger'.budget[x],
         BooksBalance'
  PROVE  HarnessInv'
<1> DEFINE p == job.provider
<1>1. HarnessShape /\ Course /\ Reserving /\ Mirroring
  BY DEF HarnessInv
<1>2. /\ Providers' = Providers /\ Consumers' = Consumers
      /\ p \in Providers /\ job.id = tally.jobs /\ job.id \in JobIds
      /\ tally.jobs <= order /\ ended[job.id] # "none"
  BY <1>1, SameActors DEF Course, Working
<1>3. HarnessShape'
  <2>1. ended' \in [JobIds -> Fates]
    BY <1>1, <1>2 DEF HarnessShape, Fates
  <2>2. NoJob \in JobRecords
    BY DEF NoJob, JobRecords
  <2> QED
    BY <1>1, <1>2, <2>1, <2>2 DEF HarnessShape, Mirrors, Ledgers, JobRecords, Stages
<1>4. Course'
  <2>1. ended'[job.id] = fate /\ \A x \in JobIds : x # job.id => ended'[x] = ended[x]
    BY <1>1, <1>2 DEF HarnessShape
  <2>2. \A x \in JobIds : ended[x] = "none" <=> x > tally.jobs
    BY <1>1 DEF Course
  <2>3. \A x \in JobIds : ended'[x] = "none" <=> x > tally.jobs
    BY <1>2, <2>1, <2>2
  <2>4. NoJob.escrow = NoJob.qty * NoJob.price
    <3>1. NoJob.escrow = 0 /\ NoJob.qty = 0 /\ NoJob.price = 0
      BY DEF NoJob
    <3> QED
      BY <3>1
  <2> QED
    BY <1>2, <2>3, <2>4 DEF Course, Working
<1>5. Reserving'
  <2>1. ASSUME NEW x \in Providers
        PROVE  /\ actor'.reserved[x] = 0 /\ ledger'.reserved[x] = 0
               /\ 0 <= actor'.minted[x]
               /\ 0 + (IF chain = "dry-run" THEN 0 ELSE ledger.credit[x]) <= ledger'.minted[x]
    <3>1. /\ actor.reserved[x] = IF x = p THEN job.qty ELSE 0
          /\ actor.reserved[x] <= actor.minted[x]
          /\ ledger.reserved[x] = IF x = p /\ job.id # 0 THEN job.qty ELSE 0
          /\ ledger.reserved[x] + (IF chain = "dry-run" THEN 0 ELSE ledger.credit[x]) <= ledger.minted[x]
      BY <1>1 DEF Reserving
    <3>2. /\ job.qty \in Nat /\ job.id # 0 /\ actor.minted[x] \in Nat /\ ledger.minted[x] \in Nat
          /\ ledger.credit[x] \in Nat
          /\ actor.minted \in [Providers -> Nat] /\ ledger.minted \in [Providers -> Nat]
          /\ actor.reserved \in [Providers -> Nat] /\ ledger.reserved \in [Providers -> Nat]
      BY <1>1, <1>2, Actors, Shapes
    <3>3. CASE x = p
      <4>1. actor'.reserved[x] = 0 /\ ledger'.reserved[x] = 0 /\ actor'.minted[x] = actor.minted[x] - burnt
            /\ ledger'.minted[x] = ledger.minted[x] - burnt
        BY <3>2, <3>3
      <4>2. burnt \in Nat /\ burnt <= job.qty
        BY <3>2
      <4>3. job.qty <= actor.minted[x]
            /\ job.qty + (IF chain = "dry-run" THEN 0 ELSE ledger.credit[x]) <= ledger.minted[x]
        BY <3>1, <3>2, <3>3
      <4> DEFINE k == IF chain = "dry-run" THEN 0 ELSE ledger.credit[x]
      <4>4. k \in Nat /\ job.qty + k <= ledger.minted[x]
        BY <3>2, <4>3
      <4> HIDE DEF k
      <4>5. 0 <= actor'.minted[x] /\ 0 + k <= ledger'.minted[x]
        BY <3>2, <4>1, <4>2, <4>3, <4>4
      <4> QED
        BY <4>1, <4>5 DEF k
    <3>4. CASE x # p
      <4>1. actor'.reserved[x] = actor.reserved[x] /\ ledger'.reserved[x] = ledger.reserved[x]
            /\ actor'.minted[x] = actor.minted[x] /\ ledger'.minted[x] = ledger.minted[x]
        BY <3>2, <3>4
      <4> QED
        BY <3>1, <3>2, <3>4, <4>1
    <3> QED
      BY <3>3, <3>4
  <2>2. \A x \in Providers : x # job'.provider
    BY Actors DEF NoJob
  <2> QED
    BY <1>2, <2>1, <2>2 DEF Reserving
<1>6. Mirroring'
  <2> SUFFICES ASSUME chain = "dry-run"
               PROVE  /\ actor'.minted = ledger'.minted
                      /\ \A x \in Consumers : actor'.budget[x] + 0 <= ledger'.budget[x]
    BY <1>2 DEF Mirroring
  <2>1. actor.minted = ledger.minted
    BY <1>1 DEF Mirroring
  <2>2. ASSUME NEW x \in Consumers
        PROVE  actor'.budget[x] + 0 <= ledger'.budget[x]
    <3>1. actor'.budget[x] \in Nat
      BY <1>2 DEF Mirrors
    <3> QED
      BY <3>1
  <2> QED
    BY <2>1, <2>2
<1> QED
  BY <1>3, <1>4, <1>5, <1>6 DEF HarnessInv

(* What is in the mirror and the ledger of the job being resolved. *)
LEMMA AtResolve ==
  ASSUME HarnessInv, pc = "resolve"
  PROVE  /\ job.provider \in Providers /\ job.consumer \in Consumers
         /\ actor.reserved[job.provider] = job.qty /\ ledger.reserved[job.provider] = job.qty
         /\ job.qty <= actor.minted[job.provider] /\ job.qty <= ledger.minted[job.provider]
         /\ job.qty \in Nat /\ job.escrow \in Nat /\ job.id # 0
         /\ chain = "dry-run" => \A x \in Consumers : actor.budget[x] <= ledger.budget[x]
<1>1. HarnessShape /\ Course /\ Reserving /\ Mirroring
  BY DEF HarnessInv
<1>2. /\ job.provider \in Providers /\ job.consumer \in Consumers /\ job.id # 0
      /\ job.qty \in Nat /\ job.escrow \in Nat
  BY <1>1, Actors, Shapes DEF Course, Working
<1>3. /\ actor.reserved[job.provider] = job.qty /\ ledger.reserved[job.provider] = job.qty
      /\ actor.reserved[job.provider] <= actor.minted[job.provider]
      /\ ledger.reserved[job.provider] + (IF chain = "dry-run" THEN 0 ELSE ledger.credit[job.provider])
           <= ledger.minted[job.provider]
  BY <1>1, <1>2 DEF Reserving
<1>4. ledger.credit[job.provider] \in Nat /\ ledger.minted[job.provider] \in Nat
  BY <1>1, <1>2, Shapes
<1>5. ASSUME chain = "dry-run", NEW x \in Consumers
      PROVE  actor.budget[x] <= ledger.budget[x]
  <2>1. actor.budget[x] \in Nat /\ actor.budget[x] + 0 <= ledger.budget[x]
    BY <1>1, <1>5, Shapes DEF Mirroring
  <2> QED
    BY <2>1
<1> QED
  BY <1>2, <1>3, <1>4, <1>5

(* A settled job: the provider is paid less the fee, the fee goes to the treasury, and what
   was reserved is used up. *)
LEMMA SettledStep ==
  ASSUME HarnessInv, pc = "resolve", pc' \in {"order", "done"}, UNCHANGED <<chain, order>>,
         job' = NoJob, Settled(job), Release(job, TRUE)
  PROVE  HarnessInv'
<1> DEFINE p == job.provider
           c == job.consumer
           fee == SettleFee(job.escrow)
<1>1. HarnessShape /\ BooksBalance
  BY DEF HarnessInv
<1>2. /\ p \in Providers /\ c \in Consumers
      /\ actor.reserved[p] = job.qty /\ ledger.reserved[p] = job.qty
      /\ job.qty <= actor.minted[p] /\ job.qty <= ledger.minted[p]
      /\ job.qty \in Nat /\ job.escrow \in Nat /\ job.id # 0
      /\ chain = "dry-run" => \A x \in Consumers : actor.budget[x] <= ledger.budget[x]
  BY AtResolve
<1>3. fee \in Nat /\ fee <= job.escrow
  BY <1>2, FeeBelow
<1>4. /\ ledger' = [ledger EXCEPT !.minted[p] = @ - job.qty, !.reserved[p] = @ - job.qty,
                                  !.treasury = @ + fee,
                                  !.budget[c] = ByBackend(@, @ + job.escrow - fee)]
      /\ ended' = [ended EXCEPT ![job.id] = "Settled"]
      /\ Emit(Event("Settled", job.id, [NoData EXCEPT !.payout = job.escrow - fee, !.fee = fee]), NoEvent)
  BY DEF Settled
<1>5. actor' = [actor EXCEPT !.reserved[p] = @ - job.qty, !.minted[p] = @ - job.qty,
                             !.budget[c] = @]
  BY DEF Release
<1> HIDE DEF p, c, fee
<1>6. /\ actor.minted[p] \in Nat /\ ledger.minted[p] \in Nat /\ ledger.budget[c] \in Nat
      /\ ledger.treasury \in Nat /\ actor.budget[c] \in Nat
  BY <1>1, <1>2, Shapes
<1> DEFINE am == actor.minted[p] - job.qty
           lm == ledger.minted[p] - job.qty
           b == ByBackend(ledger.budget[c], ledger.budget[c] + job.escrow - fee)
           t == ledger.treasury + fee
           aminted == [actor.minted EXCEPT ![p] = am]
           areserved == [actor.reserved EXCEPT ![p] = 0]
           lminted == [ledger.minted EXCEPT ![p] = lm]
           lreserved == [ledger.reserved EXCEPT ![p] = 0]
           budget == [ledger.budget EXCEPT ![c] = b]
<1>7. am \in Nat /\ lm \in Nat /\ b \in Nat /\ t \in Nat /\ (chain = "dry-run" => b = ledger.budget[c])
  BY <1>2, <1>3, <1>6 DEF ByBackend
<1>8. /\ actor' = [actor EXCEPT !.reserved = areserved, !.minted = aminted]
      /\ ledger' = [ledger EXCEPT !.minted = lminted, !.reserved = lreserved, !.treasury = t, !.budget = budget]
  <2>1. ledger.reserved[p] - job.qty = 0 /\ actor.reserved[p] - job.qty = 0
    BY <1>2
  <2>2. ledger' = [ledger EXCEPT !.minted[p] = @ - job.qty, !.reserved[p] = 0, !.treasury = @ + fee,
                                 !.budget[c] = ByBackend(@, @ + job.escrow - fee)]
    BY <1>1, <1>4, <2>1 DEF HarnessShape, Ledgers
  <2>3. actor' = [actor EXCEPT !.reserved[p] = 0, !.minted[p] = @ - job.qty, !.budget[c] = @]
    BY <1>1, <1>5, <2>1 DEF HarnessShape, Mirrors
  <2>4. [actor.budget EXCEPT ![c] = actor.budget[c]] = actor.budget
    BY <1>1, <1>2, Shapes
  <2>5. actor' = [actor EXCEPT !.reserved = areserved, !.minted = aminted]
    BY <1>1, <2>3, <2>4 DEF HarnessShape, Mirrors
  <2>6. ledger' = [ledger EXCEPT !.minted = lminted, !.reserved = lreserved, !.treasury = t, !.budget = budget]
    BY <1>1, <2>2 DEF HarnessShape, Ledgers
  <2> QED
    BY <2>5, <2>6
<1>9. /\ aminted \in [Providers -> Nat] /\ areserved \in [Providers -> Nat]
      /\ lminted \in [Providers -> Nat] /\ lreserved \in [Providers -> Nat]
      /\ budget \in [Consumers -> Nat] /\ (chain = "dry-run" => budget = ledger.budget)
  <2> HIDE DEF am, lm, b
  <2> QED
    BY <1>1, <1>2, <1>7, Shapes
<1> HIDE DEF aminted, areserved, lminted, lreserved, budget, t
<1>10. /\ ledger' \in Ledgers /\ ledger'.bond = ledger.bond /\ ledger'.minted = lminted
       /\ ledger'.reserved = lreserved /\ ledger'.credit = ledger.credit
       /\ ledger'.treasury = t /\ ledger'.budget = budget
  BY <1>1, <1>7, <1>8, <1>9 DEF HarnessShape, Ledgers
<1>11. /\ actor' \in Mirrors /\ actor'.minted = aminted /\ actor'.reserved = areserved
       /\ actor'.budget = actor.budget
  BY <1>1, <1>8, <1>9 DEF HarnessShape, Mirrors
<1>12. Adds(tally', tally, 0, 0, job.escrow - fee, fee, 0, 0)
  <2> DEFINE d == [NoData EXCEPT !.payout = job.escrow - fee, !.fee = fee]
  <2>1. d \in Data /\ d.payout = job.escrow - fee /\ d.fee = fee
    <3> DEFINE x == job.escrow - fee
    <3>1. x \in Nat /\ d = [NoData EXCEPT !.payout = x, !.fee = fee]
      BY <1>2, <1>3
    <3> HIDE DEF x, d
    <3>2. d \in Data /\ d.payout = x /\ d.fee = fee
      BY <1>3, <3>1 DEF Data, NoData
    <3> QED
      BY <3>2 DEF x
  <2> HIDE DEF d
  <2>2. Emit(Event("Settled", job.id, d), NoEvent)
    BY <1>4 DEF d
  <2>3. Adds(tally', tally, 0, 0, d.payout, d.fee, 0, 0)
    BY <1>1, <2>1, <2>2, Counted
  <2> QED
    BY <2>1, <2>3
<1>13. /\ tally' \in Tallies /\ tally'.jobs = tally.jobs /\ tally'.usdcEscrowed = tally.usdcEscrowed
       /\ tally'.usdcSettledPayout = tally.usdcSettledPayout + (job.escrow - fee)
       /\ tally'.usdcFees = tally.usdcFees + fee /\ tally'.usdcRefunded = tally.usdcRefunded
  BY <1>1, <1>12, Shapes DEF Adds
<1>14. BooksBalance'
  <2>1. /\ job'.id = 0 /\ pc \notin {"setup", "crashed"} /\ pc' \notin {"setup", "crashed"} /\ chain' = chain
    BY DEF NoJob
  <2>2. SumFunction(ledger.budget) \in Nat /\ SumFunction(ledger.bond) \in Nat
    BY <1>1, Actors, Shapes, SumType
  <2> DEFINE total == NProviders * Bond + NConsumers * Budget
  <2>3. /\ tally.usdcEscrowed = job.escrow + tally.usdcSettledPayout + tally.usdcFees + tally.usdcRefunded
        /\ chain = "dry-run" =>
             SumFunction(ledger.bond) + SumFunction(ledger.budget) + ledger.treasury + job.escrow
               + tally.usdcSettledPayout = total
    BY <1>1, <1>2, <2>1 DEF BooksBalance
  <2> HIDE DEF total
  <2>4. /\ tally'.usdcEscrowed = 0 + tally'.usdcSettledPayout + tally'.usdcFees + tally'.usdcRefunded
        /\ chain = "dry-run" =>
             SumFunction(ledger.bond) + SumFunction(ledger.budget) + t + 0
               + tally'.usdcSettledPayout = total
    BY <1>1, <1>2, <1>3, <1>6, <1>13, <2>2, <2>3, Shapes DEF t
  <2>5. chain = "dry-run" => SumFunction(budget) = SumFunction(ledger.budget)
    BY <1>9
  <2>6. chain = "dry-run" =>
          SumFunction(ledger.bond) + SumFunction(budget) + t + 0 + tally'.usdcSettledPayout = total
    BY <2>4, <2>5
  <2> QED
    BY <1>10, <2>1, <2>4, <2>6 DEF BooksBalance, total
<1>15. /\ actor'.minted = [actor.minted EXCEPT ![p] = actor.minted[p] - job.qty]
       /\ ledger'.minted = [ledger.minted EXCEPT ![p] = ledger.minted[p] - job.qty]
       /\ actor'.reserved = [actor.reserved EXCEPT ![p] = 0]
       /\ ledger'.reserved = [ledger.reserved EXCEPT ![p] = 0]
       /\ chain = "dry-run" => \A x \in Consumers : actor'.budget[x] <= ledger'.budget[x]
  BY <1>2, <1>9, <1>10, <1>11 DEF aminted, lminted, areserved, lreserved
<1> QED
  BY <1>4, <1>10, <1>11, <1>13, <1>14, <1>15, OverStep DEF p

(* A job at fault: its escrow goes back, with a part of the bond, and nothing is used up. *)
LEMMA FaultStep ==
  ASSUME HarnessInv, pc = "resolve", pc' \in {"order", "done"}, UNCHANGED <<chain, order>>,
         job' = NoJob, NEW reason \in {"InvalidAttestation", "AttTimeout", "SlaOverrun"},
         FaultTerminal(job, reason), Release(job, FALSE)
  PROVE  HarnessInv'
<1> DEFINE p == job.provider
           c == job.consumer
           bond == ledger.bond[p]
           cap == ledger.capacity[p]
           penalty == ByBackend(SlashAmount(reason, job.escrow, bond), ChainSlash(reason, job.qty, bond, cap))
           split == DistributeSlash(penalty, job.escrow)
           given == split.toConsumer
           kept == split.toTreasury
<1>1. HarnessShape /\ BooksBalance
  BY DEF HarnessInv
<1>2. /\ p \in Providers /\ c \in Consumers
      /\ actor.reserved[p] = job.qty /\ ledger.reserved[p] = job.qty
      /\ job.qty <= actor.minted[p] /\ job.qty <= ledger.minted[p]
      /\ job.qty \in Nat /\ job.escrow \in Nat /\ job.id # 0
      /\ chain = "dry-run" => \A x \in Consumers : actor.budget[x] <= ledger.budget[x]
  BY AtResolve
<1>3. /\ ledger' = [ledger EXCEPT !.bond[p] = @ - penalty, !.reserved[p] = @ - job.qty,
                                  !.capacity[p] = ByBackend(@, @ - @ \div 10),
                                  !.budget[c] = @ + job.escrow + given, !.treasury = @ + kept]
      /\ ended' = [ended EXCEPT ![job.id] = "Refunded"]
      /\ Emit(Event("Refunded", job.id, [NoData EXCEPT !.amount = job.escrow]),
              IF penalty > 0 \/ chain # "dry-run"
              THEN Event("Slashed", job.id, [NoData EXCEPT !.penalty = penalty]) ELSE NoEvent)
  BY DEF FaultTerminal
<1>4. actor' = [actor EXCEPT !.reserved[p] = @ - job.qty, !.minted[p] = @,
                             !.budget[c] = @ + job.escrow]
  BY DEF Release
<1> HIDE DEF p, c
<1>5. /\ bond \in Nat /\ cap \in Nat /\ ledger.budget[c] \in Nat /\ actor.budget[c] \in Nat
      /\ ledger.treasury \in Nat
  BY <1>1, <1>2, Shapes
<1> HIDE DEF bond, cap
<1>6. penalty \in Nat /\ penalty <= bond
  BY <1>2, <1>5, PenaltyBelow DEF ByBackend
<1> HIDE DEF penalty
<1>7. given \in Nat /\ kept \in Nat /\ given + kept = penalty
  BY <1>2, <1>6, SharesAdd
<1> HIDE DEF split, given, kept
<1> DEFINE left == bond - penalty
           k == ByBackend(cap, cap - cap \div 10)
           b == ledger.budget[c] + job.escrow + given
           ab == actor.budget[c] + job.escrow
           t == ledger.treasury + kept
           bonds == [ledger.bond EXCEPT ![p] = left]
           caps == [ledger.capacity EXCEPT ![p] = k]
           budget == [ledger.budget EXCEPT ![c] = b]
           abudget == [actor.budget EXCEPT ![c] = ab]
           lreserved == [ledger.reserved EXCEPT ![p] = 0]
           areserved == [actor.reserved EXCEPT ![p] = 0]
<1>8. left \in Nat /\ k \in Nat /\ b \in Nat /\ ab \in Nat /\ t \in Nat
  <2>1. cap \div 10 \in Nat /\ cap \div 10 <= cap
    BY <1>5
  <2> QED
    BY <1>2, <1>5, <1>6, <1>7, <2>1 DEF ByBackend
<1>9. /\ actor' = [actor EXCEPT !.reserved = areserved, !.budget = abudget]
      /\ ledger' = [ledger EXCEPT !.bond = bonds, !.reserved = lreserved, !.capacity = caps,
                                  !.budget = budget, !.treasury = t]
  <2>1. ledger.reserved[p] - job.qty = 0 /\ actor.reserved[p] - job.qty = 0
    BY <1>2
  <2>2. ledger' = [ledger EXCEPT !.bond[p] = @ - penalty, !.reserved[p] = 0,
                                 !.capacity[p] = ByBackend(@, @ - @ \div 10),
                                 !.budget[c] = @ + job.escrow + given, !.treasury = @ + kept]
    BY <1>1, <1>3, <2>1 DEF HarnessShape, Ledgers
  <2>3. actor' = [actor EXCEPT !.reserved[p] = 0, !.minted[p] = @, !.budget[c] = @ + job.escrow]
    BY <1>1, <1>4, <2>1 DEF HarnessShape, Mirrors
  <2> QED
    BY <1>1, <2>2, <2>3 DEF HarnessShape, Mirrors, Ledgers, bond, cap
<1>10. /\ areserved \in [Providers -> Nat] /\ lreserved \in [Providers -> Nat]
       /\ bonds \in [Providers -> Nat] /\ bonds[p] = left
       /\ \A x \in Providers : x # p => bonds[x] = ledger.bond[x]
       /\ caps \in [Providers -> Nat]
       /\ budget \in [Consumers -> Nat] /\ budget[c] = b
       /\ \A x \in Consumers : x # c => budget[x] = ledger.budget[x]
       /\ abudget \in [Consumers -> Nat] /\ abudget[c] = ab
       /\ \A x \in Consumers : x # c => abudget[x] = actor.budget[x]
  <2> HIDE DEF left, k, b, ab, t
  <2> QED
    BY <1>1, <1>2, <1>8, Shapes
<1> HIDE DEF areserved, lreserved, bonds, caps, budget, abudget, t
<1>11. /\ ledger' \in Ledgers /\ ledger'.bond = bonds /\ ledger'.minted = ledger.minted
       /\ ledger'.reserved = lreserved /\ ledger'.credit = ledger.credit
       /\ ledger'.treasury = t /\ ledger'.budget = budget
  BY <1>1, <1>8, <1>9, <1>10 DEF HarnessShape, Ledgers
<1>12. /\ actor' \in Mirrors /\ actor'.minted = actor.minted /\ actor'.reserved = areserved
       /\ actor'.budget = abudget
  BY <1>1, <1>9, <1>10 DEF HarnessShape, Mirrors
<1>13. \E taken \in Nat : Adds(tally', tally, 0, 0, 0, 0, job.escrow, taken)
  <2> DEFINE d == [NoData EXCEPT !.amount = job.escrow]
             x == [NoData EXCEPT !.penalty = penalty]
  <2>1. d \in Data /\ d.amount = job.escrow /\ x \in Data /\ x.penalty = penalty
    BY <1>2, <1>6 DEF Data, NoData
  <2> HIDE DEF d, x
  <2>2. \/ Emit(Event("Refunded", job.id, d), NoEvent)
        \/ Emit(Event("Refunded", job.id, d), Event("Slashed", job.id, x))
    BY <1>3 DEF d, x
  <2>3. \/ Adds(tally', tally, 0, 0, 0, 0, d.amount, 0)
        \/ Adds(tally', tally, 0, 0, 0, 0, d.amount, x.penalty)
    BY <1>1, <2>1, <2>2, Counted
  <2> QED
    BY <1>6, <2>1, <2>3
<1>14. /\ tally' \in Tallies /\ tally'.jobs = tally.jobs /\ tally'.usdcEscrowed = tally.usdcEscrowed
       /\ tally'.usdcSettledPayout = tally.usdcSettledPayout
       /\ tally'.usdcFees = tally.usdcFees /\ tally'.usdcRefunded = tally.usdcRefunded + job.escrow
  BY <1>1, <1>13, Shapes DEF Adds
<1>15. BooksBalance'
  <2>1. /\ job'.id = 0 /\ pc \notin {"setup", "crashed"} /\ pc' \notin {"setup", "crashed"} /\ chain' = chain
    BY DEF NoJob
  <2>2. SumFunction(ledger.budget) \in Nat /\ SumFunction(ledger.bond) \in Nat
    BY <1>1, Actors, Shapes, SumType
  <2>3. SumFunction(bonds) = SumFunction(ledger.bond) - penalty
    <3>1. bonds \in [Providers -> Int] /\ ledger.bond \in [Providers -> Int]
      BY <1>1, <1>10, Shapes
    <3>2. \A x \in Providers \ {p} : bonds[x] = ledger.bond[x]
      BY <1>10
    <3>3. IsFiniteSet(Providers) /\ p \in Providers
      BY <1>2, Actors
    <3>4. SumFunction(bonds) = SumFunction(ledger.bond) - ledger.bond[p] + bonds[p]
      BY <3>1, <3>2, <3>3, SumChange
    <3> QED
      BY <1>5, <1>6, <1>10, <2>2, <3>4 DEF left, bond
  <2>4. SumFunction(budget) = SumFunction(ledger.budget) + job.escrow + given
    <3>1. budget \in [Consumers -> Int] /\ ledger.budget \in [Consumers -> Int]
      BY <1>1, <1>10, Shapes
    <3>2. SumFunction(budget) = SumFunction(ledger.budget) - ledger.budget[c] + budget[c]
      BY <1>2, <1>10, <3>1, Actors, SumChange
    <3> QED
      BY <1>2, <1>5, <1>7, <1>10, <2>2, <3>2 DEF b
  <2> DEFINE total == NProviders * Bond + NConsumers * Budget
  <2>5. /\ tally.usdcEscrowed = job.escrow + tally.usdcSettledPayout + tally.usdcFees + tally.usdcRefunded
        /\ chain = "dry-run" =>
             SumFunction(ledger.bond) + SumFunction(ledger.budget) + ledger.treasury + job.escrow
               + tally.usdcSettledPayout = total
    BY <1>1, <1>2, <2>1 DEF BooksBalance
  <2> HIDE DEF total
  <2>6. /\ tally'.usdcEscrowed = 0 + tally'.usdcSettledPayout + tally'.usdcFees + tally'.usdcRefunded
        /\ chain = "dry-run" =>
             SumFunction(bonds) + SumFunction(budget) + t + 0 + tally'.usdcSettledPayout = total
    BY <1>1, <1>2, <1>5, <1>6, <1>7, <1>14, <2>2, <2>3, <2>4, <2>5, Shapes DEF t
  <2> QED
    BY <1>11, <2>1, <2>6 DEF BooksBalance, total
<1>16. /\ actor'.minted = [actor.minted EXCEPT ![p] = actor.minted[p] - 0]
       /\ ledger'.minted = [ledger.minted EXCEPT ![p] = ledger.minted[p] - 0]
  <2>1. actor.minted[p] - 0 = actor.minted[p] /\ ledger.minted[p] - 0 = ledger.minted[p]
    BY <1>1, <1>2, Shapes
  <2> QED
    BY <1>1, <1>11, <1>12, <2>1, Shapes
<1>17. ASSUME chain = "dry-run", NEW x \in Consumers
       PROVE  actor'.budget[x] <= ledger'.budget[x]
  <2>1. actor.budget[x] <= ledger.budget[x] /\ actor.budget[x] \in Nat /\ ledger.budget[x] \in Nat
    BY <1>1, <1>2, <1>17, Shapes
  <2>2. CASE x = c
    <3>1. ab <= b
      BY <1>2, <1>5, <1>7, <2>1, <2>2
    <3> QED
      BY <1>10, <1>11, <1>12, <2>2, <3>1
  <2>3. CASE x # c
    BY <1>10, <1>11, <1>12, <2>1, <2>3
  <2> QED
    BY <2>2, <2>3
<1>18. /\ actor'.reserved = [actor.reserved EXCEPT ![p] = 0]
       /\ ledger'.reserved = [ledger.reserved EXCEPT ![p] = 0]
  BY <1>11, <1>12 DEF areserved, lreserved
<1> QED
  BY <1>3, <1>11, <1>12, <1>14, <1>15, <1>16, <1>17, <1>18, OverStep DEF p

(* However a job ends. *)
LEMMA ResolveStep ==
  ASSUME HarnessInv, Resolve
  PROVE  HarnessInv'
<1>1. pc = "resolve" /\ UNCHANGED <<chain, order>>
  BY DEF Resolve
<1>2. CASE MayExpireEarly(job) /\ Crash
  BY <1>1, <1>2, CrashStep DEF MayExpireEarly
<1>3. CASE ~(MayExpireEarly(job) /\ Crash)
  <2>1. /\ \/ ReasonOf(job) = "VALID" /\ Settled(job) /\ Release(job, TRUE)
           \/ ReasonOf(job) # "VALID" /\ FaultTerminal(job, ReasonOf(job)) /\ Release(job, FALSE)
        /\ pc' \in {"order", "done"} /\ job' = NoJob
    BY <1>3 DEF Resolve, NextOrder
  <2>2. ReasonOf(job) # "VALID" => ReasonOf(job) \in {"InvalidAttestation", "AttTimeout", "SlaOverrun"}
    BY DEF ReasonOf, PredictVerdict
  <2> QED
    BY <1>1, <2>1, <2>2, SettledStep, FaultStep
<1> QED
  BY <1>2, <1>3

(* Whatever the harness does. *)
LEMMA HarnessStep ==
  ASSUME HarnessInv, HarnessNext
  PROVE  HarnessInv'
BY SetupStep, StreamOrderStep, CreateJobStep, AttestStep, ResolveStep DEF HarnessNext

(* While the page alone moves, nothing of it changes. *)
LEMMA HarnessStays ==
  ASSUME HarnessInv, UNCHANGED <<chain, ledger, actor, pc, order, job, ended, tally>>
  PROVE  HarnessInv'
<1>1. Providers' = Providers /\ Consumers' = Consumers
  BY SameActors
<1>2. HarnessShape'
  BY <1>1 DEF HarnessInv, HarnessShape, Mirrors, Ledgers, JobRecords
<1>3. Course' /\ Reserving' /\ Mirroring' /\ BooksBalance'
  BY <1>1 DEF HarnessInv, Course, Reserving, Mirroring, BooksBalance, Working
<1> QED
  BY <1>2, <1>3 DEF HarnessInv

(* A harness that has not begun. *)
LEMMA HarnessStart ==
  ASSUME HarnessInit
  PROVE  HarnessInv
<1>1. PICK minted \in Mint :
        /\ actor = [minted   |-> [p \in Providers |-> minted],
                    reserved |-> [p \in Providers |-> 0],
                    budget   |-> [c \in Consumers |-> Budget]]
        /\ ledger = [bond |-> [p \in Providers |-> 0], capacity |-> [p \in Providers |-> 0],
                     minted |-> [p \in Providers |-> 0], reserved |-> [p \in Providers |-> 0],
                     credit |-> [p \in Providers |-> 0], budget |-> [c \in Consumers |-> 0], treasury |-> 0]
  BY DEF HarnessInit
<1>2. /\ chain \in Chains /\ pc = "setup" /\ order = 0 /\ job = NoJob
      /\ ended = [i \in JobIds |-> "none"] /\ tally = ZeroTally
  BY DEF HarnessInit
<1>3. minted \in Nat /\ Budget \in Nat /\ Orders \in Nat
  BY HarnessAssumption, Numbers
<1>4. HarnessShape
  <2>1. NoJob \in JobRecords /\ ZeroTally \in Tallies
    BY DEF NoJob, JobRecords, ZeroTally, Tallies
  <2>2. actor \in Mirrors
    BY <1>1, <1>3 DEF Mirrors
  <2>3. ledger \in Ledgers
    BY <1>1 DEF Ledgers
  <2>4. ended \in [JobIds -> Fates] /\ pc \in Stages /\ order \in 0 .. Orders
    BY <1>2, <1>3 DEF Fates, Stages
  <2> QED
    BY <1>2, <2>1, <2>2, <2>3, <2>4 DEF HarnessShape
<1>5. /\ NoJob.id = 0 /\ NoJob.provider = 0 /\ NoJob.qty = 0 /\ NoJob.price = 0 /\ NoJob.escrow = 0
      /\ ZeroTally.jobs = 0 /\ ZeroTally.usdcEscrowed = 0 /\ ZeroTally.usdcSettledPayout = 0
      /\ ZeroTally.usdcFees = 0 /\ ZeroTally.usdcRefunded = 0
  BY DEF NoJob, ZeroTally
<1>6. Course
  <2>1. \A i \in JobIds : ended[i] = "none" /\ i > 0
    BY <1>2, Actors
  <2>2. ledger.treasury = 0 /\ actor.budget = [c \in Consumers |-> Budget]
    BY <1>1
  <2> QED
    BY <1>2, <1>5, <2>1, <2>2 DEF Course, Working
<1>7. Reserving
  <2>1. ASSUME NEW p \in Providers
        PROVE  /\ actor.reserved[p] = 0 /\ actor.minted[p] = minted /\ ledger.reserved[p] = 0
               /\ ledger.credit[p] = 0 /\ ledger.minted[p] = 0 /\ p # 0
    BY <1>1, Actors
  <2> QED
    BY <1>2, <1>3, <1>5, <2>1 DEF Reserving
<1>8. Mirroring /\ BooksBalance
  BY <1>2, <1>5 DEF Mirroring, BooksBalance
<1> QED
  BY <1>4, <1>6, <1>7, <1>8 DEF HarnessInv

(* The invariant of the harness, whatever the page does beside it. *)
THEOREM HarnessInductive == Spec => []HarnessInv
<1>1. Init => HarnessInv
  BY HarnessStart DEF Init
<1>2. HarnessInv /\ [Next]_vars => HarnessInv'
  <2> SUFFICES ASSUME HarnessInv, [Next]_vars PROVE HarnessInv'
    OBVIOUS
  <2>1. CASE HarnessNext
    BY <2>1, HarnessStep
  <2>2. CASE Connect \/ Break
    BY <2>2, HarnessStays DEF Connect, Break, Alone
  <2>3. CASE UNCHANGED harness
    BY <2>3, HarnessStays DEF harness
  <2> QED
    BY <2>1, <2>2, <2>3 DEF Next, vars
<1> QED
  BY <1>1, <1>2, PTL DEF Spec

(* The orchestrator (orchestrator.ts streamOne) sizes and admits orders by its mirror of the
   accounts alone; between two orders the mirror agrees with the dry run's ledger, and no
   order is rejected. *)
THEOREM OrdersBacked == Spec => []OrdersAreBacked
<1>1. HarnessInv => OrdersAreBacked
  <2> SUFFICES ASSUME HarnessInv, chain = "dry-run" PROVE OrdersAreBacked
    BY DEF OrdersAreBacked
  <2>1. HarnessShape /\ Course /\ Reserving /\ Mirroring
    BY DEF HarnessInv
  <2>2. ASSUME pc \in {"order", "done"}
        PROVE  /\ \A p \in Providers : actor.reserved[p] = 0 /\ ledger.reserved[p] = 0
               /\ actor.minted = ledger.minted
               /\ \A c \in Consumers : actor.budget[c] <= ledger.budget[c]
    <3>1. job = NoJob /\ NoJob.provider = 0
      BY <2>1, <2>2 DEF Course, NoJob
    <3>2. \A p \in Providers : actor.reserved[p] = 0 /\ ledger.reserved[p] = 0
      BY <2>1, <3>1, Actors DEF Reserving
    <3>3. ASSUME NEW c \in Consumers PROVE actor.budget[c] <= ledger.budget[c]
      <4>1. actor.budget[c] + 0 <= ledger.budget[c] /\ actor.budget[c] \in Nat
        BY <2>1, <2>2, Shapes DEF Mirroring
      <4> QED
        BY <4>1
    <3> QED
      BY <2>1, <2>2, <3>2, <3>3 DEF Mirroring
  <2>3. pc = "crashed" => order = 0
    BY <2>1 DEF Mirroring
  <2> QED
    BY <2>2, <2>3 DEF OrdersAreBacked
<1> QED
  BY <1>1, HarnessInductive, PTL

(* No money is made or lost in a dry run (chain/dryrun.ts), and on every backend the tally's
   escrow is what it saw leave and what is still open (tally.ts). *)
THEOREM BooksBalanced == Spec => []BooksBalance
<1>1. HarnessInv => BooksBalance
  BY DEF HarnessInv
<1> QED
  BY <1>1, HarnessInductive, PTL

-----------------------------------------------------------------------------
(* The feed: what each event does to it *)

\* A feed while it handles the events of a call.
Busy ==
  [last : Nat, volScu : Nat, usdcEscrowed : Nat, usdcSettled : Nat, usdcSlashed : Nat,
   meta : Metas, out : Seq(Frames)]

(* The amounts a frame may carry. *)
LEMMA SumsTyped ==
  /\ <<>> \in Sums
  /\ \A x \in Nat : [payout |-> x] \in Sums /\ [refund |-> x] \in Sums /\ [slash |-> x] \in Sums
  /\ \A x, y \in Nat : [slash |-> x, refund |-> y] \in Sums
<1>1. <<>> \in [{} -> Nat] /\ {} \in SUBSET {"payout", "refund", "slash"}
  OBVIOUS
<1>2. ASSUME NEW x \in Nat
      PROVE  [payout |-> x] \in Sums /\ [refund |-> x] \in Sums /\ [slash |-> x] \in Sums
  <2>1. /\ [payout |-> x] \in [{"payout"} -> Nat] /\ [refund |-> x] \in [{"refund"} -> Nat]
        /\ [slash |-> x] \in [{"slash"} -> Nat]
    OBVIOUS
  <2> QED
    BY <2>1 DEF Sums
<1>3. ASSUME NEW x \in Nat, NEW y \in Nat PROVE [slash |-> x, refund |-> y] \in Sums
  <2>1. [slash |-> x, refund |-> y] \in [{"slash", "refund"} -> Nat]
    OBVIOUS
  <2> QED
    BY <2>1 DEF Sums
<1> QED
  BY <1>1, <1>2, <1>3 DEF Sums

(* Amounts laid over others are amounts. *)
LEMMA OverTyped ==
  ASSUME NEW m \in Sums, NEW n \in Sums
  PROVE  /\ Over(m, n) \in Sums /\ DOMAIN Over(m, n) = DOMAIN m \cup DOMAIN n
         /\ \A x \in DOMAIN m : Over(m, n)[x] = m[x]
         /\ \A x \in DOMAIN n \ DOMAIN m : Over(m, n)[x] = n[x]
<1>1. PICK S \in SUBSET {"payout", "refund", "slash"} : m \in [S -> Nat]
  BY DEF Sums
<1>2. PICK T \in SUBSET {"payout", "refund", "slash"} : n \in [T -> Nat]
  BY DEF Sums
<1>3. S \cup T \in SUBSET {"payout", "refund", "slash"} /\ Over(m, n) \in [S \cup T -> Nat]
  BY <1>1, <1>2 DEF Over
<1> QED
  BY <1>1, <1>2, <1>3 DEF Over, Sums

(* The jobs in flight, opened. *)
LEMMA MetaTyped ==
  /\ \A m \in Metas : DOMAIN m \subseteq JobIds /\ m \in [DOMAIN m -> Deals]
  /\ \A m : DOMAIN m \subseteq JobIds /\ m \in [DOMAIN m -> Deals] => m \in Metas
  /\ \A m \in Metas, id \in JobIds :
       [i \in DOMAIN m \ {id} |-> m[i]] \in Metas
  /\ \A m \in Metas, id \in JobIds, deal \in Deals :
       Over([i \in {id} |-> deal], m) \in Metas
<1>1. \A m \in Metas : DOMAIN m \subseteq JobIds /\ m \in [DOMAIN m -> Deals]
  BY DEF Metas
<1>2. \A m : DOMAIN m \subseteq JobIds /\ m \in [DOMAIN m -> Deals] => m \in Metas
  BY DEF Metas
<1>3. ASSUME NEW m \in Metas, NEW id \in JobIds
      PROVE  [i \in DOMAIN m \ {id} |-> m[i]] \in Metas
  <2> DEFINE n == [i \in DOMAIN m \ {id} |-> m[i]]
  <2>1. DOMAIN n \subseteq JobIds /\ n \in [DOMAIN n -> Deals]
    BY <1>1
  <2> HIDE DEF n
  <2> QED
    BY <1>2, <2>1 DEF n
<1>4. ASSUME NEW m \in Metas, NEW id \in JobIds, NEW deal \in Deals
      PROVE  Over([i \in {id} |-> deal], m) \in Metas
  <2> DEFINE n == Over([i \in {id} |-> deal], m)
  <2>1. DOMAIN n \subseteq JobIds /\ n \in [DOMAIN n -> Deals]
    BY <1>1 DEF Over
  <2> HIDE DEF n
  <2> QED
    BY <1>2, <2>1 DEF n
<1> QED
  BY <1>1, <1>2, <1>3, <1>4

(* A frame about a job carries its deal, while the feed has it. *)
LEMMA FrameOf ==
  ASSUME NEW f \in Busy, NEW id \in JobIds, NEW d \in Data, NEW type,
         NEW state \in {"Dispatched", "Attested", "Settled", "Refunded", "Slashed"}, NEW money \in Sums
  PROVE  LET frame == JobFrame(f, Event(type, id, d), state, money)
         IN  /\ frame \in Frames /\ frame.t = "job" /\ frame.id = id /\ frame.state = state
             /\ frame.money = money
             /\ id \in DOMAIN f.meta => frame.sizeScu = f.meta[id].sizeScu /\ frame.price = f.meta[id].price
<1> DEFINE e == Event(type, id, d)
           m == IF id \in DOMAIN f.meta THEN f.meta[id] ELSE [sizeScu |-> d.qty, price |-> d.price]
           frame == JobFrame(f, e, state, money)
<1>1. m \in Deals
  <2>1. [sizeScu |-> d.qty, price |-> d.price] \in Deals
    BY DEF Data, Deals
  <2>2. f.meta \in [DOMAIN f.meta -> Deals]
    BY MetaTyped DEF Busy
  <2> QED
    BY <2>1, <2>2
<1>2. frame = [t |-> "job", id |-> id, state |-> state, sizeScu |-> m.sizeScu, price |-> m.price,
               money |-> money]
  BY DEF JobFrame, Event
<1>3. id \in DOMAIN f.meta => m = f.meta[id]
  OBVIOUS
<1> HIDE DEF m, e, frame
<1>4. frame \in Frames
  BY <1>1, <1>2 DEF Deals, Frames
<1> QED
  BY <1>2, <1>3, <1>4 DEF frame, e

(* A ticker is a frame. *)
LEMMA TickerTyped == \A f \in Busy : Ticker(f) \in Frames /\ Ticker(f).t = "ticker"
BY DEF Busy, Ticker, Frames

(* A handled feed is one again. *)
LEMMA BroadcastTyped ==
  ASSUME NEW f \in Busy, NEW new \in Seq(Frames)
  PROVE  /\ Broadcast(f, new) \in Busy /\ Broadcast(f, new).out = f.out \o new
         /\ Broadcast(f, new).meta = f.meta /\ Ticker(Broadcast(f, new)) = Ticker(f)
         /\ Broadcast(f, new).usdcEscrowed = f.usdcEscrowed
         /\ Broadcast(f, new).usdcSettled = f.usdcSettled
         /\ Broadcast(f, new).usdcSlashed = f.usdcSlashed
<1> DEFINE out == f.out \o new
<1>1. out \in Seq(Frames)
  BY ConcatProperties DEF Busy
<1>2. Broadcast(f, new) = [f EXCEPT !.out = out]
  BY DEF Broadcast
<1> HIDE DEF out
<1>3. /\ [f EXCEPT !.out = out] \in Busy /\ [f EXCEPT !.out = out].out = out
      /\ [f EXCEPT !.out = out].meta = f.meta /\ Ticker([f EXCEPT !.out = out]) = Ticker(f)
      /\ [f EXCEPT !.out = out].usdcEscrowed = f.usdcEscrowed
      /\ [f EXCEPT !.out = out].usdcSettled = f.usdcSettled
      /\ [f EXCEPT !.out = out].usdcSlashed = f.usdcSlashed
  BY <1>1 DEF Busy, Ticker
<1> QED
  BY <1>2, <1>3 DEF out

(* A feed that forgets a job is one again. *)
LEMMA ForgetTyped ==
  ASSUME NEW f \in Busy, NEW id \in JobIds
  PROVE  /\ Forget(f, id) \in Busy /\ Forget(f, id).out = f.out
         /\ Forget(f, id).meta = [i \in DOMAIN f.meta \ {id} |-> f.meta[i]]
         /\ Ticker(Forget(f, id)) = Ticker(f)
         /\ Forget(f, id).usdcEscrowed = f.usdcEscrowed
         /\ Forget(f, id).usdcSettled = f.usdcSettled
         /\ Forget(f, id).usdcSlashed = f.usdcSlashed
<1> DEFINE meta == [i \in DOMAIN f.meta \ {id} |-> f.meta[i]]
<1>1. meta \in Metas
  BY MetaTyped DEF Busy
<1>2. Forget(f, id) = [f EXCEPT !.meta = meta]
  BY DEF Forget
<1> HIDE DEF meta
<1>3. /\ [f EXCEPT !.meta = meta] \in Busy /\ [f EXCEPT !.meta = meta].meta = meta
      /\ [f EXCEPT !.meta = meta].out = f.out /\ Ticker([f EXCEPT !.meta = meta]) = Ticker(f)
      /\ [f EXCEPT !.meta = meta].usdcEscrowed = f.usdcEscrowed
      /\ [f EXCEPT !.meta = meta].usdcSettled = f.usdcSettled
      /\ [f EXCEPT !.meta = meta].usdcSlashed = f.usdcSlashed
  BY <1>1 DEF Busy, Ticker
<1> QED
  BY <1>2, <1>3 DEF meta

-----------------------------------------------------------------------------
(* The feed: what each call sends *)

\* What a call puts on the wire: frames about one job, each of one of the states and with one
\* of the amounts, and behind everything that moves the ticker the new one.
Sent(new, id, states, deal, moneys) ==
  /\ new \in Seq(Frames)
  /\ wire' = IF link = "up" THEN wire \o new ELSE wire
  /\ \A k \in JobsIn(new) :
       /\ new[k].id = id /\ new[k].state \in states /\ new[k].money \in moneys
       /\ new[k].sizeScu = deal.sizeScu /\ new[k].price = deal.price
  /\ \/ \E k \in TickersIn(new) : new[k] = Ticker(feed') /\ \A l \in TickersIn(new) : l <= k
     \/ TickersIn(new) = {} /\ Ticker(feed') = Ticker(feed)

(* Between two calls the feed has nothing to send. *)
LEMMA Emptied ==
  ASSUME NEW f \in Busy
  PROVE  LET g == [f EXCEPT !.out = <<>>]
         IN  /\ g \in Feeds /\ g.meta = f.meta /\ Ticker(g) = Ticker(f)
             /\ g.usdcEscrowed = f.usdcEscrowed /\ g.usdcSettled = f.usdcSettled
             /\ g.usdcSlashed = f.usdcSlashed
BY DEF Busy, Feeds, Ticker

(* A feed between two calls. *)
LEMMA Resting ==
  ASSUME NEW f \in Feeds
  PROVE  f \in Busy /\ f.out = <<>> /\ [f EXCEPT !.out = <<>>] = f
<1>1. <<>> \in Seq(Frames)
  OBVIOUS
<1> QED
  BY <1>1 DEF Feeds, Busy

(* Orders and matches are not broadcast. *)
LEMMA QuietlySent ==
  ASSUME FeedShape, NEW i,
         NEW type \in {"Match", "NoMatch"}, Emit(Event("Order", i, NoData), Event(type, i, NoData))
  PROVE  feed' = feed /\ wire' = wire
<1>1. Handle(Handle(feed, Event("Order", i, NoData)), Event(type, i, NoData)) = feed
  BY DEF Handle, Event
<1>2. feed \in Feeds /\ wire \in Seq(Frames)
  BY DEF FeedShape
<1>3. /\ feed' = [feed EXCEPT !.out = <<>>]
      /\ wire' = IF link = "up" THEN wire \o feed.out ELSE wire
  BY <1>1 DEF Emit
<1>4. wire \o <<>> = wire
  BY <1>2, ConcatEmptySeq
<1> QED
  BY <1>2, <1>3, <1>4, Resting

(* What one call leaves of the feed, from the frames its events broadcast. *)
LEMMA CallEnds ==
  ASSUME FeedShape, NEW e, NEW x, Emit(e, x), NEW f \in Busy, f = Handle(Handle(feed, e), x)
  PROVE  /\ feed' \in Feeds /\ feed'.meta = f.meta /\ Ticker(feed') = Ticker(f)
         /\ feed'.usdcEscrowed = f.usdcEscrowed /\ feed'.usdcSettled = f.usdcSettled
         /\ feed'.usdcSlashed = f.usdcSlashed
         /\ wire' = IF link = "up" THEN wire \o f.out ELSE wire
<1>1. feed' = [f EXCEPT !.out = <<>>] /\ wire' = IF link = "up" THEN wire \o f.out ELSE wire
  BY DEF Emit
<1> QED
  BY <1>1, Emptied

(* An attestation is one frame. *)
LEMMA AttestedSent ==
  ASSUME FeedShape, NEW id \in JobIds, id \in DOMAIN feed.meta,
         Emit(Event("AttestationSubmitted", id, NoData), NoEvent)
  PROVE  /\ feed' = feed
         /\ \E new : Sent(new, id, {"Attested"}, feed.meta[id], {<<>>})
<1> DEFINE e == Event("AttestationSubmitted", id, NoData)
           frame == JobFrame(feed, e, "Attested", <<>>)
           new == <<frame>>
           f == Broadcast(feed, new)
<1>1. feed \in Feeds /\ feed \in Busy /\ feed.out = <<>> /\ NoData \in Data /\ <<>> \in Sums
  BY Resting, DataTyped, SumsTyped DEF FeedShape
<1>2. /\ frame \in Frames /\ frame.t = "job" /\ frame.id = id /\ frame.state = "Attested"
      /\ frame.money = <<>> /\ frame.sizeScu = feed.meta[id].sizeScu /\ frame.price = feed.meta[id].price
  BY <1>1, FrameOf
<1>3. f = Handle(Handle(feed, e), NoEvent)
  BY DEF Handle, Event, NoEvent
<1> HIDE DEF frame, e
<1>4. new \in Seq(Frames)
  BY <1>2
<1>5. f \in Busy /\ f.out = <<>> \o new
  <2> HIDE DEF new
  <2> QED
    BY <1>1, <1>4, BroadcastTyped
<1>6. <<>> \o new = new
  BY <1>4, ConcatEmptySeq
<1>7. feed' = feed
  <2>1. feed' = [f EXCEPT !.out = <<>>]
    BY <1>3 DEF Emit, e
  <2>2. f = [feed EXCEPT !.out = f.out]
    BY <1>1 DEF Broadcast, Busy
  <2> QED
    BY <1>1, <2>1, <2>2 DEF Feeds
<1>8. Sent(new, id, {"Attested"}, feed.meta[id], {<<>>})
  <2>1. wire' = IF link = "up" THEN wire \o new ELSE wire
    <3> HIDE DEF f
    <3> QED
      BY <1>3, <1>5, <1>6, CallEnds DEF e
  <2>2. DOMAIN new = {1} /\ new[1] = frame
    OBVIOUS
  <2> HIDE DEF new
  <2>3. JobsIn(new) = {1} /\ TickersIn(new) = {}
    BY <1>2, <2>2 DEF JobsIn, TickersIn
  <2> QED
    BY <1>2, <1>7, <1>4, <2>1, <2>2, <2>3 DEF Sent
<1> QED
  BY <1>7, <1>8

(* A refund is a frame and a ticker. *)
LEMMA RefundedSent ==
  ASSUME FeedShape, NEW id \in JobIds, id \in DOMAIN feed.meta, NEW d \in Data,
         Emit(Event("Refunded", id, d), NoEvent)
  PROVE  /\ feed' = feed
         /\ \E new : Sent(new, id, {"Refunded"}, feed.meta[id], {[refund |-> d.amount]})
<1> DEFINE e == Event("Refunded", id, d)
           money == [refund |-> d.amount]
           frame == JobFrame(feed, e, "Refunded", money)
           tick == Ticker(feed)
           new == <<frame, tick>>
           f == Broadcast(feed, new)
<1>1. feed \in Feeds /\ feed \in Busy /\ feed.out = <<>> /\ money \in Sums
  BY Resting, SumsTyped DEF FeedShape, Data
<1>2. f = Handle(Handle(feed, e), NoEvent)
  BY DEF Handle, Event, NoEvent, OnRefunded
<1> HIDE DEF money
<1>3. /\ frame \in Frames /\ frame.t = "job" /\ frame.id = id /\ frame.state = "Refunded"
      /\ frame.money = money /\ frame.sizeScu = feed.meta[id].sizeScu /\ frame.price = feed.meta[id].price
      /\ tick \in Frames /\ tick.t = "ticker"
  BY <1>1, FrameOf, TickerTyped
<1> HIDE DEF frame, e, tick
<1>4. new \in Seq(Frames)
  BY <1>3
<1>5. f \in Busy /\ f.out = <<>> \o new
  <2> HIDE DEF new
  <2> QED
    BY <1>1, <1>4, BroadcastTyped
<1>6. <<>> \o new = new
  BY <1>4, ConcatEmptySeq
<1>7. feed' = feed
  <2>1. feed' = [f EXCEPT !.out = <<>>]
    BY <1>2 DEF Emit, e
  <2>2. f = [feed EXCEPT !.out = f.out]
    BY <1>1 DEF Broadcast, Busy
  <2> QED
    BY <1>1, <2>1, <2>2 DEF Feeds
<1>8. Sent(new, id, {"Refunded"}, feed.meta[id], {money})
  <2>1. wire' = IF link = "up" THEN wire \o new ELSE wire
    <3> HIDE DEF f
    <3> QED
      BY <1>2, <1>5, <1>6, CallEnds DEF e
  <2>2. DOMAIN new = 1 .. 2 /\ new[1] = frame /\ new[2] = tick
    OBVIOUS
  <2> HIDE DEF new
  <2>3. JobsIn(new) = {1} /\ TickersIn(new) = {2}
    BY <1>3, <2>2 DEF JobsIn, TickersIn
  <2>4. tick = Ticker(feed')
    BY <1>7 DEF tick
  <2> QED
    BY <1>3, <1>4, <2>1, <2>2, <2>3, <2>4 DEF Sent
<1> QED
  BY <1>7, <1>8 DEF money

(* A settlement is a frame and the ticker it moves, and the job is forgotten. *)
LEMMA SettledSent ==
  ASSUME FeedShape, NEW id \in JobIds, id \in DOMAIN feed.meta, NEW d \in Data,
         Emit(Event("Settled", id, d), NoEvent)
  PROVE  /\ feed' \in Feeds /\ feed'.meta = [i \in DOMAIN feed.meta \ {id} |-> feed.meta[i]]
         /\ feed'.usdcEscrowed = feed.usdcEscrowed /\ feed'.usdcSettled = feed.usdcSettled + d.payout
         /\ feed'.usdcSlashed = feed.usdcSlashed
         /\ \E new : Sent(new, id, {"Settled"}, feed.meta[id], {[payout |-> d.payout]})
<1> DEFINE e == Event("Settled", id, d)
           settled == feed.usdcSettled + d.payout
           money == [payout |-> d.payout]
           g == [feed EXCEPT !.usdcSettled = settled]
           frame == JobFrame(g, e, "Settled", money)
           tick == Ticker(g)
           new == <<frame, tick>>
           f == Forget(Broadcast(g, new), id)
<1>1. feed \in Feeds /\ feed \in Busy /\ feed.out = <<>> /\ money \in Sums /\ settled \in Nat
  <2>1. d.payout \in Nat /\ feed \in Feeds
    BY DEF FeedShape, Data
  <2>2. feed.usdcSettled \in Nat
    BY <2>1 DEF Feeds
  <2>3. money \in Sums
    BY <2>1, SumsTyped
  <2>4. settled \in Nat
    BY <2>1, <2>2
  <2> QED
    BY <2>1, <2>3, <2>4, Resting
<1>2. f = Handle(Handle(feed, e), NoEvent)
  BY DEF Handle, Event, NoEvent, OnSettled
<1> HIDE DEF money, settled
<1>3. /\ g \in Busy /\ g.out = <<>> /\ g.meta = feed.meta /\ g.usdcSettled = settled
      /\ g.usdcEscrowed = feed.usdcEscrowed /\ g.usdcSlashed = feed.usdcSlashed
  BY <1>1 DEF Busy
<1> HIDE DEF g
<1>4. /\ frame \in Frames /\ frame.t = "job" /\ frame.id = id /\ frame.state = "Settled"
      /\ frame.money = money /\ frame.sizeScu = feed.meta[id].sizeScu /\ frame.price = feed.meta[id].price
      /\ tick \in Frames /\ tick.t = "ticker"
  BY <1>1, <1>3, FrameOf, TickerTyped
<1> HIDE DEF frame, e, tick
<1>5. new \in Seq(Frames)
  BY <1>4
<1>6. new = <<>> \o new
  BY <1>5, ConcatEmptySeq
<1>7. DOMAIN new = 1 .. 2 /\ new[1] = frame /\ new[2] = tick
  OBVIOUS
<1> HIDE DEF new
<1>8. /\ f \in Busy /\ f.out = new /\ f.meta = [i \in DOMAIN feed.meta \ {id} |-> feed.meta[i]]
      /\ Ticker(f) = tick /\ f.usdcEscrowed = feed.usdcEscrowed /\ f.usdcSettled = settled
      /\ f.usdcSlashed = feed.usdcSlashed
  <2> DEFINE h == Broadcast(g, new)
  <2>1. /\ h \in Busy /\ h.out = <<>> \o new /\ h.meta = feed.meta /\ Ticker(h) = Ticker(g)
        /\ h.usdcEscrowed = feed.usdcEscrowed /\ h.usdcSettled = settled
        /\ h.usdcSlashed = feed.usdcSlashed
    <3>1. g \in Busy /\ new \in Seq(Frames)
      BY <1>3, <1>5
    <3>2. /\ h \in Busy /\ h.out = g.out \o new /\ h.meta = g.meta /\ Ticker(h) = Ticker(g)
          /\ h.usdcEscrowed = g.usdcEscrowed /\ h.usdcSettled = g.usdcSettled
          /\ h.usdcSlashed = g.usdcSlashed
      BY <3>1, BroadcastTyped, Zenon
    <3> HIDE DEF h
    <3> QED
      BY <1>3, <3>2
  <2> HIDE DEF h
  <2>2. /\ f \in Busy /\ f.out = h.out /\ f.meta = [i \in DOMAIN h.meta \ {id} |-> h.meta[i]]
        /\ Ticker(f) = Ticker(h) /\ f.usdcEscrowed = h.usdcEscrowed /\ f.usdcSettled = h.usdcSettled
        /\ f.usdcSlashed = h.usdcSlashed
    BY <2>1, ForgetTyped DEF h
  <2> QED
    BY <1>6, <2>1, <2>2 DEF tick
<1> HIDE DEF f
<1>9. /\ feed' \in Feeds /\ feed'.meta = f.meta /\ Ticker(feed') = Ticker(f)
      /\ feed'.usdcEscrowed = f.usdcEscrowed /\ feed'.usdcSettled = f.usdcSettled
      /\ feed'.usdcSlashed = f.usdcSlashed
      /\ wire' = IF link = "up" THEN wire \o f.out ELSE wire
  BY <1>2, <1>8, CallEnds DEF e
<1>10. Sent(new, id, {"Settled"}, feed.meta[id], {money})
  <2>1. JobsIn(new) = {1} /\ TickersIn(new) = {2}
    BY <1>4, <1>7 DEF JobsIn, TickersIn
  <2>2. wire' = IF link = "up" THEN wire \o new ELSE wire
    BY <1>8, <1>9
  <2>3. new[2] = Ticker(feed')
    BY <1>7, <1>8, <1>9
  <2> QED
    BY <1>4, <1>5, <1>7, <2>1, <2>2, <2>3 DEF Sent
<1> QED
  BY <1>8, <1>9, <1>10 DEF money, settled

(* A slash is behind the refund: two frames, each with a ticker, and the job is forgotten. *)
LEMMA SlashedSent ==
  ASSUME FeedShape, NEW id \in JobIds, id \in DOMAIN feed.meta, NEW d \in Data, NEW x \in Data,
         Emit(Event("Refunded", id, d), Event("Slashed", id, x))
  PROVE  /\ feed' \in Feeds /\ feed'.meta = [i \in DOMAIN feed.meta \ {id} |-> feed.meta[i]]
         /\ feed'.usdcEscrowed = feed.usdcEscrowed /\ feed'.usdcSettled = feed.usdcSettled
         /\ feed'.usdcSlashed = feed.usdcSlashed + x.penalty
         /\ \E new : Sent(new, id, {"Refunded", "Slashed"}, feed.meta[id],
                          {[refund |-> d.amount], [slash |-> x.penalty]})
<1> DEFINE e == Event("Refunded", id, d)
           y == Event("Slashed", id, x)
           refund == [refund |-> d.amount]
           slash == [slash |-> x.penalty]
           slashed == feed.usdcSlashed + x.penalty
           frame1 == JobFrame(feed, e, "Refunded", refund)
           tick1 == Ticker(feed)
           new1 == <<frame1, tick1>>
           f1 == Broadcast(feed, new1)
           g == [f1 EXCEPT !.usdcSlashed = slashed]
           frame2 == JobFrame(g, y, "Slashed", slash)
           tick2 == Ticker(g)
           new2 == <<frame2, tick2>>
           f == Forget(Broadcast(g, new2), id)
<1>1. /\ feed \in Feeds /\ feed \in Busy /\ feed.out = <<>> /\ refund \in Sums /\ slash \in Sums
      /\ slashed \in Nat
  <2>1. d.amount \in Nat /\ x.penalty \in Nat /\ feed \in Feeds
    BY DEF FeedShape, Data
  <2>2. feed.usdcSlashed \in Nat
    BY <2>1 DEF Feeds
  <2>3. refund \in Sums /\ slash \in Sums
    BY <2>1, SumsTyped
  <2>4. slashed \in Nat
    BY <2>1, <2>2
  <2> QED
    BY <2>1, <2>3, <2>4, Resting
<1>2. /\ f1 = Handle(feed, e)
      /\ Handle(f1, y) = LET h == [f1 EXCEPT !.usdcSlashed = f1.usdcSlashed + x.penalty]
                         IN Forget(Broadcast(h, <<JobFrame(h, y, "Slashed", slash), Ticker(h)>>), id)
  BY DEF Handle, Event, OnRefunded, OnSlashed
<1> HIDE DEF refund, slash
<1>3. /\ frame1 \in Frames /\ frame1.t = "job" /\ frame1.id = id /\ frame1.state = "Refunded"
      /\ frame1.money = refund /\ frame1.sizeScu = feed.meta[id].sizeScu /\ frame1.price = feed.meta[id].price
      /\ tick1 \in Frames /\ tick1.t = "ticker"
  BY <1>1, FrameOf, TickerTyped
<1> HIDE DEF frame1, e, tick1
<1>4. new1 \in Seq(Frames)
  BY <1>3
<1>5. <<>> \o new1 = new1
  BY <1>4, ConcatEmptySeq
<1>6. DOMAIN new1 = 1 .. 2 /\ new1[1] = frame1 /\ new1[2] = tick1 /\ Len(new1) = 2
  OBVIOUS
<1> HIDE DEF new1
<1>7. /\ f1 \in Busy /\ f1.out = new1 /\ f1.meta = feed.meta
      /\ f1.usdcEscrowed = feed.usdcEscrowed /\ f1.usdcSettled = feed.usdcSettled
      /\ f1.usdcSlashed = feed.usdcSlashed
  BY <1>1, <1>4, <1>5, BroadcastTyped
<1>8. f = Handle(Handle(feed, e), y)
  BY <1>2, <1>7 DEF slashed
<1> HIDE DEF f1, slashed
<1>9. /\ g \in Busy /\ g.out = new1 /\ g.meta = feed.meta /\ g.usdcSlashed = slashed
      /\ g.usdcEscrowed = feed.usdcEscrowed /\ g.usdcSettled = feed.usdcSettled
  BY <1>1, <1>7 DEF Busy
<1> HIDE DEF g
<1>10. /\ frame2 \in Frames /\ frame2.t = "job" /\ frame2.id = id /\ frame2.state = "Slashed"
       /\ frame2.money = slash /\ frame2.sizeScu = feed.meta[id].sizeScu /\ frame2.price = feed.meta[id].price
       /\ tick2 \in Frames /\ tick2.t = "ticker"
  BY <1>1, <1>9, FrameOf, TickerTyped
<1> HIDE DEF frame2, y, tick2
<1>11. new2 \in Seq(Frames)
  BY <1>10
<1>12. DOMAIN new2 = 1 .. 2 /\ new2[1] = frame2 /\ new2[2] = tick2 /\ Len(new2) = 2
  OBVIOUS
<1> HIDE DEF new2
<1> DEFINE new == new1 \o new2
<1>13. new \in Seq(Frames)
  BY <1>4, <1>11, ConcatProperties
<1>14. /\ DOMAIN new = 1 .. 4 /\ new[1] = frame1 /\ new[2] = tick1 /\ new[3] = frame2 /\ new[4] = tick2
  <2>1. /\ Len(new1 \o new2) = Len(new1) + Len(new2)
        /\ \A i \in 1 .. Len(new1) + Len(new2) :
             (new1 \o new2)[i] = IF i <= Len(new1) THEN new1[i] ELSE new2[i - Len(new1)]
    BY <1>4, <1>11, ConcatProperties, Zenon
  <2>2. Len(new) = 4 /\ DOMAIN new = 1 .. Len(new)
    BY <1>6, <1>12, <1>13, <2>1
  <2>3. \A i \in 1 .. 4 : new[i] = IF i <= 2 THEN new1[i] ELSE new2[i - 2]
    BY <1>6, <1>12, <2>1
  <2> HIDE DEF new
  <2>4. new[1] = new1[1] /\ new[2] = new1[2] /\ new[3] = new2[1] /\ new[4] = new2[2]
    BY <2>3
  <2> QED
    BY <1>6, <1>12, <2>2, <2>4
<1> HIDE DEF new
<1>15. /\ f \in Busy /\ f.out = new /\ f.meta = [i \in DOMAIN feed.meta \ {id} |-> feed.meta[i]]
       /\ Ticker(f) = tick2 /\ f.usdcEscrowed = feed.usdcEscrowed /\ f.usdcSettled = feed.usdcSettled
       /\ f.usdcSlashed = slashed
  <2> DEFINE h == Broadcast(g, new2)
  <2>1. /\ h \in Busy /\ h.out = new /\ h.meta = feed.meta /\ Ticker(h) = Ticker(g)
        /\ h.usdcEscrowed = feed.usdcEscrowed /\ h.usdcSettled = feed.usdcSettled
        /\ h.usdcSlashed = slashed
    BY <1>9, <1>11, BroadcastTyped DEF new
  <2> HIDE DEF h
  <2>2. /\ f \in Busy /\ f.out = h.out /\ f.meta = [i \in DOMAIN h.meta \ {id} |-> h.meta[i]]
        /\ Ticker(f) = Ticker(h) /\ f.usdcEscrowed = h.usdcEscrowed /\ f.usdcSettled = h.usdcSettled
        /\ f.usdcSlashed = h.usdcSlashed
    BY <2>1, ForgetTyped DEF h
  <2> QED
    BY <2>1, <2>2 DEF tick2
<1> HIDE DEF f
<1>16. /\ feed' \in Feeds /\ feed'.meta = f.meta /\ Ticker(feed') = Ticker(f)
       /\ feed'.usdcEscrowed = f.usdcEscrowed /\ feed'.usdcSettled = f.usdcSettled
       /\ feed'.usdcSlashed = f.usdcSlashed
       /\ wire' = IF link = "up" THEN wire \o f.out ELSE wire
  BY <1>8, <1>15, CallEnds DEF e, y
<1>17. Sent(new, id, {"Refunded", "Slashed"}, feed.meta[id], {refund, slash})
  <2>1. JobsIn(new) = {1, 3} /\ TickersIn(new) = {2, 4}
    BY <1>3, <1>10, <1>14 DEF JobsIn, TickersIn
  <2>2. wire' = IF link = "up" THEN wire \o new ELSE wire
    BY <1>15, <1>16
  <2>3. new[4] = Ticker(feed')
    BY <1>14, <1>15, <1>16
  <2> QED
    BY <1>3, <1>10, <1>13, <1>14, <2>1, <2>2, <2>3 DEF Sent
<1> QED
  BY <1>15, <1>16, <1>17 DEF refund, slash, slashed

(* A new job is a trade print, a ticker and, twice over, a frame; the feed remembers its deal. *)
LEMMA CreatedSent ==
  ASSUME FeedShape, NEW id \in JobIds, NEW d \in Data,
         Emit(Event("JobCreated", id, d), Event("Dispatched", id, NoData))
  PROVE  LET deal == [sizeScu |-> d.qty, price |-> d.price]
         IN  /\ feed' \in Feeds /\ feed'.meta = Over([i \in {id} |-> deal], feed.meta)
             /\ feed'.usdcEscrowed = feed.usdcEscrowed + d.escrow
             /\ feed'.usdcSettled = feed.usdcSettled /\ feed'.usdcSlashed = feed.usdcSlashed
             /\ \E new : Sent(new, id, {"Dispatched"}, deal, {<<>>})
<1> DEFINE e == Event("JobCreated", id, d)
           y == Event("Dispatched", id, NoData)
           deal == [sizeScu |-> d.qty, price |-> d.price]
           meta == Over([i \in {id} |-> deal], feed.meta)
           escrowed == feed.usdcEscrowed + d.escrow
           r == RecordTrade(feed, e)
           g == [r EXCEPT !.meta = meta, !.usdcEscrowed = escrowed]
           trade == [t |-> "trade", id |-> id, sizeScu |-> d.qty, price |-> d.price]
           tick == Ticker(g)
           frame1 == JobFrame(g, e, "Dispatched", <<>>)
           new1 == <<trade, tick, frame1>>
           f1 == Broadcast(g, new1)
           frame2 == JobFrame(f1, y, "Dispatched", <<>>)
           new2 == <<frame2>>
           f == Broadcast(f1, new2)
<1>1. /\ feed \in Feeds /\ feed \in Busy /\ feed.out = <<>> /\ <<>> \in Sums /\ NoData \in Data
      /\ d.qty \in Nat /\ d.price \in Nat /\ d.escrow \in Nat
  BY Resting, SumsTyped, DataTyped DEF FeedShape, Data
<1>2. feed.usdcEscrowed \in Nat /\ feed.volScu \in Nat /\ feed.meta \in Metas
  BY <1>1 DEF Feeds
<1>3. deal \in Deals /\ escrowed \in Nat
  BY <1>1, <1>2 DEF Deals
<1>4. /\ meta \in Metas /\ id \in DOMAIN meta /\ meta[id] = deal
  <2> HIDE DEF deal
  <2>1. meta \in Metas
    BY <1>2, <1>3, MetaTyped
  <2> QED
    BY <2>1 DEF Over
<1>5. /\ r \in Busy /\ r.out = <<>> /\ r.meta = feed.meta /\ r.usdcEscrowed = feed.usdcEscrowed
      /\ r.usdcSettled = feed.usdcSettled /\ r.usdcSlashed = feed.usdcSlashed
  <2>1. CASE d.price = 0
    <3>1. r = feed
      BY <2>1 DEF RecordTrade, Event
    <3> QED
      BY <1>1, <3>1
  <2>2. CASE d.price # 0
    <3> DEFINE vol == feed.volScu + d.qty
    <3>1. vol \in Nat /\ r = [feed EXCEPT !.last = d.price, !.volScu = vol]
      BY <1>1, <1>2, <2>2 DEF RecordTrade, Event
    <3> HIDE DEF r, vol
    <3> QED
      BY <1>1, <3>1 DEF Busy
  <2> QED
    BY <2>1, <2>2
<1>6. Handle(feed, e) = f1
  <2>1. Handle(feed, e) = OnJobCreated(feed, e)
    BY DEF Handle, Event
  <2>2. e.id = id /\ e.data = d
    BY DEF Event
  <2>3. g = [r EXCEPT !.meta = Over([i \in {e.id} |-> [sizeScu |-> e.data.qty, price |-> e.data.price]], @),
                      !.usdcEscrowed = @ + e.data.escrow]
    BY <1>5, <2>2 DEF Busy
  <2>4. OnJobCreated(feed, e) =
          LET h == [r EXCEPT !.meta = Over([i \in {e.id} |-> [sizeScu |-> e.data.qty, price |-> e.data.price]], @),
                             !.usdcEscrowed = @ + e.data.escrow]
          IN Broadcast(h, <<[t |-> "trade", id |-> e.id, sizeScu |-> e.data.qty, price |-> e.data.price],
                            Ticker(h), JobFrame(h, e, "Dispatched", <<>>)>>)
    BY DEF OnJobCreated
  <2> HIDE DEF e, g, r
  <2> QED
    BY <2>1, <2>2, <2>3, <2>4
<1> HIDE DEF r, deal, meta, escrowed
<1>7. /\ g \in Busy /\ g.out = <<>> /\ g.meta = meta /\ g.usdcEscrowed = escrowed
      /\ g.usdcSettled = feed.usdcSettled /\ g.usdcSlashed = feed.usdcSlashed
  BY <1>3, <1>4, <1>5 DEF Busy
<1> HIDE DEF g
<1>8. /\ frame1 \in Frames /\ frame1.t = "job" /\ frame1.id = id /\ frame1.state = "Dispatched"
      /\ frame1.money = <<>> /\ frame1.sizeScu = deal.sizeScu /\ frame1.price = deal.price
      /\ tick \in Frames /\ tick.t = "ticker"
  BY <1>1, <1>4, <1>7, FrameOf, TickerTyped
<1>9. trade \in Frames /\ trade.t = "trade"
  BY <1>1 DEF Frames
<1> HIDE DEF frame1, tick, trade
<1>10. new1 \in Seq(Frames) /\ DOMAIN new1 = 1 .. 3 /\ Len(new1) = 3
       /\ new1[1] = trade /\ new1[2] = tick /\ new1[3] = frame1
  BY <1>8, <1>9
<1> HIDE DEF new1
<1>11. <<>> \o new1 = new1
  BY <1>10, ConcatEmptySeq
<1>12. /\ f1 \in Busy /\ f1.out = new1 /\ f1.meta = meta /\ Ticker(f1) = tick
       /\ f1.usdcEscrowed = escrowed /\ f1.usdcSettled = feed.usdcSettled
       /\ f1.usdcSlashed = feed.usdcSlashed
  <2>1. g \in Busy /\ new1 \in Seq(Frames)
    BY <1>7, <1>10
  <2>2. /\ f1 \in Busy /\ f1.out = g.out \o new1 /\ f1.meta = g.meta /\ Ticker(f1) = Ticker(g)
        /\ f1.usdcEscrowed = g.usdcEscrowed /\ f1.usdcSettled = g.usdcSettled
        /\ f1.usdcSlashed = g.usdcSlashed
    BY <2>1, BroadcastTyped, Zenon
  <2> HIDE DEF f1
  <2> QED
    BY <1>7, <1>11, <2>2 DEF tick
<1>13. f = Handle(Handle(feed, e), y)
  BY <1>6 DEF Handle, Event
<1> HIDE DEF f1
<1>14. /\ frame2 \in Frames /\ frame2.t = "job" /\ frame2.id = id /\ frame2.state = "Dispatched"
       /\ frame2.money = <<>> /\ frame2.sizeScu = deal.sizeScu /\ frame2.price = deal.price
  BY <1>1, <1>4, <1>12, FrameOf
<1> HIDE DEF frame2, e, y
<1>15. new2 \in Seq(Frames) /\ Len(new2) = 1 /\ new2[1] = frame2
  BY <1>14
<1> HIDE DEF new2
<1> DEFINE new == new1 \o new2
<1>16. /\ Len(new1 \o new2) = Len(new1) + Len(new2) /\ new1 \o new2 \in Seq(Frames)
       /\ \A i \in 1 .. Len(new1) + Len(new2) :
            (new1 \o new2)[i] = IF i <= Len(new1) THEN new1[i] ELSE new2[i - Len(new1)]
  BY <1>10, <1>15, ConcatProperties, Zenon
<1>17. /\ new \in Seq(Frames) /\ DOMAIN new = 1 .. 4
       /\ new[1] = trade /\ new[2] = tick /\ new[3] = frame1 /\ new[4] = frame2
  <2>1. Len(new) = 4 /\ DOMAIN new = 1 .. Len(new)
    BY <1>10, <1>15, <1>16
  <2>2. \A i \in 1 .. 4 : new[i] = IF i <= 3 THEN new1[i] ELSE new2[i - 3]
    BY <1>10, <1>15, <1>16
  <2> HIDE DEF new
  <2>3. new[1] = new1[1] /\ new[2] = new1[2] /\ new[3] = new1[3] /\ new[4] = new2[1]
    BY <2>2
  <2> QED
    BY <1>10, <1>15, <1>16, <2>1, <2>3 DEF new
<1>18. /\ f \in Busy /\ f.out = new /\ f.meta = meta /\ Ticker(f) = tick
       /\ f.usdcEscrowed = escrowed /\ f.usdcSettled = feed.usdcSettled
       /\ f.usdcSlashed = feed.usdcSlashed
  BY <1>12, <1>15, BroadcastTyped
<1> HIDE DEF f, new
<1>19. /\ feed' \in Feeds /\ feed'.meta = f.meta /\ Ticker(feed') = Ticker(f)
       /\ feed'.usdcEscrowed = f.usdcEscrowed /\ feed'.usdcSettled = f.usdcSettled
       /\ feed'.usdcSlashed = f.usdcSlashed
       /\ wire' = IF link = "up" THEN wire \o f.out ELSE wire
  BY <1>13, <1>18, CallEnds DEF e, y
<1>20. Sent(new, id, {"Dispatched"}, deal, {<<>>})
  <2>1. JobsIn(new) = {3, 4} /\ TickersIn(new) = {2}
    BY <1>8, <1>9, <1>14, <1>17 DEF JobsIn, TickersIn
  <2>2. wire' = IF link = "up" THEN wire \o new ELSE wire
    BY <1>18, <1>19
  <2>3. new[2] = Ticker(feed')
    BY <1>17, <1>18, <1>19
  <2> QED
    BY <1>8, <1>14, <1>17, <2>1, <2>2, <2>3 DEF Sent
<1> QED
  BY <1>18, <1>19, <1>20 DEF deal, meta, escrowed

-----------------------------------------------------------------------------
(* The feed, step by step *)

(* Where the frames of two sequences stand in the one made of both. *)
LEMMA Joined ==
  ASSUME NEW u \in Seq(Frames), NEW v \in Seq(Frames), NEW w, w = u \o v
  PROVE  /\ w \in Seq(Frames) /\ Len(u) \in Nat
         /\ \A k \in DOMAIN u : k \in DOMAIN w /\ k \in Nat /\ k <= Len(u) /\ w[k] = u[k]
         /\ \A k \in DOMAIN v : k + Len(u) \in DOMAIN w /\ k \in Nat /\ k > 0 /\ w[k + Len(u)] = v[k]
         /\ \A k \in DOMAIN w :
              \/ k \in DOMAIN u /\ w[k] = u[k]
              \/ k - Len(u) \in DOMAIN v /\ w[k] = v[k - Len(u)]
<1>1. /\ w \in Seq(Frames) /\ Len(w) = Len(u) + Len(v)
      /\ \A i \in 1 .. Len(u) + Len(v) : w[i] = IF i <= Len(u) THEN u[i] ELSE v[i - Len(u)]
  BY ConcatProperties
<1>2. /\ Len(u) \in Nat /\ Len(v) \in Nat /\ DOMAIN u = 1 .. Len(u) /\ DOMAIN v = 1 .. Len(v)
      /\ DOMAIN w = 1 .. Len(w)
  BY <1>1
<1>3. ASSUME NEW k \in 1 .. Len(u) PROVE k \in 1 .. Len(w) /\ k \in Nat /\ k <= Len(u) /\ w[k] = u[k]
  BY <1>1, <1>2
<1>4. ASSUME NEW k \in 1 .. Len(v)
      PROVE  k + Len(u) \in 1 .. Len(w) /\ k \in Nat /\ k > 0 /\ w[k + Len(u)] = v[k]
  <2>1. k + Len(u) \in 1 .. Len(u) + Len(v) /\ ~(k + Len(u) <= Len(u)) /\ k + Len(u) - Len(u) = k
    BY <1>2
  <2> QED
    BY <1>1, <1>2, <2>1
<1>5. ASSUME NEW k \in 1 .. Len(w)
      PROVE  \/ k \in 1 .. Len(u) /\ w[k] = u[k]
             \/ k - Len(u) \in 1 .. Len(v) /\ w[k] = v[k - Len(u)]
  BY <1>1, <1>2
<1> QED
  BY <1>1, <1>2, <1>3, <1>4, <1>5

\* Only a job under way moves, and only on.
Advanced ==
  \A i \in JobIds :
    \/ ended'[i] = ended[i] \/ ended[i] = "none"
    \/ ended[i] \in {"Dispatched", "Attested"} /\ ended'[i] \in {"Attested", "Settled", "Refunded"}

(* What was done to a job stays done. *)
LEMMA StaysDone ==
  ASSUME Advanced, NEW i \in JobIds, NEW state, OnLedger(ended[i], state)
  PROVE  OnLedger(ended'[i], state) /\ ended[i] # "none"
BY DEF Advanced, OnLedger

(* On the page, done means done by the backend. *)
LEMMA ReachedIs ==
  ASSUME mode = "ws", NEW i, NEW state
  PROVE  Reached(i, state) <=> OnLedger(ended[i], state)
BY DEF Reached, OnLedger

(* A call that sends frames keeps all that the feed promises. *)
LEMMA SentStep ==
  ASSUME FeedInv, OutcomesAreTrue, mode = "ws", UNCHANGED <<mode, ui, chain, link, drops>>,
         NEW id \in JobIds, NEW states, NEW deal, NEW moneys, NEW new, Sent(new, id, states, deal, moneys),
         feed' \in Feeds, DOMAIN feed'.meta \subseteq 1 .. tally'.jobs,
         Working' => job'.id \in DOMAIN feed'.meta, Tallied',
         Advanced, \A s \in states : OnLedger(ended'[id], s),
         chain = "dry-run" =>
           \A e \in [JobIds -> Deals] :
             DealtAs(e) =>
               \E d \in [JobIds -> Deals] :
                 /\ \A i \in JobIds : ended[i] # "none" => d[i] = e[i]
                 /\ \A i \in DOMAIN feed'.meta : feed'.meta[i] = d[i]
                 /\ Working' => d[job'.id].sizeScu = job'.qty /\ d[job'.id].price = job'.price
                 /\ d[id].sizeScu = deal.sizeScu /\ d[id].price = deal.price
                 /\ \A m \in moneys : Paid(m, deal.sizeScu * deal.price)
  PROVE  FeedInv'
<1>1. /\ FeedShape /\ WireIsTrue /\ Fresh /\ AsDealt
      /\ wire \in Seq(Frames) /\ new \in Seq(Frames)
      /\ wire' = IF link = "up" THEN wire \o new ELSE wire
      /\ \A k \in JobsIn(new) :
           /\ new[k].id = id /\ new[k].state \in states /\ new[k].money \in moneys
           /\ new[k].sizeScu = deal.sizeScu /\ new[k].price = deal.price
      /\ \/ \E k \in TickersIn(new) : new[k] = Ticker(feed') /\ \A l \in TickersIn(new) : l <= k
         \/ TickersIn(new) = {} /\ Ticker(feed') = Ticker(feed)
  BY DEF FeedInv, FeedShape, Sent
<1>2. \A i \in JobIds : \A s : OnLedger(ended[i], s) => OnLedger(ended'[i], s) /\ ended[i] # "none"
  BY StaysDone
<1>3. \A k \in JobsIn(wire) : wire[k].id \in JobIds /\ OnLedger(ended[wire[k].id], wire[k].state)
  <2>1. \A k \in JobsIn(wire) : wire[k] \in Frames /\ wire[k].t = "job"
    BY <1>1 DEF JobsIn
  <2>2. \A x \in Frames : x.t = "job" => x.id \in JobIds
    BY DEF Frames
  <2> QED
    BY <1>1, <2>1, <2>2 DEF WireIsTrue
<1>4. \A k \in DOMAIN wire' :
        \/ k \in DOMAIN wire /\ wire'[k] = wire[k]
        \/ link = "up" /\ k - Len(wire) \in DOMAIN new /\ wire'[k] = new[k - Len(wire)]
  <2>1. CASE link = "up"
    <3>1. wire' = wire \o new
      BY <1>1, <2>1
    <3> QED
      BY <1>1, <2>1, <3>1, Joined
  <2>2. CASE link # "up"
    BY <1>1, <2>2
  <2> QED
    BY <2>1, <2>2
<1>5. FeedShape'
  <2>1. wire' \in Seq(Frames)
    <3>1. wire \o new \in Seq(Frames)
      BY <1>1, ConcatProperties
    <3> QED
      BY <1>1, <3>1
  <2> QED
    BY <1>1, <2>1 DEF FeedShape
<1>6. \A k \in JobsIn(wire') :
        \/ k \in JobsIn(wire) /\ wire'[k] = wire[k]
        \/ k - Len(wire) \in JobsIn(new) /\ wire'[k] = new[k - Len(wire)]
  BY <1>4 DEF JobsIn
<1>7. WireIsTrue'
  <2> SUFFICES ASSUME NEW k \in JobsIn(wire')
               PROVE  OnLedger(ended'[wire'[k].id], wire'[k].state)
    BY DEF WireIsTrue, JobsIn
  <2>1. CASE k \in JobsIn(wire) /\ wire'[k] = wire[k]
    BY <1>2, <1>3, <2>1
  <2>2. CASE k - Len(wire) \in JobsIn(new) /\ wire'[k] = new[k - Len(wire)]
    <3> DEFINE l == k - Len(wire)
    <3>1. l \in JobsIn(new) /\ wire'[k] = new[l]
      BY <2>2
    <3> HIDE DEF l
    <3>2. new[l].id = id /\ new[l].state \in states
      BY <1>1, <3>1
    <3> QED
      BY <3>1, <3>2
  <2> QED
    BY <1>6, <2>1, <2>2
<1>8. Fresh'
  <2> SUFFICES ASSUME link = "up"
               PROVE  \/ TickersIn(wire') = {} /\ (page.ticker # <<>> => page.ticker = Ticker(feed'))
                      \/ \E k \in TickersIn(wire') :
                           wire'[k] = Ticker(feed') /\ \A l \in TickersIn(wire') : l <= k
    BY DEF Fresh, TickersIn, Ticker, ui
  <2>1. wire' = wire \o new
    BY <1>1
  <2>2. /\ Len(wire) \in Nat
        /\ \A k \in DOMAIN wire : k \in DOMAIN wire' /\ k \in Nat /\ k <= Len(wire) /\ wire'[k] = wire[k]
        /\ \A k \in DOMAIN new :
             k + Len(wire) \in DOMAIN wire' /\ k \in Nat /\ k > 0 /\ wire'[k + Len(wire)] = new[k]
    BY <1>1, <2>1, Joined
  <2>3. \A l \in TickersIn(wire') :
          \/ l \in TickersIn(wire) /\ wire'[l] = wire[l]
          \/ l - Len(wire) \in TickersIn(new) /\ l \in Nat
    <3>1. DOMAIN wire' \subseteq Nat
      BY <1>5 DEF FeedShape
    <3> QED
      BY <1>4, <3>1 DEF TickersIn
  <2>4. TickersIn(new) \subseteq DOMAIN new /\ TickersIn(wire) \subseteq DOMAIN wire
    BY DEF TickersIn
  <2>5. ASSUME NEW k \in TickersIn(new), new[k] = Ticker(feed'), \A l \in TickersIn(new) : l <= k
        PROVE  \E x \in TickersIn(wire') :
                 wire'[x] = Ticker(feed') /\ \A l \in TickersIn(wire') : l <= x
    <3> DEFINE x == k + Len(wire)
    <3>1. x \in DOMAIN wire' /\ wire'[x] = new[k] /\ k \in Nat /\ k > 0
      BY <2>2, <2>4
    <3>2. x \in TickersIn(wire')
      BY <3>1 DEF TickersIn
    <3>3. ASSUME NEW l \in TickersIn(wire') PROVE l <= x
      <4>1. CASE l \in TickersIn(wire)
        BY <2>2, <2>4, <3>1, <4>1
      <4>2. CASE l - Len(wire) \in TickersIn(new) /\ l \in Nat
        <5>1. l - Len(wire) <= k
          BY <2>5, <4>2
        <5> QED
          BY <2>2, <3>1, <4>2, <5>1
      <4> QED
        BY <2>3, <4>1, <4>2
    <3> HIDE DEF x
    <3> QED
      BY <2>5, <3>1, <3>2, <3>3
  <2>6. ASSUME TickersIn(new) = {}, Ticker(feed') = Ticker(feed)
        PROVE  TickersIn(wire') = TickersIn(wire) /\ \A k \in TickersIn(wire) : wire'[k] = wire[k]
    <3>1. \A k \in TickersIn(wire) : k \in TickersIn(wire') /\ wire'[k] = wire[k]
      BY <2>2, <2>4 DEF TickersIn
    <3> QED
      BY <2>3, <2>6, <3>1
  <2>7. \/ TickersIn(wire) = {} /\ (page.ticker # <<>> => page.ticker = Ticker(feed))
        \/ \E k \in TickersIn(wire) :
             wire[k] = Ticker(feed) /\ \A l \in TickersIn(wire) : l <= k
    BY <1>1 DEF Fresh
  <2> QED
    BY <1>1, <2>5, <2>6, <2>7
<1>9. AsDealt'
  <2> SUFFICES ASSUME chain = "dry-run"
               PROVE  \E d \in [JobIds -> Deals] : DealtAs(d)'
    BY DEF AsDealt
  <2>1. PICK e \in [JobIds -> Deals] : DealtAs(e)
    BY <1>1 DEF AsDealt
  <2>2. PICK d \in [JobIds -> Deals] :
          /\ \A i \in JobIds : ended[i] # "none" => d[i] = e[i]
          /\ \A i \in DOMAIN feed'.meta : feed'.meta[i] = d[i]
          /\ Working' => d[job'.id].sizeScu = job'.qty /\ d[job'.id].price = job'.price
          /\ d[id].sizeScu = deal.sizeScu /\ d[id].price = deal.price
          /\ \A m \in moneys : Paid(m, deal.sizeScu * deal.price)
    BY <2>1
  <2>3. ASSUME NEW k \in JobsIn(wire') PROVE Dealt(wire'[k], d[wire'[k].id])
    <3>1. CASE k \in JobsIn(wire) /\ wire'[k] = wire[k]
      <4>1. Dealt(wire[k], e[wire[k].id])
        BY <2>1, <3>1 DEF DealtAs
      <4>2. d[wire[k].id] = e[wire[k].id]
        BY <1>2, <1>3, <2>2, <3>1
      <4> QED
        BY <3>1, <4>1, <4>2
    <3>2. CASE k - Len(wire) \in JobsIn(new) /\ wire'[k] = new[k - Len(wire)]
      <4> DEFINE x == new[k - Len(wire)]
      <4>1. /\ x.id = id /\ x.money \in moneys /\ x.sizeScu = deal.sizeScu /\ x.price = deal.price
        BY <1>1, <3>2
      <4> HIDE DEF x
      <4>2. Dealt(x, d[id])
        BY <2>2, <4>1 DEF Dealt
      <4> QED
        BY <3>2, <4>1, <4>2 DEF x
    <3> QED
      BY <1>6, <3>1, <3>2
  <2>4. ASSUME NEW i \in JobIds, rows[i].state # "none" PROVE Dealt(rows[i], d[i])
    <3>1. Dealt(rows[i], e[i])
      BY <2>1, <2>4 DEF DealtAs
    <3>2. OnLedger(ended[i], rows[i].state)
      BY <2>4, ReachedIs DEF OutcomesAreTrue
    <3> QED
      BY <1>2, <2>2, <3>1, <3>2
  <2>5. rows' = rows
    BY DEF ui
  <2>6. DealtAs(d)'
    BY <2>2, <2>3, <2>4, <2>5 DEF DealtAs, JobsIn
  <2> QED
    BY <2>6
<1> QED
  BY <1>5, <1>7, <1>8, <1>9 DEF FeedInv

(* A call that sends nothing and ends outside a job keeps all that the feed promises. *)
LEMMA QuietStep ==
  ASSUME FeedInv, UNCHANGED <<mode, ui, chain, link, drops, feed, wire, ended>>, ~Working',
         tally'.jobs = tally.jobs, tally'.usdcEscrowed = tally.usdcEscrowed,
         tally'.usdcSettledPayout = tally.usdcSettledPayout, tally'.usdcSlashed = tally.usdcSlashed
  PROVE  FeedInv'
<1>1. FeedShape /\ Tallied /\ WireIsTrue /\ Fresh /\ AsDealt
  BY DEF FeedInv
<1>2. FeedShape' /\ Tallied' /\ WireIsTrue' /\ Fresh'
  BY <1>1 DEF FeedShape, Tallied, WireIsTrue, Fresh, JobsIn, TickersIn, Ticker, ui
<1>3. AsDealt'
  <2> SUFFICES ASSUME mode = "ws", chain = "dry-run"
               PROVE  \E d \in [JobIds -> Deals] : DealtAs(d)'
    BY DEF AsDealt
  <2>1. PICK e \in [JobIds -> Deals] : DealtAs(e)
    BY <1>1 DEF AsDealt
  <2>2. DealtAs(e)'
    BY <2>1 DEF DealtAs, JobsIn, ui
  <2> QED
    BY <2>2
<1> QED
  BY <1>2, <1>3 DEF FeedInv

\* What is known before each of the steps below.
Streaming == HarnessInv /\ FeedInv /\ OutcomesAreTrue /\ mode = "ws" /\ UNCHANGED <<mode, ui>>

(* Up to a job nothing is sent. *)
LEMMA BeforeJobFeeds ==
  ASSUME Streaming, Setup \/ StreamOrder
  PROVE  FeedInv' /\ Advanced
<1>1. HarnessShape /\ FeedInv /\ FeedShape
  BY DEF Streaming, HarnessInv, FeedInv
<1>2. CASE Setup
  <2>1. UNCHANGED <<chain, link, drops, feed, wire, ended, tally>> /\ pc' \in {"crashed", "order"}
    BY <1>2 DEF Setup, Crash
  <2> QED
    BY <1>1, <2>1, QuietStep DEF Streaming, Working, Advanced
<1>3. CASE StreamOrder
  <2>1. /\ UNCHANGED <<chain, link, drops, ended>> /\ pc' \in {"create", "order", "done"}
        /\ \E type \in {"Match", "NoMatch"} : Emit(Event("Order", 0, NoData), Event(type, 0, NoData))
    <3>1. UNCHANGED <<chain, link, drops, ended>>
      BY <1>3 DEF StreamOrder
    <3> DEFINE Matched(c, ask, m) ==
                 /\ pc' = "create" /\ job' = m
                 /\ actor' = [actor EXCEPT !.reserved[m.provider] = @ + m.qty, !.budget[c] = @ - m.escrow]
                 /\ Emit(Event("Order", 0, NoData), Event("Match", 0, NoData))
    <3>2. \/ Unmatched
          \/ pc' = "create" /\ Emit(Event("Order", 0, NoData), Event("Match", 0, NoData))
      <4>1. \E c \in Consumers, qty \in Qtys, price \in Prices :
              \/ actor.budget[c] < qty * price /\ Unmatched
              \/ /\ actor.budget[c] >= qty * price
                 /\ \E ask \in [Providers -> Prices] :
                      LET S == Crossing(ask, price)
                          m == MatchOf(c, qty, ask, S)
                      IN \/ S = {} /\ Unmatched
                         \/ S # {} /\ Matched(c, ask, m)
        BY <1>3 DEF StreamOrder
      <4>2. Unmatched \/ \E c, ask, m : Matched(c, ask, m)
        <5> HIDE DEF Matched
        <5> QED
          BY <4>1
      <4> QED
        BY <4>2
    <3>3. Unmatched => /\ pc' \in {"order", "done"}
                       /\ Emit(Event("Order", 0, NoData), Event("NoMatch", 0, NoData))
      BY DEF Unmatched, NextOrder
    <3> QED
      BY <3>1, <3>2, <3>3
  <2>2. feed' = feed /\ wire' = wire
    BY <1>1, <2>1, QuietlySent
  <2>3. Adds(tally', tally, 0, 0, 0, 0, 0, 0)
    BY <1>1, <2>1, Counted, DataTyped
  <2>4. /\ tally'.jobs = tally.jobs /\ tally'.usdcEscrowed = tally.usdcEscrowed
        /\ tally'.usdcSettledPayout = tally.usdcSettledPayout /\ tally'.usdcSlashed = tally.usdcSlashed
    BY <1>1, <2>3, NothingAdded DEF HarnessShape
  <2> QED
    BY <1>1, <2>1, <2>2, <2>4, QuietStep DEF Streaming, Working, Advanced
<1> QED
  BY <1>2, <1>3

(* What the event of a new job says of it: in a dry run, its deal. *)
LEMMA CreatedData ==
  ASSUME NEW j \in JobRecords
  PROVE  \E d \in Data : /\ JobCreated(j) = Event("JobCreated", j.id, d) /\ d.escrow = j.escrow
                         /\ chain = "dry-run" => d.qty = j.qty /\ d.price = j.price
<1> DEFINE d == JobCreated(j).data
<1>1. JobCreated(j) = Event("JobCreated", j.id, d)
  BY DEF JobCreated, Event
<1>2. d \in Data /\ d.escrow = j.escrow
  <2>1. JobCreated(j) \in [type : {"JobCreated"}, id : {j.id}, data : Data]
    BY DataTyped
  <2> QED
    BY <2>1, DataTyped
<1>3. chain = "dry-run" => d.qty = j.qty /\ d.price = j.price
  BY DEF JobCreated, Event, ByBackend, NoData
<1> QED
  BY <1>1, <1>2, <1>3

(* A new job is new to the feed, to the wire and to the page. *)
LEMMA CreateFeeds ==
  ASSUME Streaming, CreateJob
  PROVE  FeedInv' /\ Advanced
<1>1. /\ HarnessInv /\ HarnessShape /\ Course /\ FeedInv /\ FeedShape /\ Tallied
      /\ UNCHANGED <<mode, ui, chain, link, drops>> /\ mode = "ws" /\ OutcomesAreTrue /\ pc = "create"
  BY DEF Streaming, HarnessInv, FeedInv, CreateJob
<1>2. CASE ~CanCreate(job)
  <2>1. Crash
    BY <1>2 DEF CreateJob
  <2>2. UNCHANGED <<feed, wire, ended, tally>> /\ pc' = "crashed"
    BY <2>1 DEF Crash
  <2> QED
    BY <1>1, <2>2, QuietStep DEF Working, Advanced
<1>3. CASE CanCreate(job)
  <2> DEFINE id == tally.jobs + 1
  <2>1. PICK j : /\ \E fault \in Faults : j = [job EXCEPT !.id = id, !.fault = fault]
                 /\ job' = j /\ ended' = [ended EXCEPT ![j.id] = "Dispatched"]
                 /\ Emit(JobCreated(j), Event("Dispatched", j.id, NoData))
    BY <1>3 DEF CreateJob
  <2>2. id \in JobIds /\ tally.jobs \in Nat
    <3>1. tally.jobs \in Nat /\ order \in Nat /\ order <= Orders /\ tally.jobs < order
      BY <1>1, Numbers, Shapes DEF HarnessShape, Course
    <3> QED
      BY <3>1, Numbers DEF JobIds
  <2> HIDE DEF id
  <2>3. /\ j \in JobRecords /\ j.id = id /\ j.qty = job.qty /\ j.price = job.price /\ j.escrow = job.escrow
    <3>1. job \in JobRecords
      BY <1>1 DEF HarnessShape
    <3> QED
      BY <2>1, <2>2, <3>1, HarnessAssumption DEF JobRecords
  <2>4. PICK d \in Data : /\ JobCreated(j) = Event("JobCreated", id, d) /\ d.escrow = j.escrow
                          /\ chain = "dry-run" => d.qty = j.qty /\ d.price = j.price
    BY <2>3, CreatedData
  <2>5. Emit(Event("JobCreated", id, d), Event("Dispatched", id, NoData))
    BY <2>1, <2>3, <2>4
  <2>6. Adds(tally', tally, 1, d.escrow, 0, 0, 0, 0)
    BY <1>1, <2>5, Counted
  <2> DEFINE deal == [sizeScu |-> d.qty, price |-> d.price]
  <2>7. /\ feed' \in Feeds /\ feed'.meta = Over([i \in {id} |-> deal], feed.meta)
        /\ feed'.usdcEscrowed = feed.usdcEscrowed + d.escrow
        /\ feed'.usdcSettled = feed.usdcSettled /\ feed'.usdcSlashed = feed.usdcSlashed
        /\ \E new : Sent(new, id, {"Dispatched"}, deal, {<<>>})
    BY <1>1, <2>2, <2>5, CreatedSent
  <2>8. deal \in Deals
    BY DEF Deals, Data
  <2>9. deal.sizeScu = d.qty /\ deal.price = d.price
    OBVIOUS
  <2> HIDE DEF deal
  <2>10. PICK new : Sent(new, id, {"Dispatched"}, deal, {<<>>})
    BY <2>7
  <2>11. tally'.jobs = id /\ Tallied'
    <3>1. /\ tally'.jobs = tally.jobs + 1 /\ tally'.usdcEscrowed = tally.usdcEscrowed + d.escrow
          /\ tally'.usdcSettledPayout = tally.usdcSettledPayout /\ tally'.usdcSlashed = tally.usdcSlashed
      <4>1. tally \in Tallies
        BY <1>1 DEF HarnessShape
      <4>2. tally.usdcSettledPayout \in Nat /\ tally.usdcSlashed \in Nat
        BY <4>1 DEF Tallies
      <4> QED
        BY <2>6, <4>2 DEF Adds
    <3> QED
      BY <1>1, <2>7, <3>1 DEF Tallied, id
  <2>12. /\ DOMAIN feed'.meta = {id} \cup DOMAIN feed.meta /\ feed'.meta[id] = deal
         /\ \A i \in DOMAIN feed.meta : i # id => feed'.meta[i] = feed.meta[i]
    BY <2>7 DEF Over
  <2>13. DOMAIN feed'.meta \subseteq 1 .. tally'.jobs
    <3>1. DOMAIN feed.meta \subseteq 1 .. tally.jobs
      BY <1>1 DEF FeedShape
    <3>2. 1 .. tally.jobs \subseteq 1 .. id /\ id \in 1 .. id
      BY <2>2 DEF id
    <3> QED
      BY <2>11, <2>12, <3>1, <3>2
  <2>14. /\ ended[id] = "none" /\ ended'[id] = "Dispatched"
         /\ \A i \in JobIds : i # id => ended'[i] = ended[i]
    <3>1. ended \in [JobIds -> Fates] /\ (ended[id] = "none" <=> id > tally.jobs)
      BY <1>1, <2>2 DEF HarnessShape, Course
    <3>2. id > tally.jobs
      BY <2>2 DEF id
    <3> QED
      BY <2>1, <2>2, <2>3, <3>1, <3>2
  <2>15. Advanced /\ \A s \in {"Dispatched"} : OnLedger(ended'[id], s)
    BY <2>14 DEF Advanced, OnLedger
  <2>16. ASSUME chain = "dry-run", NEW e \in [JobIds -> Deals], DealtAs(e)
         PROVE  \E x \in [JobIds -> Deals] :
                  /\ \A i \in JobIds : ended[i] # "none" => x[i] = e[i]
                  /\ \A i \in DOMAIN feed'.meta : feed'.meta[i] = x[i]
                  /\ Working' => x[job'.id].sizeScu = job'.qty /\ x[job'.id].price = job'.price
                  /\ x[id].sizeScu = deal.sizeScu /\ x[id].price = deal.price
                  /\ \A m \in {<<>>} : Paid(m, deal.sizeScu * deal.price)
    <3> DEFINE x == [e EXCEPT ![id] = deal]
    <3>1. x \in [JobIds -> Deals] /\ x[id] = deal /\ \A i \in JobIds : i # id => x[i] = e[i]
      BY <2>2, <2>8
    <3> HIDE DEF x
    <3>2. \A i \in JobIds : ended[i] # "none" => x[i] = e[i]
      BY <2>14, <3>1
    <3>3. ASSUME NEW i \in DOMAIN feed'.meta PROVE feed'.meta[i] = x[i]
      <4>1. CASE i = id
        BY <2>12, <3>1, <4>1
      <4>2. CASE i # id
        <5>1. i \in DOMAIN feed.meta /\ i \in JobIds
          BY <1>1, <2>12, <4>2, MetaTyped DEF FeedShape, Feeds
        <5>2. feed.meta[i] = e[i]
          BY <2>16, <5>1 DEF DealtAs
        <5> QED
          BY <2>12, <3>1, <4>2, <5>1, <5>2
      <4> QED
        BY <4>1, <4>2
    <3>4. x[job'.id].sizeScu = job'.qty /\ x[job'.id].price = job'.price
      BY <2>1, <2>3, <2>4, <2>9, <2>16, <3>1
    <3>5. \A m \in {<<>>} : Paid(m, deal.sizeScu * deal.price)
      <4>1. DOMAIN <<>> = {}
        OBVIOUS
      <4> QED
        BY <4>1 DEF Paid
    <3> QED
      BY <3>1, <3>2, <3>3, <3>4, <3>5
  <2>17. Working' => job'.id \in DOMAIN feed'.meta
    BY <2>1, <2>3, <2>12
  <2> QED
    BY <1>1, <2>2, <2>7, <2>10, <2>11, <2>13, <2>15, <2>16, <2>17, SentStep
<1> QED
  BY <1>2, <1>3

(* The attestation's frame is about the job under way. *)
LEMMA AttestFeeds ==
  ASSUME Streaming, SubmitMockAttestation
  PROVE  FeedInv' /\ Advanced
<1> DEFINE id == job.id
           deal == feed.meta[id]
<1>1. /\ HarnessShape /\ Course /\ FeedInv /\ FeedShape /\ Tallied /\ mode = "ws" /\ OutcomesAreTrue
      /\ UNCHANGED <<mode, ui, chain, link, drops>> /\ pc = "attest" /\ pc' = "resolve"
      /\ ended' = [ended EXCEPT ![id] = "Attested"]
      /\ Emit(Event("AttestationSubmitted", id, NoData), NoEvent)
  BY DEF Streaming, HarnessInv, FeedInv, SubmitMockAttestation
<1>2. /\ id \in JobIds /\ id \in DOMAIN feed.meta /\ ended[id] \in {"Dispatched", "Attested"}
      /\ ended'[id] = "Attested" /\ \A i \in JobIds : i # id => ended'[i] = ended[i]
  BY <1>1 DEF Course, Working, FeedShape, HarnessShape
<1>3. /\ job'.id = id /\ job'.qty = job.qty /\ job'.price = job.price
  BY <1>1, SameDeal
<1> HIDE DEF id
<1>4. feed' = feed /\ \E new : Sent(new, id, {"Attested"}, deal, {<<>>})
  BY <1>1, <1>2, AttestedSent
<1>5. Adds(tally', tally, 0, 0, 0, 0, 0, 0)
  BY <1>1, Counted, DataTyped
<1>6. /\ tally'.jobs = tally.jobs /\ tally'.usdcEscrowed = tally.usdcEscrowed
      /\ tally'.usdcSettledPayout = tally.usdcSettledPayout /\ tally'.usdcSlashed = tally.usdcSlashed
  BY <1>1, <1>5, NothingAdded DEF HarnessShape
<1>7. Advanced /\ \A s \in {"Attested"} : OnLedger(ended'[id], s)
  BY <1>2 DEF Advanced, OnLedger
<1>8. ASSUME NEW e \in [JobIds -> Deals], DealtAs(e)
      PROVE  /\ \A i \in DOMAIN feed'.meta : feed'.meta[i] = e[i]
             /\ Working' => e[job'.id].sizeScu = job'.qty /\ e[job'.id].price = job'.price
             /\ e[id].sizeScu = deal.sizeScu /\ e[id].price = deal.price
             /\ \A m \in {<<>>} : Paid(m, deal.sizeScu * deal.price)
  <2>1. \A m \in {<<>>} : Paid(m, deal.sizeScu * deal.price)
    <3>1. DOMAIN <<>> = {}
      OBVIOUS
    <3> QED
      BY <3>1 DEF Paid
  <2>2. Working
    BY <1>1 DEF Working
  <2> QED
    BY <1>2, <1>3, <1>4, <1>8, <2>1, <2>2 DEF DealtAs, id
<1>9. /\ feed' \in Feeds /\ DOMAIN feed'.meta \subseteq 1 .. tally'.jobs
      /\ job'.id \in DOMAIN feed'.meta /\ Tallied'
  BY <1>1, <1>2, <1>3, <1>4, <1>6 DEF FeedShape, Tallied
<1>10. PICK new : Sent(new, id, {"Attested"}, deal, {<<>>})
  BY <1>4
<1> HIDE DEF deal
<1> QED
  BY <1>1, <1>2, <1>7, <1>8, <1>9, <1>10, SentStep

(* What the frames that end a job say of it, if its deal is still the one it was made with. *)
LEMMA EndedStep ==
  ASSUME Streaming, pc = "resolve", ~Working', UNCHANGED <<chain, link, drops>>,
         feed' \in Feeds, DOMAIN feed'.meta \subseteq DOMAIN feed.meta,
         \A i \in DOMAIN feed'.meta : feed'.meta[i] = feed.meta[i],
         tally'.jobs = tally.jobs, Tallied',
         NEW fate \in {"Settled", "Refunded"}, ended' = [ended EXCEPT ![job.id] = fate],
         NEW states, \A s \in states : OnLedger(fate, s),
         NEW moneys, chain = "dry-run" => \A m \in moneys : Paid(m, job.escrow),
         NEW new, Sent(new, job.id, states, feed.meta[job.id], moneys)
  PROVE  FeedInv' /\ Advanced
<1> DEFINE id == job.id
           deal == feed.meta[id]
<1>1. /\ HarnessShape /\ Course /\ FeedInv /\ FeedShape /\ mode = "ws" /\ OutcomesAreTrue
      /\ UNCHANGED <<mode, ui>> /\ Working
  BY DEF Streaming, HarnessInv, FeedInv, Working
<1>2. /\ id \in JobIds /\ id \in DOMAIN feed.meta /\ ended[id] \in {"Dispatched", "Attested"}
      /\ ended'[id] = fate /\ \A i \in JobIds : i # id => ended'[i] = ended[i]
      /\ job.escrow = job.qty * job.price
  BY <1>1 DEF Course, FeedShape, HarnessShape
<1>3. Advanced /\ \A s \in states : OnLedger(ended'[id], s)
  BY <1>2 DEF Advanced
<1>4. ASSUME chain = "dry-run", NEW e \in [JobIds -> Deals], DealtAs(e)
      PROVE  /\ \A i \in DOMAIN feed'.meta : feed'.meta[i] = e[i]
             /\ e[id].sizeScu = deal.sizeScu /\ e[id].price = deal.price
             /\ \A m \in moneys : Paid(m, deal.sizeScu * deal.price)
  <2>1. e[id] = deal /\ e[id].sizeScu = job.qty /\ e[id].price = job.price
    BY <1>1, <1>2, <1>4 DEF DealtAs
  <2> HIDE DEF deal
  <2>2. job.escrow = deal.sizeScu * deal.price
    BY <1>2, <2>1
  <2>3. \A i \in DOMAIN feed'.meta : feed'.meta[i] = e[i]
    BY <1>4 DEF DealtAs
  <2> QED
    BY <1>4, <2>1, <2>2, <2>3
<1>5. DOMAIN feed'.meta \subseteq 1 .. tally'.jobs
  BY <1>1 DEF FeedShape
<1> HIDE DEF deal
<1>6. Sent(new, id, states, deal, moneys)
  BY DEF deal
<1> HIDE DEF id
<1> QED
  BY <1>1, <1>2, <1>3, <1>4, <1>5, <1>6, SentStep

(* A payment. *)
LEMMA SettledFeeds ==
  ASSUME Streaming, pc = "resolve", ~Working', UNCHANGED <<chain, link, drops>>, Settled(job)
  PROVE  FeedInv' /\ Advanced
<1> DEFINE fee == SettleFee(job.escrow)
           payout == job.escrow - fee
           d == [NoData EXCEPT !.payout = payout, !.fee = fee]
<1>1. /\ HarnessInv /\ HarnessShape /\ Course /\ FeedShape /\ Tallied /\ Working
      /\ ended' = [ended EXCEPT ![job.id] = "Settled"] /\ Emit(Event("Settled", job.id, d), NoEvent)
  BY DEF Streaming, HarnessInv, FeedInv, Working, Settled
<1>2. job.id \in JobIds /\ job.id \in DOMAIN feed.meta
  BY <1>1 DEF Course, FeedShape
<1>3. fee \in Nat /\ payout \in Nat
  BY <1>1, AtResolve, FeeBelow
<1> HIDE DEF payout, fee
<1>4. d \in Data /\ d.payout = payout
  BY <1>3 DEF NoData, Data
<1> HIDE DEF d
<1>5. /\ feed' \in Feeds /\ feed'.meta = [i \in DOMAIN feed.meta \ {job.id} |-> feed.meta[i]]
      /\ feed'.usdcEscrowed = feed.usdcEscrowed /\ feed'.usdcSettled = feed.usdcSettled + d.payout
      /\ feed'.usdcSlashed = feed.usdcSlashed
      /\ \E new : Sent(new, job.id, {"Settled"}, feed.meta[job.id], {[payout |-> d.payout]})
  BY <1>1, <1>2, <1>4, SettledSent
<1>6. tally'.jobs = tally.jobs /\ Tallied'
  <2>1. Adds(tally', tally, 0, 0, d.payout, d.fee, 0, 0)
    BY <1>1, <1>4, Counted
  <2>2. tally.jobs \in Nat /\ tally.usdcEscrowed \in Nat /\ tally.usdcSlashed \in Nat
    BY <1>1 DEF HarnessShape, Tallies
  <2>3. /\ tally'.jobs = tally.jobs /\ tally'.usdcEscrowed = tally.usdcEscrowed
        /\ tally'.usdcSettledPayout = tally.usdcSettledPayout + d.payout
        /\ tally'.usdcSlashed = tally.usdcSlashed
    BY <2>1, <2>2 DEF Adds
  <2> QED
    BY <1>1, <1>5, <2>3 DEF Tallied
<1>7. PICK new : Sent(new, job.id, {"Settled"}, feed.meta[job.id], {[payout |-> payout]})
  BY <1>4, <1>5
<1>8. Paid([payout |-> payout], job.escrow)
  <2>1. DOMAIN [payout |-> payout] = {"payout"} /\ [payout |-> payout].payout = payout
    OBVIOUS
  <2> QED
    BY <2>1 DEF Paid, payout, fee
<1>9. /\ DOMAIN feed'.meta \subseteq DOMAIN feed.meta
      /\ \A i \in DOMAIN feed'.meta : feed'.meta[i] = feed.meta[i]
  BY <1>5
<1>10. \A s \in {"Settled"} : OnLedger("Settled", s)
  BY DEF OnLedger
<1> QED
  BY <1>1, <1>5, <1>6, <1>7, <1>8, <1>9, <1>10, EndedStep

(* A refund, with or without a slash. *)
LEMMA FaultFeeds ==
  ASSUME Streaming, pc = "resolve", ~Working', UNCHANGED <<chain, link, drops>>,
         NEW reason \in {"InvalidAttestation", "AttTimeout", "SlaOverrun"}, FaultTerminal(job, reason)
  PROVE  FeedInv' /\ Advanced
<1> DEFINE bond == ledger.bond[job.provider]
           cap == ledger.capacity[job.provider]
           penalty == ByBackend(SlashAmount(reason, job.escrow, bond), ChainSlash(reason, job.qty, bond, cap))
           d == [NoData EXCEPT !.amount = job.escrow]
           x == [NoData EXCEPT !.penalty = penalty]
           refund == [refund |-> job.escrow]
           slash == [slash |-> penalty]
<1>1. /\ HarnessInv /\ HarnessShape /\ Course /\ FeedShape /\ Tallied /\ Working
      /\ ended' = [ended EXCEPT ![job.id] = "Refunded"]
      /\ Emit(Event("Refunded", job.id, d),
              IF penalty > 0 \/ chain # "dry-run" THEN Event("Slashed", job.id, x) ELSE NoEvent)
  BY DEF Streaming, HarnessInv, FeedInv, Working, FaultTerminal
<1>2. job.id \in JobIds /\ job.id \in DOMAIN feed.meta
  BY <1>1 DEF Course, FeedShape
<1>3. job.escrow \in Nat /\ job.qty \in Nat /\ bond \in Nat /\ cap \in Nat
  BY <1>1, AtResolve, Shapes
<1> HIDE DEF bond, cap
<1>4. penalty \in Nat
  BY <1>3, PenaltyBelow DEF ByBackend
<1> HIDE DEF penalty
<1>5. d \in Data /\ x \in Data /\ d.amount = job.escrow /\ x.penalty = penalty
  BY <1>3, <1>4 DEF NoData, Data
<1> HIDE DEF d, x
<1>6. Paid(refund, job.escrow) /\ Paid(slash, job.escrow)
  <2>1. /\ DOMAIN refund = {"refund"} /\ refund.refund = job.escrow
        /\ DOMAIN slash = {"slash"}
    OBVIOUS
  <2> HIDE DEF refund, slash
  <2> QED
    BY <2>1 DEF Paid
<1>7. \A s \in {"Refunded", "Slashed"} : OnLedger("Refunded", s)
  BY DEF OnLedger
<1>8. /\ tally.jobs \in Nat /\ tally.usdcEscrowed \in Nat /\ tally.usdcSettledPayout \in Nat
      /\ tally.usdcSlashed \in Nat
  BY <1>1 DEF HarnessShape, Tallies
<1>9. CASE Emit(Event("Refunded", job.id, d), NoEvent)
  <2>1. feed' = feed /\ \E new : Sent(new, job.id, {"Refunded"}, feed.meta[job.id], {refund})
    BY <1>1, <1>2, <1>5, <1>9, RefundedSent
  <2>2. tally'.jobs = tally.jobs /\ Tallied'
    <3>1. Adds(tally', tally, 0, 0, 0, 0, d.amount, 0)
      BY <1>1, <1>5, <1>9, Counted
    <3>2. /\ tally'.jobs = tally.jobs /\ tally'.usdcEscrowed = tally.usdcEscrowed
          /\ tally'.usdcSettledPayout = tally.usdcSettledPayout /\ tally'.usdcSlashed = tally.usdcSlashed
      BY <1>8, <3>1 DEF Adds
    <3> QED
      BY <1>1, <2>1, <3>2 DEF Tallied
  <2>3. PICK new : Sent(new, job.id, {"Refunded"}, feed.meta[job.id], {refund})
    BY <2>1
  <2>4. feed' \in Feeds
    BY <1>1, <2>1 DEF FeedShape
  <2> HIDE DEF refund
  <2> QED
    BY <1>1, <1>6, <1>7, <2>1, <2>2, <2>3, <2>4, EndedStep
<1>10. CASE Emit(Event("Refunded", job.id, d), Event("Slashed", job.id, x))
  <2>1. /\ feed' \in Feeds /\ feed'.meta = [i \in DOMAIN feed.meta \ {job.id} |-> feed.meta[i]]
        /\ feed'.usdcEscrowed = feed.usdcEscrowed /\ feed'.usdcSettled = feed.usdcSettled
        /\ feed'.usdcSlashed = feed.usdcSlashed + x.penalty
        /\ \E new : Sent(new, job.id, {"Refunded", "Slashed"}, feed.meta[job.id],
                         {[refund |-> d.amount], [slash |-> x.penalty]})
    BY <1>1, <1>2, <1>5, <1>10, SlashedSent
  <2>2. tally'.jobs = tally.jobs /\ Tallied'
    <3>1. Adds(tally', tally, 0, 0, 0, 0, d.amount, x.penalty)
      BY <1>1, <1>5, <1>10, Counted
    <3>2. /\ tally'.jobs = tally.jobs /\ tally'.usdcEscrowed = tally.usdcEscrowed
          /\ tally'.usdcSettledPayout = tally.usdcSettledPayout
          /\ tally'.usdcSlashed = tally.usdcSlashed + x.penalty
      BY <1>8, <3>1 DEF Adds
    <3> QED
      BY <1>1, <2>1, <3>2 DEF Tallied
  <2>3. PICK new : Sent(new, job.id, {"Refunded", "Slashed"}, feed.meta[job.id], {refund, slash})
    BY <1>5, <2>1
  <2>4. /\ DOMAIN feed'.meta \subseteq DOMAIN feed.meta
        /\ \A i \in DOMAIN feed'.meta : feed'.meta[i] = feed.meta[i]
    BY <2>1
  <2> HIDE DEF refund, slash
  <2>5. \A m \in {refund, slash} : Paid(m, job.escrow)
    BY <1>6
  <2> QED
    BY <1>1, <1>7, <2>1, <2>2, <2>3, <2>4, <2>5, EndedStep
<1> QED
  BY <1>1, <1>9, <1>10

(* However a job ends. *)
LEMMA ResolveFeeds ==
  ASSUME Streaming, Resolve
  PROVE  FeedInv' /\ Advanced
<1>1. pc = "resolve" /\ UNCHANGED <<chain, order, link, drops>>
  BY DEF Resolve
<1>2. CASE Crash
  <2>1. UNCHANGED <<feed, wire, ended, tally>> /\ pc' = "crashed" /\ FeedInv
    BY <1>2 DEF Crash, Streaming
  <2> QED
    BY <1>1, <2>1, QuietStep DEF Streaming, Working, Advanced
<1>3. CASE ~Crash
  <2>1. /\ \/ ReasonOf(job) = "VALID" /\ Settled(job) /\ Release(job, TRUE)
           \/ ReasonOf(job) # "VALID" /\ FaultTerminal(job, ReasonOf(job)) /\ Release(job, FALSE)
        /\ pc' \in {"order", "done"}
    BY <1>3 DEF Resolve, NextOrder
  <2>2. ReasonOf(job) # "VALID" => ReasonOf(job) \in {"InvalidAttestation", "AttTimeout", "SlaOverrun"}
    BY DEF ReasonOf, PredictVerdict
  <2>3. ~Working'
    BY <2>1 DEF Working
  <2> QED
    BY <1>1, <2>1, <2>2, <2>3, SettledFeeds, FaultFeeds
<1> QED
  BY <1>2, <1>3

(* Whatever the harness does beside an open page. *)
LEMMA StreamFeeds ==
  ASSUME Streaming, HarnessNext
  PROVE  FeedInv' /\ Advanced
BY BeforeJobFeeds, CreateFeeds, AttestFeeds, ResolveFeeds DEF HarnessNext

-----------------------------------------------------------------------------
(* The page beside the harness *)

(* While the harness moves the page stands still, and what it says stays true. *)
LEMMA StreamPage ==
  ASSUME PageInv, mode = "ws", UNCHANGED <<mode, ui>>, Advanced
  PROVE  PageInv'
<1>1. PageShape /\ Past /\ OutcomesAreTrue
  BY DEF PageInv
<1>2. PageShape' /\ Past'
  BY <1>1 DEF PageShape, Past, ui
<1>3. ASSUME NEW i \in JobIds, NEW state, Reached(i, state)
      PROVE  Reached(i, state)'
  <2>1. OnLedger(ended'[i], state)
    BY <1>3, ReachedIs, StaysDone
  <2> QED
    BY <2>1 DEF Reached, OnLedger
<1>4. OutcomesAreTrue'
  BY <1>1, <1>3 DEF OutcomesAreTrue, ui
<1> QED
  BY <1>2, <1>4 DEF PageInv

(* A job's frame on the wire. *)
LEMMA OnWire ==
  ASSUME FeedShape, NEW k \in JobsIn(wire)
  PROVE  /\ wire[k].id \in JobIds /\ wire[k].state \in RowStates \ {"none", "Created"}
         /\ wire[k].sizeScu \in Nat /\ wire[k].price \in Nat /\ wire[k].money \in Sums
<1>1. wire[k] \in Frames /\ wire[k].t = "job"
  BY DEF FeedShape, JobsIn
<1>2. \A x \in Frames :
        x.t = "job" => /\ x.id \in JobIds /\ x.state \in RowStates \ {"none", "Created"}
                       /\ x.sizeScu \in Nat /\ x.price \in Nat /\ x.money \in Sums
  BY DEF Frames, RowStates
<1> QED
  BY <1>1, <1>2

(* A row takes a frame over, and keeps the amounts the frame lacks. *)
LEMMA RowTyped ==
  ASSUME NEW prev \in Row, NEW frame, frame.state \in RowStates, frame.sizeScu \in Nat,
         frame.price \in Nat, frame.money \in Sums
  PROVE  /\ RowOf(prev, frame) \in Row /\ RowOf(prev, frame).state = frame.state
         /\ RowOf(prev, frame).sizeScu = frame.sizeScu /\ RowOf(prev, frame).price = frame.price
         /\ RowOf(prev, frame).money = Over(frame.money, prev.money)
<1>1. prev.money \in Sums
  BY DEF Row
<1>2. Over(frame.money, prev.money) \in Sums
  BY <1>1, OverTyped
<1> QED
  BY <1>2 DEF RowOf, Row

(* A row made of a frame of its job's deal, and of none or one of the same deal before, is of it, too. *)
LEMMA RowDealt ==
  ASSUME NEW prev \in Row, prev.state = "none" => prev = NoRow, NEW frame, frame.state \in RowStates,
         frame.sizeScu \in Nat, frame.price \in Nat, frame.money \in Sums,
         NEW deal \in Deals, Dealt(frame, deal), prev.state # "none" => Dealt(prev, deal)
  PROVE  Dealt(RowOf(prev, frame), deal)
<1> DEFINE escrow == deal.sizeScu * deal.price
           money == Over(frame.money, prev.money)
<1>1. prev.money \in Sums /\ frame.money \in Sums
  BY DEF Row
<1>2. /\ DOMAIN money = DOMAIN frame.money \cup DOMAIN prev.money
      /\ \A x \in DOMAIN frame.money : money[x] = frame.money[x]
      /\ \A x \in DOMAIN prev.money \ DOMAIN frame.money : money[x] = prev.money[x]
  BY <1>1, OverTyped
<1>3. Paid(frame.money, escrow)
  BY DEF Dealt
<1>4. Paid(prev.money, escrow)
  <2>1. CASE prev.state = "none"
    <3>1. prev.money = <<>> /\ DOMAIN <<>> = {}
      BY <2>1 DEF NoRow
    <3> QED
      BY <3>1 DEF Paid
  <2>2. CASE prev.state # "none"
    BY <2>2 DEF Dealt
  <2> QED
    BY <2>1, <2>2
<1> HIDE DEF money, escrow
<1>5. Paid(money, escrow)
  BY <1>2, <1>3, <1>4 DEF Paid
<1>6. /\ RowOf(prev, frame).sizeScu = deal.sizeScu /\ RowOf(prev, frame).price = deal.price
      /\ RowOf(prev, frame).money = money
  BY RowTyped DEF Dealt, money
<1> QED
  BY <1>5, <1>6 DEF Dealt, escrow

(* What an entry of the log may become: only an outcome settles or fails it. *)
LEMMA LogTyped ==
  ASSUME NEW log \in Logs, NEW id \in JobIds, NEW state \in RowStates
  PROVE  /\ Logged(log, id, state) \in Logs
         /\ \A i \in {0} \cup JobIds :
              \/ Logged(log, id, state)[i] = log[i]
              \/ i = id /\ state = "Slashed" /\ Logged(log, id, state)[i].status = "failed"
              \/ i = id /\ state \in {"Settled", "Refunded"} /\ Logged(log, id, state)[i].status = "settled"
<1> DEFINE out == Outcome(state)
           Entry == [kind : {"none", "run", "trade", "settle"},
                     status : {"none", "submitted", "settled", "failed"}]
           run == [log[id] EXCEPT !.status = out]
           settle == [kind |-> "settle", status |-> out]
<1>1. out \in {"settled", "failed"} /\ (state = "Slashed" <=> out = "failed")
  BY DEF Outcome
<1> HIDE DEF out
<1>2. id \in {0} \cup JobIds /\ log \in [{0} \cup JobIds -> Entry] /\ log[id] \in Entry
  BY DEF Logs
<1>3. run \in Entry /\ run.status = out /\ settle \in Entry /\ settle.status = out
  BY <1>1, <1>2
<1>4. \/ Logged(log, id, state) = log
      \/ state \in Terminal \ {"Expired"} /\ Logged(log, id, state) = [log EXCEPT ![id] = run]
      \/ state \in Terminal \ {"Expired"} /\ Logged(log, id, state) = [log EXCEPT ![id] = settle]
  BY <1>2 DEF Logged, out, Logs
<1> HIDE DEF run, settle, Entry
<1>5. Terminal \ {"Expired"} = {"Settled", "Refunded", "Slashed"}
  BY DEF Terminal
<1>6. Logged(log, id, state) \in [{0} \cup JobIds -> Entry]
  BY <1>2, <1>3, <1>4
<1>7. \A i \in {0} \cup JobIds :
        \/ Logged(log, id, state)[i] = log[i]
        \/ i = id /\ state \in Terminal \ {"Expired"} /\ Logged(log, id, state)[i].status = out
  BY <1>2, <1>3, <1>4
<1> QED
  BY <1>1, <1>5, <1>6, <1>7 DEF Logs, Entry

(* Whatever the page reads, what is left on the wire is what was on it, and its rows are of
   the jobs' deals. *)
LEMMA Delivered ==
  ASSUME FeedInv, PageInv, Alone, wire' \in Seq(Frames), link' \in {"down", "opening", "up"},
         drops' \in 0 .. Drops, Fresh',
         \A k \in JobsIn(wire') : \E l \in JobsIn(wire) : wire'[k] = wire[l],
         \/ rows' = rows
         \/ \E l \in JobsIn(wire) : rows' = [rows EXCEPT ![wire[l].id] = RowOf(@, wire[l])]
  PROVE  FeedInv'
<1>1. FeedShape /\ Tallied /\ WireIsTrue /\ AsDealt /\ PageShape
  BY DEF FeedInv, PageInv
<1>2. UNCHANGED <<mode, chain, pc, job, ended, tally, feed>>
  BY DEF Alone
<1>3. FeedShape' /\ Tallied'
  BY <1>1, <1>2 DEF FeedShape, Tallied, Working
<1>4. WireIsTrue'
  <2> SUFFICES ASSUME NEW k \in JobsIn(wire')
               PROVE  OnLedger(ended[wire'[k].id], wire'[k].state)
    BY <1>2 DEF WireIsTrue, JobsIn
  <2>1. PICK l \in JobsIn(wire) : wire'[k] = wire[l]
    OBVIOUS
  <2>2. OnLedger(ended[wire[l].id], wire[l].state)
    BY <1>1 DEF WireIsTrue
  <2> QED
    BY <2>1, <2>2
<1>5. AsDealt'
  <2> SUFFICES ASSUME mode = "ws", chain = "dry-run"
               PROVE  \E d \in [JobIds -> Deals] : DealtAs(d)'
    BY <1>2 DEF AsDealt
  <2>1. PICK d \in [JobIds -> Deals] : DealtAs(d)
    BY <1>1 DEF AsDealt
  <2>2. ASSUME NEW k \in JobsIn(wire') PROVE Dealt(wire'[k], d[wire'[k].id])
    <3>1. PICK l \in JobsIn(wire) : wire'[k] = wire[l]
      OBVIOUS
    <3>2. Dealt(wire[l], d[wire[l].id])
      BY <2>1 DEF DealtAs
    <3> QED
      BY <3>1, <3>2
  <2>3. ASSUME NEW i \in JobIds, rows'[i].state # "none" PROVE Dealt(rows'[i], d[i])
    <3>1. rows[i].state # "none" => Dealt(rows[i], d[i])
      BY <2>1 DEF DealtAs
    <3>2. CASE rows'[i] = rows[i]
      BY <2>3, <3>1, <3>2
    <3>3. CASE rows'[i] # rows[i]
      <4>1. PICK l \in JobsIn(wire) : rows' = [rows EXCEPT ![wire[l].id] = RowOf(@, wire[l])]
        BY <3>3
      <4> DEFINE frame == wire[l]
      <4>2. rows \in [JobIds -> Row] /\ rows[i] \in Row /\ (rows[i].state = "none" => rows[i] = NoRow)
        BY <1>1 DEF PageShape
      <4>3. i = frame.id /\ rows'[i] = RowOf(rows[i], frame)
        BY <3>3, <4>1, <4>2
      <4>4. Dealt(frame, d[i])
        BY <2>1, <4>3 DEF DealtAs
      <4>5. /\ frame.state \in RowStates /\ frame.sizeScu \in Nat /\ frame.price \in Nat
            /\ frame.money \in Sums
        BY <1>1, OnWire
      <4> HIDE DEF frame
      <4>6. Dealt(RowOf(rows[i], frame), d[i])
        BY <3>1, <4>2, <4>4, <4>5, RowDealt
      <4> QED
        BY <4>3, <4>6
    <3> QED
      BY <3>2, <3>3
  <2>4. /\ \A i \in DOMAIN feed.meta : feed.meta[i] = d[i]
        /\ Working => d[job.id].sizeScu = job.qty /\ d[job.id].price = job.price
    BY <2>1 DEF DealtAs
  <2>5. DealtAs(d)'
    BY <1>2, <2>2, <2>3, <2>4 DEF DealtAs, JobsIn, Working
  <2> QED
    BY <2>5
<1> QED
  BY <1>3, <1>4, <1>5 DEF FeedInv

(* Reading the wire, its frames move up by one. *)
LEMMA Shifted ==
  ASSUME NEW w \in Seq(Frames), w # <<>>
  PROVE  /\ Tail(w) \in Seq(Frames) /\ Head(w) = w[1] /\ 1 \in DOMAIN w
         /\ \A k \in DOMAIN Tail(w) : k \in Nat /\ k + 1 \in DOMAIN w /\ Tail(w)[k] = w[k + 1]
         /\ \A k \in DOMAIN w : k \in Nat /\ (k # 1 => k - 1 \in DOMAIN Tail(w) /\ Tail(w)[k - 1] = w[k])
<1>1. /\ Tail(w) \in Seq(Frames) /\ Head(w) = w[1] /\ Len(Tail(w)) = Len(w) - 1
      /\ \A k \in 1 .. Len(Tail(w)) : Tail(w)[k] = w[k + 1]
  BY HeadTailProperties
<1>2. Len(w) \in Nat /\ Len(w) # 0 /\ DOMAIN w = 1 .. Len(w) /\ DOMAIN Tail(w) = 1 .. Len(Tail(w))
  BY <1>1, EmptySeq
<1>3. ASSUME NEW k \in 1 .. Len(Tail(w))
      PROVE  k \in Nat /\ k + 1 \in 1 .. Len(w) /\ Tail(w)[k] = w[k + 1]
  BY <1>1, <1>2
<1>4. ASSUME NEW k \in 1 .. Len(w), k # 1
      PROVE  k - 1 \in 1 .. Len(Tail(w)) /\ Tail(w)[k - 1] = w[k]
  <2>1. k - 1 \in 1 .. Len(Tail(w)) /\ (k - 1) + 1 = k
    BY <1>1, <1>2, <1>4
  <2> QED
    BY <1>1, <2>1
<1> QED
  BY <1>1, <1>2, <1>3, <1>4

(* Opening, accepting and closing: no job's frame is read, and none is made up. *)
LEMMA LinkFeeds ==
  ASSUME FeedInv, PageInv, mode = "ws", Alone, Open \/ Accept \/ Subscribe \/ Close
  PROVE  FeedInv'
<1>1. FeedShape /\ Fresh /\ PageShape
  BY DEF FeedInv, PageInv
<1>2. rows' = rows /\ feed' = feed
  BY DEF Open, Accept, Subscribe, Close, Log, Alone
<1>3. wire \in Seq(Frames) /\ link \in {"down", "opening", "up"} /\ drops \in 0 .. Drops /\ feed \in Feeds
  BY <1>1 DEF FeedShape
<1>4. CASE wire' = wire /\ drops' = drops /\ link' \in {"opening", link} /\ page'.ticker = page.ticker
  <2>1. Fresh'
    <3>1. CASE link' = "opening"
      BY <3>1 DEF Fresh
    <3>2. CASE link' = link
      BY <1>1, <1>2, <1>4, <3>2 DEF Fresh, TickersIn, Ticker
    <3> QED
      BY <1>4, <3>1, <3>2
  <2>2. \A k \in JobsIn(wire') : \E l \in JobsIn(wire) : wire'[k] = wire[l]
    BY <1>4
  <2> QED
    BY <1>2, <1>3, <1>4, <2>1, <2>2, Delivered
<1>5. CASE Open
  <2>1. wire' = wire /\ drops' = drops /\ link' = "opening" /\ page'.ticker = page.ticker
    BY <1>1, <1>5 DEF Open, PageShape
  <2> QED
    BY <1>4, <2>1
<1>6. CASE Subscribe
  <2>1. wire' = wire /\ drops' = drops /\ link' = link /\ page'.ticker = page.ticker
    BY <1>1, <1>6 DEF Subscribe, PageShape
  <2> QED
    BY <1>4, <2>1
<1>7. CASE Accept
  <2> DEFINE hello == [t |-> "hello"]
             tick == Ticker(feed)
  <2>1. wire' = <<hello, tick>> /\ link' = "up" /\ drops' = drops
    BY <1>7 DEF Accept, OnConnection
  <2>2. hello \in Frames /\ hello.t = "hello" /\ tick \in Frames /\ tick.t = "ticker"
    BY <1>3, Resting, TickerTyped DEF Frames
  <2>3. tick = Ticker(feed')
    BY <1>2
  <2> HIDE DEF hello, tick
  <2>4. /\ wire' \in Seq(Frames) /\ DOMAIN wire' = {1, 2} /\ wire'[1] = hello /\ wire'[2] = tick
    BY <2>1, <2>2
  <2>5. JobsIn(wire') = {} /\ TickersIn(wire') = {2}
    BY <2>2, <2>4 DEF JobsIn, TickersIn
  <2>6. \E k \in TickersIn(wire') : wire'[k] = Ticker(feed') /\ \A l \in TickersIn(wire') : l <= k
    BY <2>3, <2>4, <2>5
  <2>7. Fresh'
    BY <2>6 DEF Fresh, TickersIn
  <2> QED
    BY <1>2, <1>3, <2>1, <2>4, <2>5, <2>7, Delivered
<1>8. CASE Close
  <2>1. /\ wire' = <<>> /\ link' = "down"
        /\ drops' = drops \/ (drops' = drops + 1 /\ drops < Drops)
    BY <1>8 DEF Close
  <2>2. drops' \in 0 .. Drops
    BY <1>3, <2>1, Numbers
  <2>3. wire' \in Seq(Frames) /\ JobsIn(wire') = {}
    BY <2>1 DEF JobsIn
  <2>4. Fresh'
    BY <2>1 DEF Fresh
  <2> QED
    BY <1>2, <2>1, <2>2, <2>3, <2>4, Delivered
<1> QED
  BY <1>5, <1>6, <1>7, <1>8

(* Reading a frame. *)
LEMMA ReceiveFeeds ==
  ASSUME FeedInv, PageInv, mode = "ws", Alone, Receive
  PROVE  FeedInv'
<1> DEFINE frame == Head(wire)
           shown == IF frame.t = "ticker" /\ page.subscribed THEN frame ELSE page.ticker
<1>1. FeedShape /\ Fresh /\ PageShape /\ wire \in Seq(Frames)
  BY DEF FeedInv, PageInv, FeedShape
<1>2. /\ link = "up" /\ link' = "up" /\ wire # <<>> /\ wire' = Tail(wire) /\ drops' = drops
      /\ feed' = feed /\ drops \in 0 .. Drops
      /\ \/ frame.t = "job" /\ rows' = [rows EXCEPT ![frame.id] = RowOf(@, frame)]
         \/ frame.t # "job" /\ rows' = rows
  BY <1>1 DEF Receive, OnJob, Log, Alone, FeedShape
<1>3. page'.ticker = shown
  <2>1. page' = [page EXCEPT !.hello = @ \/ frame.t = "hello", !.ticker = shown]
    BY <1>1 DEF Receive, PageShape
  <2> HIDE DEF shown
  <2> QED
    BY <1>1, <2>1 DEF PageShape
<1>4. /\ wire' \in Seq(Frames) /\ frame = wire[1] /\ 1 \in DOMAIN wire
      /\ \A k \in DOMAIN wire' : k \in Nat /\ k + 1 \in DOMAIN wire /\ wire'[k] = wire[k + 1]
      /\ \A k \in DOMAIN wire : k \in Nat /\ (k # 1 => k - 1 \in DOMAIN wire' /\ wire'[k - 1] = wire[k])
  BY <1>1, <1>2, Shifted
<1>5. \A k \in JobsIn(wire') : \E l \in JobsIn(wire) : wire'[k] = wire[l]
  BY <1>4 DEF JobsIn
<1>6. \/ rows' = rows
      \/ \E l \in JobsIn(wire) : rows' = [rows EXCEPT ![wire[l].id] = RowOf(@, wire[l])]
  BY <1>2, <1>4 DEF JobsIn
<1>7. Fresh'
  <2>1. \A k \in TickersIn(wire') : k \in Nat /\ k + 1 \in TickersIn(wire)
    BY <1>4 DEF TickersIn
  <2>2. CASE TickersIn(wire) = {}
    <3>1. TickersIn(wire') = {} /\ frame.t # "ticker"
      BY <1>4, <2>1, <2>2 DEF TickersIn
    <3>2. page.ticker # <<>> => page.ticker = Ticker(feed)
      BY <1>1, <1>2, <2>2 DEF Fresh
    <3> QED
      BY <1>2, <1>3, <3>1, <3>2 DEF Fresh, TickersIn
  <2>3. CASE TickersIn(wire) # {}
    <3>1. PICK k \in TickersIn(wire) : wire[k] = Ticker(feed) /\ \A l \in TickersIn(wire) : l <= k
      BY <1>1, <1>2, <2>3 DEF Fresh
    <3>2. k \in DOMAIN wire /\ k \in Nat /\ wire[k].t = "ticker"
      BY <1>4, <3>1 DEF TickersIn
    <3>3. CASE k = 1
      <4>1. TickersIn(wire') = {}
        <5> SUFFICES ASSUME NEW l \in TickersIn(wire') PROVE FALSE
          OBVIOUS
        <5>1. l \in Nat /\ l + 1 <= 1 /\ l \in DOMAIN wire'
          BY <2>1, <3>1, <3>3 DEF TickersIn
        <5>2. l \in 1 .. Len(wire')
          BY <1>4, <5>1
        <5> QED
          BY <5>1, <5>2
      <4>2. page'.ticker # <<>> => page'.ticker = Ticker(feed')
        BY <1>1, <1>2, <1>3, <1>4, <3>1, <3>2, <3>3 DEF PageShape
      <4> QED
        BY <4>1, <4>2 DEF Fresh, TickersIn
    <3>4. CASE k # 1
      <4>1. k - 1 \in TickersIn(wire') /\ wire'[k - 1] = Ticker(feed')
        BY <1>2, <1>4, <3>1, <3>2, <3>4 DEF TickersIn
      <4>2. ASSUME NEW l \in TickersIn(wire') PROVE l <= k - 1
        <5>1. l \in Nat /\ l + 1 <= k
          BY <2>1, <3>1
        <5> QED
          BY <3>2, <5>1
      <4>3. \E x \in TickersIn(wire') : wire'[x] = Ticker(feed') /\ \A l \in TickersIn(wire') : l <= x
        BY <4>1, <4>2
      <4> QED
        BY <4>3 DEF Fresh, TickersIn
    <3> QED
      BY <3>3, <3>4
  <2> QED
    BY <2>2, <2>3
<1> HIDE DEF frame, shown
<1> QED
  BY <1>2, <1>4, <1>5, <1>6, <1>7, Delivered

(* A record of the page with another ticker, or another state of its connection. *)
LEMMA LinkPage ==
  ASSUME FeedInv, PageInv, mode = "ws", Alone, Open \/ Accept \/ Subscribe \/ Close \/ Receive
  PROVE  PageInv'
<1>1. FeedShape /\ PageShape /\ Past /\ OutcomesAreTrue /\ WireIsTrue /\ wire \in Seq(Frames)
  BY DEF FeedInv, PageInv, FeedShape
<1>2. UNCHANGED <<mode, ended, jobs, wallet, poll, fetches, result>>
  BY DEF Open, Accept, Subscribe, Close, Receive, Rest, Alone
<1>3. \A i, state : Reached(i, state)' <=> Reached(i, state)
  BY <1>2 DEF Reached
<1> DEFINE Pages == [status : {"connecting", "connected", "disconnected"}, hello : BOOLEAN,
                     subscribed : BOOLEAN, timer : BOOLEAN, ticker : {<<>>} \cup Frames]
<1>4. page' \in Pages /\ (page'.ticker # <<>> => page'.subscribed)
  <2>1. page \in Pages /\ (page.ticker # <<>> => page.subscribed)
    BY <1>1 DEF PageShape
  <2>2. CASE Open
    BY <2>1, <2>2 DEF Open
  <2>3. CASE Accept
    BY <2>1, <2>3 DEF Accept
  <2>4. CASE Subscribe
    BY <2>1, <2>4 DEF Subscribe
  <2>5. CASE Close
    BY <2>1, <2>5 DEF Close
  <2>6. CASE Receive
    <3> DEFINE frame == Head(wire)
               shown == IF frame.t = "ticker" /\ page.subscribed THEN frame ELSE page.ticker
               greeted == page.hello \/ frame.t = "hello"
    <3>1. page' = [page EXCEPT !.hello = greeted, !.ticker = shown]
      BY <2>1, <2>6 DEF Receive
    <3>2. frame \in Frames
      <4>1. frame = wire[1] /\ 1 \in DOMAIN wire
        BY <1>1, <2>6, Shifted DEF Receive
      <4> QED
        BY <1>1, <4>1
    <3>3. /\ shown \in {<<>>} \cup Frames /\ greeted \in BOOLEAN
          /\ shown # <<>> => page.subscribed
      BY <2>1, <3>2
    <3> HIDE DEF frame, shown, greeted
    <3> QED
      BY <2>1, <3>1, <3>3
  <2> QED
    BY <2>2, <2>3, <2>4, <2>5, <2>6
<1>5. CASE UNCHANGED Log
  <2>1. PageShape' /\ Past'
    BY <1>1, <1>2, <1>4, <1>5 DEF PageShape, Past, Log
  <2>2. OutcomesAreTrue'
    BY <1>1, <1>2, <1>3, <1>5 DEF OutcomesAreTrue, Log
  <2> QED
    BY <2>1, <2>2 DEF PageInv
<1>6. CASE ~UNCHANGED Log
  <2> DEFINE frame == Head(wire)
             id == frame.id
  <2>1. frame.t = "job" /\ OnJob(frame) /\ wire # <<>>
    BY <1>6 DEF Open, Accept, Subscribe, Close, Receive
  <2>2. frame = wire[1] /\ 1 \in JobsIn(wire)
    BY <1>1, <2>1, Shifted DEF JobsIn
  <2>3. /\ id \in JobIds /\ frame.state \in RowStates \ {"none", "Created"}
        /\ frame.sizeScu \in Nat /\ frame.price \in Nat /\ frame.money \in Sums
        /\ OnLedger(ended[id], frame.state)
    BY <1>1, <2>2, OnWire DEF WireIsTrue
  <2> HIDE DEF frame
  <2>4. /\ rows' = [rows EXCEPT ![id] = RowOf(rows[id], frame)]
        /\ orders' = [orders EXCEPT ![id] = IF @ # "none" /\ frame.state # "Created" THEN "filled" ELSE @]
        /\ activity' = Logged(activity, id, frame.state)
    BY <1>1, <2>1, <2>3 DEF OnJob, PageShape
  <2> HIDE DEF id
  <2>5. /\ rows \in [JobIds -> Row] /\ activity \in Logs
        /\ orders \in [{0} \cup JobIds -> {"none", "open", "filled", "canceled"}]
    BY <1>1 DEF PageShape
  <2>6. RowOf(rows[id], frame) \in Row /\ RowOf(rows[id], frame).state = frame.state
    BY <2>3, <2>5, RowTyped
  <2>7. /\ activity' \in Logs
        /\ \A i \in {0} \cup JobIds :
             \/ activity'[i] = activity[i]
             \/ i = id /\ frame.state = "Slashed" /\ activity'[i].status = "failed"
             \/ i = id /\ frame.state \in {"Settled", "Refunded"} /\ activity'[i].status = "settled"
    BY <2>3, <2>4, <2>5, LogTyped
  <2>8. rows' \in [JobIds -> Row] /\ rows'[id].state = frame.state
        /\ \A i \in JobIds : i # id => rows'[i] = rows[i]
    BY <2>3, <2>4, <2>5, <2>6
  <2>9. orders' \in [{0} \cup JobIds -> {"none", "open", "filled", "canceled"}]
    BY <2>4, <2>5
  <2>10. \A i \in JobIds : rows'[i].state = "none" => rows'[i] = NoRow
    BY <1>1, <2>3, <2>8 DEF PageShape
  <2>11. PageShape'
    BY <1>1, <1>2, <1>4, <2>7, <2>8, <2>9, <2>10 DEF PageShape
  <2>12. Past'
    BY <1>1, <1>2 DEF Past
  <2>13. ASSUME NEW i \in JobIds
         PROVE  /\ rows'[i].state # "none" => Reached(i, rows'[i].state)
                /\ activity'[i].status = "failed" => Reached(i, "Slashed")
                /\ activity'[i].status = "settled" => Reached(i, "Settled") \/ Reached(i, "Refunded")
    <3>1. /\ rows[i].state # "none" => Reached(i, rows[i].state)
          /\ activity[i].status = "failed" => Reached(i, "Slashed")
          /\ activity[i].status = "settled" => Reached(i, "Settled") \/ Reached(i, "Refunded")
      BY <1>1 DEF OutcomesAreTrue
    <3>2. i = id => Reached(i, frame.state)
      BY <2>3, ReachedIs
    <3> QED
      BY <2>7, <2>8, <3>1, <3>2
  <2>14. OutcomesAreTrue'
    BY <1>2, <1>3, <2>13 DEF OutcomesAreTrue
  <2> QED
    BY <2>11, <2>12, <2>14 DEF PageInv
<1> QED
  BY <1>5, <1>6

-----------------------------------------------------------------------------
(* The page with a simulator *)

(* Without a feed to serve the harness stands still. *)
LEMMA ElsewhereFeeds ==
  ASSUME FeedInv, mode # "ws", UNCHANGED <<harness, mode, page>>
  PROVE  FeedInv'
<1>1. FeedShape /\ Tallied /\ WireIsTrue /\ Fresh
  BY DEF FeedInv
<1>2. UNCHANGED <<chain, pc, job, ended, tally, feed, link, wire, drops>>
  BY DEF harness
<1>3. FeedShape' /\ Tallied' /\ WireIsTrue' /\ Fresh'
  BY <1>1, <1>2 DEF FeedShape, Tallied, WireIsTrue, Fresh, JobsIn, TickersIn, Ticker, Working
<1>4. AsDealt'
  BY DEF AsDealt
<1> QED
  BY <1>3, <1>4 DEF FeedInv

(* A simulated job moves, and the page is told. *)
LEMMA JobMoves ==
  ASSUME PageInv, mode = "mock", mode' = mode, UNCHANGED <<page, poll, wallet>>,
         NEW i \in JobIds, NEW state \in RowStates \ {"none"}, NEW fault \in {"none", "slash", "refund"},
         jobs' = Job(i, state, fault), OnJob(Frame(i, state))
  PROVE  PageInv'
<1> DEFINE frame == Frame(i, state)
           been == jobs[i].been \cup {state}
           moved == [jobs[i] EXCEPT !.state = state, !.been = been, !.fault = fault]
           Work == [been : SUBSET RowStates, state : RowStates, fault : {"none", "slash", "refund"},
                    blob : {"none", "attested", "other"}]
<1>1. PageShape /\ Past /\ OutcomesAreTrue
  BY DEF PageInv
<1>2. /\ rows \in [JobIds -> Row] /\ activity \in Logs /\ jobs \in [JobIds -> Work]
      /\ orders \in [{0} \cup JobIds -> {"none", "open", "filled", "canceled"}] /\ jobs[i] \in Work
      /\ \A x \in JobIds : rows[x].state = "none" => rows[x] = NoRow
  BY <1>1 DEF PageShape, Jobs
<1>3. been \in SUBSET RowStates
  BY <1>2
<1>4. moved \in Work /\ moved.state = state /\ moved.been = been
  <2> HIDE DEF been
  <2> QED
    BY <1>2, <1>3
<1>5. jobs' = [jobs EXCEPT ![i] = moved]
  BY <1>2 DEF Job
<1>6. /\ frame.id = i /\ frame.state = state /\ frame.sizeScu = 1 /\ frame.price = 1
      /\ frame.money \in Sums
  <2> DEFINE money == CASE state = "Settled"  -> [payout |-> 1]
                        [] state = "Refunded" -> [refund |-> 1]
                        [] state = "Slashed"  -> [slash |-> 1, refund |-> 1]
                        [] OTHER -> <<>>
  <2>1. money \in Sums
    <3>1. <<>> \in Sums /\ [payout |-> 1] \in Sums /\ [refund |-> 1] \in Sums
          /\ [slash |-> 1, refund |-> 1] \in Sums
      BY SumsTyped
    <3> QED
      BY <3>1
  <2> HIDE DEF money
  <2>2. frame = [id |-> i, state |-> state, sizeScu |-> 1, price |-> 1, money |-> money]
    BY DEF Frame, money
  <2> HIDE DEF frame
  <2> QED
    BY <2>1, <2>2
<1> HIDE DEF frame, moved, Work
<1>7. /\ rows' = [rows EXCEPT ![i] = RowOf(rows[i], frame)]
      /\ orders' = [orders EXCEPT ![i] = IF @ # "none" /\ state # "Created" THEN "filled" ELSE @]
      /\ activity' = Logged(activity, i, state)
  BY <1>2, <1>6 DEF OnJob, frame
<1>8. RowOf(rows[i], frame) \in Row /\ RowOf(rows[i], frame).state = state
  BY <1>2, <1>6, RowTyped
<1>9. /\ activity' \in Logs
      /\ \A x \in {0} \cup JobIds :
           \/ activity'[x] = activity[x]
           \/ x = i /\ state = "Slashed" /\ activity'[x].status = "failed"
           \/ x = i /\ state \in {"Settled", "Refunded"} /\ activity'[x].status = "settled"
  BY <1>2, <1>7, LogTyped
<1>10. /\ rows' \in [JobIds -> Row] /\ rows'[i].state = state
       /\ \A x \in JobIds : x # i => rows'[x] = rows[x]
  BY <1>2, <1>7, <1>8
<1>11. orders' \in [{0} \cup JobIds -> {"none", "open", "filled", "canceled"}]
  BY <1>2, <1>7
<1>12. /\ jobs' \in [JobIds -> Work] /\ jobs'[i] = moved
       /\ \A x \in JobIds : x # i => jobs'[x] = jobs[x]
  BY <1>2, <1>4, <1>5
<1>13. \A x \in JobIds : rows'[x].state = "none" => rows'[x] = NoRow
  BY <1>2, <1>10
<1>14. PageShape'
  BY <1>1, <1>9, <1>10, <1>11, <1>12, <1>13 DEF PageShape, Jobs, Work
<1>15. Past'
  <2>1. \A x \in JobIds : jobs'[x].state = "none" \/ jobs'[x].state \in jobs'[x].been
    BY <1>1, <1>4, <1>12 DEF Past
  <2> QED
    BY <2>1 DEF Past
<1>16. /\ \A x \in JobIds : \A s : Reached(x, s) => s \in jobs'[x].been
       /\ state \in jobs'[i].been
  BY <1>4, <1>12 DEF Reached
<1>17. ASSUME NEW x \in JobIds
       PROVE  /\ rows'[x].state # "none" => rows'[x].state \in jobs'[x].been
              /\ activity'[x].status = "failed" => "Slashed" \in jobs'[x].been
              /\ activity'[x].status = "settled"
                   => "Settled" \in jobs'[x].been \/ "Refunded" \in jobs'[x].been
  <2>1. /\ rows[x].state # "none" => Reached(x, rows[x].state)
        /\ activity[x].status = "failed" => Reached(x, "Slashed")
        /\ activity[x].status = "settled" => Reached(x, "Settled") \/ Reached(x, "Refunded")
    BY <1>1 DEF OutcomesAreTrue
  <2> QED
    BY <1>9, <1>10, <1>16, <2>1
<1>18. OutcomesAreTrue'
  BY <1>17 DEF OutcomesAreTrue, Reached
<1> QED
  BY <1>14, <1>15, <1>18 DEF PageInv

(* What a simulated job turns into next. *)
LEMMA NextStateTyped ==
  ASSUME NEW j, j.state \in RowStates \ {"none", "Settled", "Slashed", "Refunded"}
  PROVE  NextState(j) \in RowStates \ {"none"}
<1>1. CASE j.state = "Expired"
  BY <1>1 DEF NextState, RowStates
<1>2. CASE j.state # "Expired"
  <2> DEFINE P(k) == Happy[k] = j.state
             m == CHOOSE k \in DOMAIN Happy : P(k)
  <2>1. /\ DOMAIN Happy = 1 .. 8
        /\ Happy[1] = "Created" /\ Happy[2] = "Matched" /\ Happy[3] = "Escrowed"
        /\ Happy[4] = "Dispatched" /\ Happy[5] = "Executing" /\ Happy[6] = "Attested"
        /\ Happy[7] = "Verified" /\ Happy[8] = "Settled"
    BY DEF Happy
  <2>2. \E k \in DOMAIN Happy : P(k)
    BY <1>2, <2>1 DEF RowStates
  <2>3. m \in DOMAIN Happy /\ Happy[m] = j.state
    <3> HIDE DEF P
    <3>1. m \in DOMAIN Happy /\ P(m)
      BY <2>2
    <3> QED
      BY <3>1 DEF P
  <2>4. NextState(j) \in {"Expired", "Slashed", Happy[m + 1]}
    BY <1>2 DEF NextState
  <2> HIDE DEF m
  <2>5. m \in 1 .. 7
    BY <2>1, <2>3
  <2>6. m \in {1, 2, 3, 4, 5, 6, 7}
    BY <2>5
  <2>7. Happy[m + 1] \in RowStates \ {"none"}
    BY <2>1, <2>6 DEF RowStates
  <2> QED
    BY <2>4, <2>7 DEF RowStates
<1> QED
  BY <1>1, <1>2

(* The wallet alone moves, perhaps with an entry for a trade. *)
LEMMA WalletMoves ==
  ASSUME PageInv, mode = "mock", mode' = mode, UNCHANGED <<page, poll, jobs, rows>>, wallet' \in Wallets,
         UNCHANGED Log \/ Placed(0, "trade")
  PROVE  PageInv'
<1>1. PageShape /\ Past /\ OutcomesAreTrue /\ 0 \notin JobIds
  BY Actors DEF PageInv
<1>2. /\ orders' \in [{0} \cup JobIds -> {"none", "open", "filled", "canceled"}] /\ activity' \in Logs
      /\ \A i \in JobIds : activity'[i] = activity[i]
  <2>1. /\ orders \in [{0} \cup JobIds -> {"none", "open", "filled", "canceled"}] /\ activity \in Logs
    BY <1>1 DEF PageShape
  <2>2. CASE UNCHANGED Log
    BY <2>1, <2>2 DEF Log
  <2>3. CASE Placed(0, "trade")
    BY <1>1, <2>1, <2>3 DEF Placed, Logs
  <2> QED
    BY <2>2, <2>3
<1>3. PageShape' /\ Past'
  BY <1>1, <1>2 DEF PageShape, Past, Wallets
<1>4. OutcomesAreTrue'
  BY <1>1, <1>2 DEF OutcomesAreTrue, Reached
<1> QED
  BY <1>3, <1>4 DEF PageInv

(* A simulated order that is run puts a job and a row in place. *)
LEMMA RunMoves ==
  ASSUME PageInv, mode = "mock", mode' = mode, UNCHANGED <<page, poll>>, wallet' \in Wallets,
         NEW i \in JobIds, InjectOrder(i), Placed(i, "run")
  PROVE  PageInv'
<1> DEFINE frame == Frame(i, "Created")
           been == jobs[i].been \cup {"Created"}
           moved == [jobs[i] EXCEPT !.state = "Created", !.been = been, !.fault = "none"]
           Work == [been : SUBSET RowStates, state : RowStates, fault : {"none", "slash", "refund"},
                    blob : {"none", "attested", "other"}]
<1>1. PageShape /\ Past /\ OutcomesAreTrue
  BY DEF PageInv
<1>2. /\ rows \in [JobIds -> Row] /\ activity \in Logs /\ jobs \in [JobIds -> Work]
      /\ orders \in [{0} \cup JobIds -> {"none", "open", "filled", "canceled"}] /\ jobs[i] \in Work
      /\ \A x \in JobIds : rows[x].state = "none" => rows[x] = NoRow
  BY <1>1 DEF PageShape, Jobs
<1>3. been \in SUBSET RowStates /\ "Created" \in RowStates
  BY <1>2 DEF RowStates
<1>4. moved \in Work /\ moved.state = "Created" /\ moved.been = been
  <2> HIDE DEF been
  <2> QED
    BY <1>2, <1>3
<1>5. jobs' = [jobs EXCEPT ![i] = moved]
  BY <1>2 DEF Job, InjectOrder
<1>6. /\ frame.id = i /\ frame.state = "Created" /\ frame.sizeScu = 1 /\ frame.price = 1
      /\ frame.money \in Sums
  BY SumsTyped DEF Frame
<1> HIDE DEF frame, moved, Work
<1>7. rows' = [rows EXCEPT ![i] = RowOf(rows[i], frame)]
  BY <1>2 DEF InjectOrder, frame
<1>8. RowOf(rows[i], frame) \in Row /\ RowOf(rows[i], frame).state = "Created"
  BY <1>2, <1>3, <1>6, RowTyped
<1>9. /\ orders' \in [{0} \cup JobIds -> {"none", "open", "filled", "canceled"}] /\ activity' \in Logs
      /\ activity'[i].status = "submitted" /\ \A x \in JobIds : x # i => activity'[x] = activity[x]
  BY <1>2 DEF Placed, Logs
<1>10. /\ rows' \in [JobIds -> Row] /\ rows'[i].state = "Created"
       /\ \A x \in JobIds : x # i => rows'[x] = rows[x]
  BY <1>2, <1>7, <1>8
<1>11. /\ jobs' \in [JobIds -> Work] /\ jobs'[i] = moved
       /\ \A x \in JobIds : x # i => jobs'[x] = jobs[x]
  BY <1>2, <1>4, <1>5
<1>12. \A x \in JobIds : rows'[x].state = "none" => rows'[x] = NoRow
  BY <1>2, <1>10
<1>13. PageShape'
  BY <1>1, <1>9, <1>10, <1>11, <1>12 DEF PageShape, Jobs, Work, Wallets
<1>14. Past'
  <2>1. \A x \in JobIds : jobs'[x].state = "none" \/ jobs'[x].state \in jobs'[x].been
    BY <1>1, <1>4, <1>11 DEF Past
  <2> QED
    BY <2>1 DEF Past
<1>15. /\ \A x \in JobIds : \A s : Reached(x, s) => s \in jobs'[x].been
       /\ "Created" \in jobs'[i].been
  BY <1>4, <1>11 DEF Reached
<1>16. ASSUME NEW x \in JobIds
       PROVE  /\ rows'[x].state # "none" => rows'[x].state \in jobs'[x].been
              /\ activity'[x].status = "failed" => "Slashed" \in jobs'[x].been
              /\ activity'[x].status = "settled"
                   => "Settled" \in jobs'[x].been \/ "Refunded" \in jobs'[x].been
  <2>1. /\ rows[x].state # "none" => Reached(x, rows[x].state)
        /\ activity[x].status = "failed" => Reached(x, "Slashed")
        /\ activity[x].status = "settled" => Reached(x, "Settled") \/ Reached(x, "Refunded")
    BY <1>1 DEF OutcomesAreTrue
  <2> QED
    BY <1>9, <1>10, <1>15, <2>1
<1>17. OutcomesAreTrue'
  BY <1>16 DEF OutcomesAreTrue, Reached
<1> QED
  BY <1>13, <1>14, <1>17 DEF PageInv

(* Whatever the simulator and its wallet do. *)
LEMMA MockPage ==
  ASSUME PageInv, MockNext, mode' = mode
  PROVE  PageInv'
<1>1. /\ PageShape /\ wallet \in Wallets /\ mode = "mock" /\ mode' = mode
      /\ UNCHANGED <<page, poll, fetches, result>>
  BY DEF PageInv, MockNext, PageShape, Wallets
<1> DEFINE c == wallet.credits
           u == wallet.usdc
           h == wallet.have
<1>2. c \in Nat /\ u \in Nat /\ h \in Nat
  BY <1>1 DEF Wallets
<1>3. CASE SpawnJob
  <2>1. PICK i \in Free, fault \in {"none", "slash", "refund"} :
          jobs' = Job(i, "Created", fault) /\ OnJob(Frame(i, "Created"))
    BY <1>3 DEF SpawnJob
  <2>2. wallet' = wallet /\ i \in JobIds /\ "Created" \in RowStates \ {"none"}
    BY <1>3 DEF SpawnJob, Free, RowStates
  <2> QED
    BY <1>1, <2>1, <2>2, JobMoves
<1>4. ASSUME NEW i \in JobIds, TickJob(i)
      PROVE  PageInv'
  <2> DEFINE state == NextState(jobs[i])
             fault == jobs[i].fault
  <2>1. wallet' = wallet /\ jobs' = Job(i, state, fault) /\ OnJob(Frame(i, state))
    BY <1>4 DEF TickJob
  <2>2. /\ jobs[i].state \in RowStates \ {"none", "Settled", "Slashed", "Refunded"}
        /\ fault \in {"none", "slash", "refund"}
    BY <1>1, <1>4 DEF TickJob, PageShape, Jobs
  <2>3. state \in RowStates \ {"none"}
    BY <2>2, NextStateTyped
  <2> HIDE DEF state, fault
  <2> QED
    BY <1>1, <2>1, <2>2, <2>3, JobMoves
<1>5. CASE MockFund
  <2>1. c + 2 \in Nat /\ u + 2 \in Nat
    BY <1>2
  <2>2. wallet' = [wallet EXCEPT !.usdc = u + 2, !.credits = c + 2]
    BY <1>1, <1>5 DEF MockFund, Wallets
  <2>3. wallet' \in Wallets
    BY <1>1, <2>1, <2>2 DEF Wallets
  <2>4. jobs' = jobs /\ UNCHANGED Log /\ rows' = rows
    BY <1>5 DEF MockFund, Log
  <2> QED
    BY <1>1, <2>3, <2>4, WalletMoves
<1>6. CASE MockPlace
  <2>1. PICK busy \in {"buy", "sell", "run", "buyAndRun"} :
          wallet' = [wallet EXCEPT !.busy = busy, !.have = c]
    BY <1>6 DEF MockPlace
  <2>2. jobs' = jobs /\ UNCHANGED Log /\ rows' = rows
    BY <1>6 DEF MockPlace, Log
  <2>3. wallet' \in Wallets
    BY <1>1, <1>2, <2>1 DEF Wallets
  <2> QED
    BY <1>1, <2>2, <2>3, WalletMoves
<1>7. CASE MockRefused
  <2>1. wallet' \in Wallets
    BY <1>1, <1>7 DEF MockRefused, Idle, Wallets
  <2>2. jobs' = jobs /\ UNCHANGED Log /\ rows' = rows
    BY <1>7 DEF MockRefused, Log
  <2> QED
    BY <1>1, <2>1, <2>2, WalletMoves
<1>8. CASE MockTrade
  <2>1. \/ u >= 1 /\ wallet' = [wallet EXCEPT !.busy = "none", !.have = 0, !.usdc = u - 1, !.credits = c + 1]
        \/ h >= 1 /\ wallet' = [wallet EXCEPT !.busy = "none", !.have = 0, !.usdc = u + 1, !.credits = h - 1]
    BY <1>1, <1>8 DEF MockTrade, Idle, Covers, Wallets
  <2>2. /\ u >= 1 => u - 1 \in Nat
        /\ h >= 1 => h - 1 \in Nat
        /\ c + 1 \in Nat /\ u + 1 \in Nat
    BY <1>2
  <2>3. ASSUME NEW x \in Nat, NEW y \in Nat,
               wallet' = [wallet EXCEPT !.busy = "none", !.have = 0, !.usdc = x, !.credits = y]
        PROVE  wallet' \in Wallets
    BY <1>1, <2>3 DEF Wallets
  <2>4. jobs' = jobs /\ rows' = rows /\ Placed(0, "trade")
    BY <1>8 DEF MockTrade
  <2>5. wallet' \in Wallets
    <3> HIDE DEF c, u, h
    <3> QED
      BY <2>1, <2>2, <2>3
  <2> QED
    BY <1>1, <2>4, <2>5, WalletMoves
<1>9. CASE MockBought
  <2>1. /\ u >= 1
        /\ wallet' = [wallet EXCEPT !.usdc = u - 1, !.credits = c + 1, !.busy = "run", !.have = c + 1]
    BY <1>1, <1>9 DEF MockBought, Covers, Wallets
  <2>2. u - 1 \in Nat /\ c + 1 \in Nat
    BY <1>2, <2>1
  <2>3. wallet' \in Wallets
    BY <1>1, <2>1, <2>2 DEF Wallets
  <2>4. jobs' = jobs /\ UNCHANGED Log /\ rows' = rows
    BY <1>9 DEF MockBought, Log
  <2> QED
    BY <1>1, <2>3, <2>4, WalletMoves
<1>10. CASE MockRun
  <2>1. /\ h >= 1
        /\ wallet' = [wallet EXCEPT !.busy = "none", !.have = 0, !.credits = h - 1]
    BY <1>1, <1>10 DEF MockRun, Idle, Covers, Wallets
  <2>2. h - 1 \in Nat
    BY <1>2, <2>1
  <2>3. wallet' \in Wallets
    BY <1>1, <2>1, <2>2 DEF Wallets
  <2>4. PICK i \in JobIds : InjectOrder(i) /\ Placed(i, "run")
    BY <1>10 DEF MockRun, Free
  <2> QED
    BY <1>1, <2>3, <2>4, RunMoves
<1> QED
  BY <1>3, <1>4, <1>5, <1>6, <1>7, <1>8, <1>9, <1>10 DEF MockNext

(* An order is canceled: nothing the page reports of its job changes. *)
LEMMA CancelPage ==
  ASSUME PageInv, mode' = mode, UNCHANGED ended, NEW i \in DOMAIN orders, CancelOrder(i)
  PROVE  PageInv'
<1>1. PageShape /\ Past /\ OutcomesAreTrue
  BY DEF PageInv
<1>2. orders' \in [{0} \cup JobIds -> {"none", "open", "filled", "canceled"}]
  BY <1>1 DEF PageShape, CancelOrder
<1>3. UNCHANGED <<page, rows, activity, jobs, wallet, poll>>
  BY DEF CancelOrder
<1>4. PageShape' /\ Past' /\ OutcomesAreTrue'
  BY <1>1, <1>2, <1>3 DEF PageShape, Past, OutcomesAreTrue, Reached
<1> QED
  BY <1>4 DEF PageInv

-----------------------------------------------------------------------------
(* The page of the chain *)

(* What is left of a sequence when one element is taken out. *)
LEMMA TakenOut ==
  ASSUME NEW S, NEW s \in Seq(S), NEW k \in DOMAIN s
  PROVE  RemoveAt(s, k) \in Seq(S) /\ Len(RemoveAt(s, k)) = Len(s) - 1 /\ s # <<>> /\ s[k] \in S
<1>1. Len(s) \in Nat /\ k \in 1 .. Len(s) /\ DOMAIN s = 1 .. Len(s)
  OBVIOUS
<1>2. SubSeq(s, 1, k - 1) \in Seq(S) /\ SubSeq(s, k + 1, Len(s)) \in Seq(S)
  <2>1. \A i \in 1 .. k - 1 : s[i] \in S
    BY <1>1
  <2>2. \A i \in k + 1 .. Len(s) : s[i] \in S
    BY <1>1
  <2> QED
    BY <1>1, <2>1, <2>2, SubSeqProperties
<1>3. Len(SubSeq(s, 1, k - 1)) = k - 1 /\ Len(SubSeq(s, k + 1, Len(s))) = Len(s) - k
  BY <1>1, SubSeqProperties
<1>4. /\ SubSeq(s, 1, k - 1) \o SubSeq(s, k + 1, Len(s)) \in Seq(S)
      /\ Len(SubSeq(s, 1, k - 1) \o SubSeq(s, k + 1, Len(s))) = (k - 1) + (Len(s) - k)
  BY <1>2, <1>3, ConcatProperties
<1>5. (k - 1) + (Len(s) - k) = Len(s) - 1
  BY <1>1
<1>6. RemoveAt(s, k) = SubSeq(s, 1, k - 1) \o SubSeq(s, k + 1, Len(s))
  BY DEF RemoveAt
<1>7. s # <<>> /\ s[k] \in S
  BY <1>1
<1> QED
  BY <1>4, <1>5, <1>6, <1>7

(* The chain moves the job on. *)
LEMMA LiveMoves ==
  ASSUME PageInv, mode = "live", mode' = mode, LiveStep
  PROVE  PageInv'
<1>1. /\ PageShape /\ Past /\ OutcomesAreTrue
      /\ UNCHANGED <<page, rows, orders, activity, wallet, poll, fetches, result>>
  BY DEF PageInv, LiveStep, Log
<1> DEFINE Work == [been : SUBSET RowStates, state : RowStates, fault : {"none", "slash", "refund"},
                    blob : {"none", "attested", "other"}]
<1>2. PICK state \in {"Executing", "Slashed", "Verified", "Attested", "Settled"},
           blob \in {"none", "attested", "other"} :
        jobs' = [Job(1, state, "none") EXCEPT ![1].blob = blob]
  <2>1. jobs[1].blob \in {"none", "attested", "other"}
    BY <1>1, Actors DEF PageShape, Jobs
  <2> QED
    BY <2>1 DEF LiveStep
<1>3. jobs \in [JobIds -> Work] /\ jobs[1] \in Work /\ 1 \in JobIds
  BY <1>1, Actors DEF PageShape, Jobs
<1> DEFINE been == jobs[1].been \cup {state}
           moved == [jobs[1] EXCEPT !.state = state, !.been = been, !.fault = "none", !.blob = blob]
<1>4. been \in SUBSET RowStates /\ state \in RowStates /\ state \in LiveStates /\ state # "none"
  BY <1>3 DEF RowStates, LiveStates
<1>5. moved \in Work /\ moved.state = state /\ moved.been = been
  <2> HIDE DEF been
  <2> QED
    BY <1>3, <1>4
<1>6. jobs' = [jobs EXCEPT ![1] = moved]
  BY <1>2, <1>3 DEF Job
<1> HIDE DEF moved, Work
<1>7. jobs' \in [JobIds -> Work] /\ jobs'[1] = moved /\ \A x \in JobIds : x # 1 => jobs'[x] = jobs[x]
  BY <1>3, <1>5, <1>6
<1>8. PageShape'
  BY <1>1, <1>7 DEF PageShape, Jobs, Work
<1>9. \A x \in JobIds : jobs[x].been \subseteq jobs'[x].been
  BY <1>5, <1>7
<1>10. Past'
  <2>1. \A x \in JobIds : jobs'[x].state = "none" \/ jobs'[x].state \in jobs'[x].been
    BY <1>1, <1>5, <1>7 DEF Past
  <2>2. jobs'[1].state \in LiveStates /\ jobs'[1].state # "none" /\ jobs'[1].been \subseteq LiveStates
    BY <1>1, <1>4, <1>5, <1>7 DEF Past
  <2>3. /\ poll.on \/ poll.replies # <<>> => rows[1].state # "none"
        /\ \A k \in DOMAIN poll.replies : poll.replies[k] \in jobs[1].been
    BY <1>1 DEF Past
  <2> QED
    BY <1>1, <1>3, <1>9, <2>1, <2>2, <2>3 DEF Past
<1>11. OutcomesAreTrue'
  BY <1>1, <1>9 DEF OutcomesAreTrue, Reached
<1> QED
  BY <1>8, <1>10, <1>11 DEF PageInv

(* An order is run: its row, if it gets one, is where the job is. *)
LEMMA LiveRuns ==
  ASSUME PageInv, mode = "live", mode' = mode, RunTask
  PROVE  PageInv'
<1>1. /\ PageShape /\ Past /\ OutcomesAreTrue /\ 1 \in JobIds /\ 0 \notin JobIds
      /\ UNCHANGED <<page, fetches, result>>
      /\ jobs[1].state = "none" /\ jobs' = Job(1, "Dispatched", "none")
  BY Actors DEF PageInv, RunTask
<1> DEFINE Work == [been : SUBSET RowStates, state : RowStates, fault : {"none", "slash", "refund"},
                    blob : {"none", "attested", "other"}]
           u == wallet.usdc
           row == [state |-> "Dispatched", sizeScu |-> 1, price |-> 1, money |-> <<>>]
           been == jobs[1].been \cup {"Dispatched"}
           moved == [jobs[1] EXCEPT !.state = "Dispatched", !.been = been, !.fault = "none"]
<1>2. /\ jobs \in [JobIds -> Work] /\ jobs[1] \in Work /\ wallet \in Wallets /\ u \in Nat
      /\ rows \in [JobIds -> Row] /\ activity \in Logs
      /\ orders \in [{0} \cup JobIds -> {"none", "open", "filled", "canceled"}]
  BY <1>1 DEF PageShape, Jobs, Wallets
<1>3. /\ been \in SUBSET RowStates /\ "Dispatched" \in RowStates /\ "Dispatched" \in LiveStates
      /\ jobs[1].been \subseteq LiveStates
  BY <1>1, <1>2 DEF RowStates, LiveStates, Past
<1>4. moved \in Work /\ moved.state = "Dispatched" /\ moved.been = been
  <2> HIDE DEF been
  <2> QED
    BY <1>2, <1>3
<1>5. jobs' = [jobs EXCEPT ![1] = moved]
  BY <1>1, <1>2 DEF Job
<1>6. row \in Row /\ row.state = "Dispatched"
  BY <1>3, SumsTyped DEF Row
<1>7. wallet' \in Wallets
  <2>1. u >= 1 /\ wallet' = [wallet EXCEPT !.usdc = u - 1]
    BY <1>2 DEF RunTask, Wallets
  <2>2. u - 1 \in Nat
    BY <1>2, <2>1
  <2> HIDE DEF u
  <2> QED
    BY <1>2, <2>1, <2>2 DEF Wallets
<1>8. rows[1].state = "none" /\ ~poll.on /\ poll.replies = <<>>
  <2>1. poll.on \/ poll.replies # <<>> => rows[1].state # "none"
    BY <1>1 DEF Past
  <2>2. rows[1].state = "none"
    BY <1>1 DEF Past
  <2> QED
    BY <2>1, <2>2
<1>9. /\ orders' \in [{0} \cup JobIds -> {"none", "open", "filled", "canceled"}] /\ activity' \in Logs
      /\ \A x \in JobIds : activity'[x] = activity[x] \/ activity'[x].status = "submitted"
      /\ \/ rows' = [rows EXCEPT ![1] = row] /\ poll' = [poll EXCEPT !.on = TRUE]
         \/ rows' = rows /\ poll' = poll
  <2>1. ASSUME NEW x \in {0, 1}, Placed(x, "run")
        PROVE  /\ orders' \in [{0} \cup JobIds -> {"none", "open", "filled", "canceled"}]
               /\ activity' \in Logs
               /\ \A y \in JobIds : activity'[y] = activity[y] \/ activity'[y].status = "submitted"
    <3>1. x \in {0} \cup JobIds
      BY <1>1
    <3>2. activity' = [activity EXCEPT ![x] = [kind |-> "run", status |-> "submitted"]]
          /\ orders' = [orders EXCEPT ![x] = "open"]
      BY <2>1 DEF Placed
    <3> QED
      BY <1>2, <3>1, <3>2 DEF Logs
  <2>2. CASE rows' = [rows EXCEPT ![1] = row] /\ Placed(1, "run") /\ poll' = [poll EXCEPT !.on = TRUE]
    BY <2>1, <2>2
  <2>3. CASE Placed(0, "run") /\ UNCHANGED <<rows, poll>>
    BY <2>1, <2>3
  <2>4. CASE UNCHANGED <<Log, poll>>
    BY <1>2, <2>4 DEF Log
  <2> HIDE DEF row
  <2> QED
    BY <2>2, <2>3, <2>4 DEF RunTask, row
<1> HIDE DEF moved, Work, row
<1>10. /\ jobs' \in [JobIds -> Work] /\ jobs'[1] = moved
       /\ \A x \in JobIds : x # 1 => jobs'[x] = jobs[x]
  BY <1>1, <1>2, <1>4, <1>5
<1>11. /\ rows' \in [JobIds -> Row] /\ (poll'.on => rows'[1].state = "Dispatched")
       /\ \A x \in JobIds : rows'[x] = rows[x] \/ (x = 1 /\ rows'[x] = row)
       /\ poll' \in Polls
       /\ poll'.replies = poll.replies /\ Len(poll'.replies) <= Replies
  <2>1. poll \in Polls /\ Len(poll.replies) <= Replies
    BY <1>1 DEF PageShape
  <2>2. CASE rows' = [rows EXCEPT ![1] = row] /\ poll' = [poll EXCEPT !.on = TRUE]
    BY <1>1, <1>2, <1>6, <2>1, <2>2 DEF Polls
  <2>3. CASE rows' = rows /\ poll' = poll
    BY <1>2, <1>8, <2>1, <2>3
  <2> QED
    BY <1>9, <2>2, <2>3
<1>12. \A x \in JobIds : rows'[x].state = "none" => rows'[x] = NoRow
  BY <1>1, <1>6, <1>11 DEF PageShape
<1>13. PageShape'
  BY <1>1, <1>7, <1>9, <1>10, <1>11, <1>12 DEF PageShape, Jobs, Work, Wallets
<1>14. Past'
  <2>1. \A x \in JobIds : jobs'[x].state = "none" \/ jobs'[x].state \in jobs'[x].been
    BY <1>1, <1>4, <1>10 DEF Past
  <2>2. jobs'[1].state = "Dispatched" /\ jobs'[1].been \subseteq LiveStates
    BY <1>3, <1>4, <1>10
  <2>3. /\ poll'.replies = <<>> /\ DOMAIN <<>> = {}
        /\ poll'.on => rows'[1].state # "none"
    BY <1>8, <1>11
  <2> QED
    BY <1>3, <2>1, <2>2, <2>3 DEF Past
<1>15. \A x \in JobIds : \A s : Reached(x, s) => s \in jobs'[x].been
  BY <1>4, <1>10 DEF Reached
<1>16. ASSUME NEW x \in JobIds
       PROVE  /\ rows'[x].state # "none" => rows'[x].state \in jobs'[x].been
              /\ activity'[x].status = "failed" => "Slashed" \in jobs'[x].been
              /\ activity'[x].status = "settled"
                   => "Settled" \in jobs'[x].been \/ "Refunded" \in jobs'[x].been
  <2>1. /\ rows[x].state # "none" => Reached(x, rows[x].state)
        /\ activity[x].status = "failed" => Reached(x, "Slashed")
        /\ activity[x].status = "settled" => Reached(x, "Settled") \/ Reached(x, "Refunded")
    BY <1>1 DEF OutcomesAreTrue
  <2>2. "Dispatched" \in jobs'[1].been
    BY <1>4, <1>10
  <2>3. rows'[x].state # "none" => rows'[x].state \in jobs'[x].been
    BY <1>6, <1>11, <1>15, <2>1, <2>2
  <2> QED
    BY <1>9, <1>15, <2>1, <2>3
<1>17. ~poll'.on => rows'[1].state = "none"
  <2>1. CASE rows' = [rows EXCEPT ![1] = row] /\ poll' = [poll EXCEPT !.on = TRUE]
    BY <1>1, <2>1 DEF PageShape, Polls
  <2>2. CASE rows' = rows /\ poll' = poll
    BY <1>8, <2>2
  <2> QED
    BY <1>9, <2>1, <2>2
<1>18. OutcomesAreTrue'
  BY <1>16, <1>17 DEF OutcomesAreTrue, Reached
<1> QED
  BY <1>13, <1>14, <1>18 DEF PageInv

(* The poller asks, or gives up. *)
LEMMA PollAsks ==
  ASSUME PageInv, mode = "live", mode' = mode, PollTick \/ PollTimeout
  PROVE  PageInv'
<1>1. /\ PageShape /\ Past /\ OutcomesAreTrue /\ 1 \in JobIds /\ poll.on
      /\ UNCHANGED <<page, rows, orders, activity, jobs, wallet>>
  BY Actors DEF PageInv, PollTick, PollTimeout, Log
<1> DEFINE r == poll.replies
           s == jobs[1].state
<1>2. poll \in Polls /\ r \in Seq(LiveStates) /\ Len(r) <= Replies /\ Replies \in Nat
  BY <1>1, PageAssumption DEF PageShape, Polls
<1>3. s \in LiveStates /\ s \in jobs[1].been
  <2>1. s # "none" /\ s \in {"none"} \cup LiveStates /\ (s = "none" \/ s \in jobs[1].been)
    BY <1>1 DEF Past
  <2> QED
    BY <2>1
<1>4. /\ poll' \in Polls /\ Len(poll'.replies) <= Replies
      /\ ~poll'.on => poll'.timedOut
      /\ \A k \in DOMAIN poll'.replies : poll'.replies[k] \in jobs[1].been
  <2> DEFINE q == Append(r, s)
  <2>1. \A k \in DOMAIN r : r[k] \in jobs[1].been
    BY <1>1 DEF Past
  <2>2. CASE PollTick
    <3>1. q \in Seq(LiveStates) /\ Len(q) = Len(r) + 1
          /\ \A k \in 1 .. Len(r) + 1 : (k \in 1 .. Len(r) /\ q[k] = r[k]) \/ q[k] = s
      BY <1>2, <1>3, AppendProperties
    <3>2. poll' = [poll EXCEPT !.replies = q] /\ Len(r) < Replies
      BY <1>2, <2>2 DEF PollTick, Polls
    <3>3. DOMAIN q = 1 .. Len(r) + 1 /\ DOMAIN r = 1 .. Len(r) /\ Len(r) \in Nat
      BY <1>2, <3>1
    <3> HIDE DEF q
    <3>4. poll' \in Polls /\ poll'.replies = q /\ poll'.on = poll.on
      BY <1>2, <3>1, <3>2 DEF Polls
    <3>5. \A k \in DOMAIN q : q[k] \in jobs[1].been
      BY <1>3, <2>1, <3>1, <3>3
    <3>6. Len(q) <= Replies
      BY <1>2, <3>1, <3>2, <3>3
    <3> QED
      BY <1>1, <3>4, <3>5, <3>6
  <2>3. CASE PollTimeout
    <3>1. poll' = [poll EXCEPT !.on = FALSE, !.timedOut = TRUE]
      BY <2>3 DEF PollTimeout
    <3>2. poll' \in Polls /\ poll'.replies = r /\ poll'.timedOut
      BY <1>2, <3>1 DEF Polls
    <3> QED
      BY <1>2, <2>1, <3>2
  <2> QED
    BY <2>2, <2>3
<1>5. PageShape'
  BY <1>1, <1>4 DEF PageShape, Polls
<1>6. Past'
  BY <1>1, <1>4 DEF Past
<1>7. OutcomesAreTrue'
  BY <1>1, <1>4 DEF OutcomesAreTrue, Reached
<1> QED
  BY <1>5, <1>6, <1>7 DEF PageInv

(* An answer arrives, however late: it tells of a state that the job was in, and ends the
   entry only with the end of the job. *)
LEMMA PollAnswered ==
  ASSUME PageInv, mode = "live", mode' = mode, PollReply
  PROVE  PageInv'
<1>1. /\ PageShape /\ Past /\ OutcomesAreTrue /\ 1 \in JobIds
      /\ UNCHANGED <<page, jobs, wallet>>
  BY Actors DEF PageInv, PollReply
<1>2. PICK k \in DOMAIN poll.replies :
        LET state == poll.replies[k]
        IN /\ ApplyLifecycle(state)
           /\ poll' = [poll EXCEPT !.replies = RemoveAt(@, k), !.on = @ /\ ~StopsPolling(state),
                                   !.triggered = @ \/ state \in {"Verified", "Settled"}]
  BY DEF PollReply
<1> DEFINE state == poll.replies[k]
           left == RemoveAt(poll.replies, k)
           on == poll.on /\ ~StopsPolling(state)
           triggered == poll.triggered \/ state \in {"Verified", "Settled"}
           been == jobs[1].been
           row == [rows[1] EXCEPT !.state = state]
           entry == [activity[1] EXCEPT !.status = Outcome(state)]
<1>3. /\ poll \in Polls /\ poll.replies \in Seq(LiveStates) /\ rows \in [JobIds -> Row] /\ activity \in Logs
      /\ orders \in [{0} \cup JobIds -> {"none", "open", "filled", "canceled"}]
      /\ Len(poll.replies) <= Replies /\ Replies \in Nat /\ rows[1] \in Row
  BY <1>1, PageAssumption DEF PageShape, Polls
<1>4. poll.replies # <<>> /\ state \in LiveStates /\ state \in been /\ rows[1].state # "none"
  <2>1. poll.replies # <<>> /\ state \in LiveStates
    BY <1>3, TakenOut
  <2> QED
    BY <1>1, <2>1 DEF Past
<1>5. /\ left \in Seq(LiveStates) /\ left \in Seq(been) /\ Len(left) <= Replies
  <2>1. left \in Seq(LiveStates) /\ Len(left) = Len(poll.replies) - 1 /\ Len(poll.replies) \in Nat
    <3>1. Len(poll.replies) \in Nat
      BY <1>3
    <3>2. left \in Seq(LiveStates) /\ Len(left) = Len(poll.replies) - 1
      BY <1>3, TakenOut
    <3> QED
      BY <3>1, <3>2
  <2>2. poll.replies \in Seq(been)
    <3>1. \A x \in DOMAIN poll.replies : poll.replies[x] \in been
      BY <1>1 DEF Past
    <3> HIDE DEF been
    <3> QED
      BY <1>3, <3>1
  <2>3. left \in Seq(been)
    BY <2>2, TakenOut
  <2> QED
    BY <1>3, <2>1, <2>3
<1>6. /\ rows' = [rows EXCEPT ![1] = row]
      /\ orders' = [orders EXCEPT ![1] = IF @ = "open" THEN "filled" ELSE @]
      /\ activity' = IF state \in Terminal THEN [activity EXCEPT ![1] = entry] ELSE activity
  BY <1>1, <1>2, <1>3 DEF ApplyLifecycle, Logs
<1>7. poll' = [poll EXCEPT !.replies = left, !.on = on, !.triggered = triggered]
  BY <1>2, <1>3 DEF Polls
<1> HIDE DEF left
<1>8. /\ poll' \in Polls /\ poll'.replies = left /\ poll'.timedOut = poll.timedOut
      /\ ~poll'.on => ~poll.on \/ state \in Terminal
  BY <1>3, <1>5, <1>7 DEF Polls, StopsPolling
<1> HIDE DEF state
<1>9. row \in Row /\ row.state = state /\ state \in RowStates /\ state # "none"
  BY <1>3, <1>4 DEF Row, RowStates, LiveStates
<1>10. /\ state \in Terminal => state \in {"Settled", "Slashed"}
       /\ Outcome(state) \in {"settled", "failed"} /\ (state = "Slashed" <=> Outcome(state) = "failed")
  BY <1>4 DEF Terminal, LiveStates, Outcome
<1> DEFINE Entry == [kind : {"none", "run", "trade", "settle"},
                     status : {"none", "submitted", "settled", "failed"}]
<1>11. entry \in Entry /\ entry.status = Outcome(state) /\ activity \in [{0} \cup JobIds -> Entry]
  <2> DEFINE out == Outcome(state)
  <2>1. activity \in [{0} \cup JobIds -> Entry] /\ activity[1] \in Entry /\ out \in {"settled", "failed"}
    BY <1>1, <1>3, <1>10 DEF Logs
  <2> HIDE DEF out
  <2>2. [activity[1] EXCEPT !.status = out] \in Entry /\ [activity[1] EXCEPT !.status = out].status = out
    BY <2>1
  <2> QED
    BY <2>1, <2>2 DEF out
<1> HIDE DEF row, entry, Entry, on, triggered
<1>12. /\ rows' \in [JobIds -> Row] /\ rows'[1].state = state
       /\ \A x \in JobIds : x # 1 => rows'[x] = rows[x]
  BY <1>1, <1>3, <1>6, <1>9
<1>13. orders' \in [{0} \cup JobIds -> {"none", "open", "filled", "canceled"}]
  BY <1>1, <1>3, <1>6
<1>14. /\ activity' \in [{0} \cup JobIds -> Entry]
       /\ \A x \in JobIds : x # 1 => activity'[x] = activity[x]
       /\ \/ state \in Terminal /\ activity'[1].status = Outcome(state)
          \/ state \notin Terminal /\ activity'[1] = activity[1]
  <2>1. CASE state \in Terminal
    BY <1>1, <1>6, <1>11, <2>1
  <2>2. CASE state \notin Terminal
    BY <1>6, <1>11, <2>2
  <2> QED
    BY <2>1, <2>2
<1>15. \A x \in JobIds : rows'[x].state = "none" => rows'[x] = NoRow
  BY <1>1, <1>9, <1>12 DEF PageShape
<1>16. PageShape'
  BY <1>1, <1>5, <1>8, <1>12, <1>13, <1>14, <1>15 DEF PageShape, Polls, Logs, Entry
<1>17. Past'
  <2>1. \A x \in DOMAIN left : left[x] \in been
    BY <1>5
  <2>2. rows'[1].state # "none" /\ jobs[1].state # "none"
    BY <1>1, <1>4, <1>9, <1>12 DEF Past
  <2> QED
    BY <1>1, <1>8, <2>1, <2>2 DEF Past
<1>18. ASSUME NEW x \in JobIds
       PROVE  /\ rows'[x].state # "none" => rows'[x].state \in jobs[x].been
              /\ activity'[x].status = "failed" => "Slashed" \in jobs[x].been
              /\ activity'[x].status = "settled"
                   => "Settled" \in jobs[x].been \/ "Refunded" \in jobs[x].been
  <2>1. /\ rows[x].state # "none" => rows[x].state \in jobs[x].been
        /\ activity[x].status = "failed" => "Slashed" \in jobs[x].been
        /\ activity[x].status = "settled" => "Settled" \in jobs[x].been \/ "Refunded" \in jobs[x].been
    BY <1>1 DEF OutcomesAreTrue, Reached
  <2> QED
    BY <1>4, <1>10, <1>12, <1>14, <2>1
<1>19. ~poll'.on /\ ~poll'.timedOut => activity'[1].status # "submitted"
  <2>1. CASE state \in Terminal
    BY <1>10, <1>14, <2>1
  <2>2. CASE state \notin Terminal
    <3>1. ~poll.on /\ ~poll.timedOut => activity[1].status # "submitted"
      BY <1>1, <1>4 DEF OutcomesAreTrue
    <3> QED
      BY <1>8, <1>14, <2>2, <3>1
  <2> QED
    BY <2>1, <2>2
<1>20. OutcomesAreTrue'
  BY <1>1, <1>18, <1>19 DEF OutcomesAreTrue, Reached
<1> QED
  BY <1>16, <1>17, <1>20 DEF PageInv

(* Whatever the page of the chain does. *)
LEMMA LivePage ==
  ASSUME PageInv, LiveNext, mode' = mode
  PROVE  PageInv'
<1>1. PageShape /\ Past /\ OutcomesAreTrue /\ mode = "live"
  BY DEF PageInv, LiveNext
<1>2. CASE LiveStep \/ RunTask \/ PollTick \/ PollTimeout \/ PollReply
  BY <1>1, <1>2, LiveMoves, LiveRuns, PollAsks, PollAnswered
<1>3. ASSUME UNCHANGED <<page, rows, orders, activity, jobs, poll>>, wallet' \in Wallets
      PROVE  PageInv'
  <2>1. PageShape' /\ Past' /\ OutcomesAreTrue'
    BY <1>1, <1>3 DEF PageShape, Wallets, Past, OutcomesAreTrue, Reached
  <2> QED
    BY <2>1 DEF PageInv
<1>4. wallet \in Wallets
  BY <1>1 DEF PageShape, Wallets
<1>5. CASE LiveFund
  <2> DEFINE u == wallet.usdc
  <2>1. wallet' = [wallet EXCEPT !.usdc = u + 1] /\ u + 1 \in Nat
    BY <1>4, <1>5 DEF LiveFund, Wallets
  <2> HIDE DEF u
  <2>2. wallet' \in Wallets
    BY <1>4, <2>1 DEF Wallets
  <2>3. UNCHANGED <<page, rows, orders, activity, jobs, poll>>
    BY <1>5 DEF LiveFund, Log
  <2> QED
    BY <1>3, <2>2, <2>3
<1>6. CASE View \/ OpenAudit \/ RunAudit
           \/ \E f \in DOMAIN fetches : ReadJobFields(f) \/ FetchFromWalrus(f) \/ FetchVerifiedResult(f)
  <2>1. UNCHANGED <<page, rows, orders, activity, jobs, wallet, poll>>
    BY <1>6 DEF View, OpenAudit, RunAudit, ReadJobFields, FetchFromWalrus, FetchVerifiedResult,
                Fetching, Log
  <2> QED
    BY <1>3, <1>4, <2>1
<1> QED
  BY <1>2, <1>5, <1>6 DEF LiveNext

-----------------------------------------------------------------------------
(* The theorems *)

(* At the start no frame is under way, and the page is empty. *)
LEMMA PageStart ==
  ASSUME Init
  PROVE  FeedInv /\ PageInv
<1>1. HarnessInv /\ HarnessInit /\ PageInit
  BY HarnessStart DEF Init
<1>2. /\ feed = NoFeed /\ link = "down" /\ wire = <<>> /\ drops = 0 /\ tally = ZeroTally /\ pc = "setup"
      /\ mode \in {"ws", "mock", "live"} /\ Replies \in Nat /\ Drops \in Nat
  BY <1>1, PageAssumption, Numbers DEF HarnessInit, PageInit
<1>3. /\ page = [status |-> "connecting", hello |-> FALSE, subscribed |-> FALSE, timer |-> FALSE, ticker |-> <<>>]
      /\ rows = [i \in JobIds |-> NoRow] /\ orders = [i \in {0} \cup JobIds |-> "none"]
      /\ activity = [i \in {0} \cup JobIds |-> [kind |-> "none", status |-> "none"]]
      /\ jobs = [i \in JobIds |-> [been |-> {}, state |-> "none", fault |-> "none", blob |-> "none"]]
      /\ wallet = [credits |-> 0, usdc |-> 0, busy |-> "none", have |-> 0]
      /\ poll = [on |-> FALSE, timedOut |-> FALSE, triggered |-> FALSE, replies |-> <<>>]
      /\ 1 \in JobIds
  BY <1>1, Actors DEF PageInit
<1>4. DOMAIN <<>> = {} /\ <<>> \in Sums /\ JobsIn(<<>>) = {} /\ <<>> \in Metas
  <2>1. DOMAIN <<>> = {} /\ <<>> \in [DOMAIN <<>> -> Deals]
    OBVIOUS
  <2> QED
    BY <2>1, SumsTyped, MetaTyped DEF JobsIn
<1>5. FeedInv
  <2>1. feed \in Feeds /\ feed.meta = <<>> /\ feed.usdcEscrowed = 0 /\ feed.usdcSettled = 0
        /\ feed.usdcSlashed = 0
    BY <1>2, <1>4 DEF NoFeed, Feeds
  <2>2. Tallied
    BY <1>2, <2>1 DEF Tallied, ZeroTally
  <2>3. ~Working
    BY <1>2 DEF Working
  <2>4. FeedShape
    BY <1>2, <1>4, <2>1, <2>3 DEF FeedShape
  <2>5. WireIsTrue /\ Fresh
    BY <1>2, <1>4 DEF WireIsTrue, Fresh
  <2>6. AsDealt
    <3> DEFINE d == [i \in JobIds |-> [sizeScu |-> 0, price |-> 0]]
    <3>1. d \in [JobIds -> Deals]
      BY DEF Deals
    <3>2. \A i \in JobIds : rows[i].state = "none"
      BY <1>3 DEF NoRow
    <3> HIDE DEF d
    <3>3. DealtAs(d)
      BY <1>2, <1>4, <2>1, <2>3, <3>2 DEF DealtAs
    <3> QED
      BY <3>1, <3>3 DEF AsDealt
  <2> QED
    BY <2>2, <2>4, <2>5, <2>6 DEF FeedInv
<1>6. PageInv
  <2>1. NoRow \in Row /\ NoRow.state = "none"
    BY <1>4 DEF NoRow, Row, RowStates
  <2>2. rows \in [JobIds -> Row] /\ \A i \in JobIds : rows[i] = NoRow
    BY <1>3, <2>1
  <2>3. activity \in Logs /\ \A i \in JobIds : activity[i].status = "none"
    BY <1>3 DEF Logs
  <2>4. jobs \in Jobs /\ \A i \in JobIds : jobs[i].state = "none" /\ jobs[i].been = {}
    BY <1>3 DEF Jobs, RowStates
  <2>5. poll.on = FALSE /\ poll.replies = <<>> /\ Len(poll.replies) <= Replies /\ poll \in Polls
    BY <1>2, <1>3 DEF Polls
  <2>6. PageShape
    BY <1>2, <1>3, <2>2, <2>3, <2>4, <2>5 DEF PageShape, Wallets
  <2>7. Past
    BY <1>3, <1>4, <2>1, <2>2, <2>4, <2>5 DEF Past
  <2>8. OutcomesAreTrue
    BY <1>3, <2>1, <2>2, <2>3 DEF OutcomesAreTrue
  <2> QED
    BY <2>6, <2>7, <2>8 DEF PageInv
<1> QED
  BY <1>5, <1>6

\* What holds of the harness, the feed and the page together.
WebInv == HarnessInv /\ FeedInv /\ PageInv

(* Every step of the page and of what feeds it keeps the invariant. *)
THEOREM WebInductive == Spec => []WebInv
<1>1. Init => WebInv
  BY PageStart, HarnessStart DEF Init, WebInv
<1>2. WebInv /\ [Next]_vars => WebInv'
  <2> SUFFICES ASSUME WebInv, [Next]_vars PROVE WebInv'
    OBVIOUS
  <2>1. HarnessInv /\ FeedInv /\ PageInv /\ OutcomesAreTrue
    BY DEF WebInv, PageInv
  <2>2. CASE mode = "ws" /\ HarnessNext /\ UNCHANGED <<mode, ui>>
    <3>1. FeedInv' /\ Advanced
      BY <2>1, <2>2, StreamFeeds DEF Streaming
    <3> QED
      BY <2>1, <2>2, <3>1, HarnessStep, StreamPage DEF WebInv
  <2>3. CASE Connect \/ Break
    <3>1. mode = "ws" /\ Alone /\ (Open \/ Accept \/ Subscribe \/ Close \/ Receive)
      BY <2>3 DEF Connect, Break
    <3>2. HarnessInv'
      BY <2>1, <3>1, HarnessStays DEF Alone
    <3> QED
      BY <2>1, <3>1, <3>2, LinkFeeds, ReceiveFeeds, LinkPage DEF WebInv
  <2>4. CASE /\ MockNext \/ LiveNext \/ (mode # "ws" /\ \E i \in DOMAIN orders : CancelOrder(i))
             /\ UNCHANGED <<harness, mode>>
    <3>1. HarnessInv'
      BY <2>1, <2>4, HarnessStays DEF harness
    <3>2. mode # "ws" /\ page' = page
      BY <2>4 DEF MockNext, LiveNext, CancelOrder, LiveStep, LiveFund, RunTask, PollTick, PollTimeout,
                  PollReply, View, OpenAudit, RunAudit, ReadJobFields, FetchFromWalrus,
                  FetchVerifiedResult, Fetching
    <3>3. FeedInv'
      BY <2>1, <2>4, <3>2, ElsewhereFeeds
    <3>4. PageInv'
      BY <2>1, <2>4, MockPage, LivePage, CancelPage DEF harness
    <3> QED
      BY <3>1, <3>3, <3>4 DEF WebInv
  <2>5. CASE UNCHANGED vars
    <3>1. UNCHANGED <<harness, mode, ui>>
      BY <2>5 DEF vars
    <3>2. HarnessInv'
      BY <2>1, <3>1, HarnessStays DEF harness
    <3>3. FeedInv'
      BY <2>1, <3>1 DEF FeedInv, FeedShape, Tallied, WireIsTrue, Fresh, AsDealt, DealtAs, Working,
                       JobsIn, TickersIn, Ticker, harness, ui
    <3>4. PageInv'
      BY <2>1, <3>1 DEF PageInv, PageShape, Past, OutcomesAreTrue, Reached, harness, ui
    <3> QED
      BY <3>2, <3>3, <3>4 DEF WebInv
  <2> QED
    BY <2>2, <2>3, <2>4, <2>5 DEF Next
<1> QED
  BY <1>1, <1>2, PTL DEF Spec

(* Every value of the harness, of the feed and of the page is of its type; no balance, reserve
   or sum of the tally is ever negative. *)
THEOREM WebTypeCorrect == Spec => []TypeOK
<1>1. WebInv => TypeOK
  <2> SUFFICES ASSUME HarnessInv, FeedInv, PageInv PROVE TypeOK
    BY DEF WebInv
  <2>1. HarnessShape /\ Course /\ FeedShape /\ PageShape
    BY DEF HarnessInv, FeedInv, PageInv
  <2>2. HarnessTypeOK
    <3>1. \A f \in {actor.minted, actor.reserved, ledger.bond, ledger.minted, ledger.reserved,
                    ledger.credit, ledger.capacity} : f \in [Providers -> Nat]
      BY <2>1, Shapes
    <3>2. \A k \in DOMAIN tally : tally[k] \in Nat
      BY <2>1 DEF HarnessShape, Tallies
    <3>3. job.provider \in {0} \cup Providers /\ job.qty \in Nat /\ job.escrow = job.qty * job.price
      BY <2>1 DEF HarnessShape, JobRecords, Course
    <3>4. DOMAIN feed.meta \subseteq JobIds /\ feed.out = <<>>
      BY <2>1, MetaTyped DEF FeedShape, Feeds
    <3> QED
      BY <2>1, <3>1, <3>2, <3>3, <3>4, Shapes DEF HarnessTypeOK, HarnessShape, Stages, Fates, FeedShape
  <2>3. page.status \in {"connecting", "connected", "disconnected"}
    BY <2>1 DEF PageShape
  <2>4. ASSUME NEW i \in JobIds
        PROVE  rows[i].state \in {"none"} \cup Terminal \cup Range(Happy)
    <3>1. rows[i].state \in RowStates
      BY <2>1 DEF PageShape, Row
    <3>2. /\ DOMAIN Happy = 1 .. 8
          /\ Happy[1] = "Created" /\ Happy[2] = "Matched" /\ Happy[3] = "Escrowed"
          /\ Happy[4] = "Dispatched" /\ Happy[5] = "Executing" /\ Happy[6] = "Attested"
          /\ Happy[7] = "Verified" /\ Happy[8] = "Settled"
      BY DEF Happy
    <3>3. {"Created", "Matched", "Escrowed", "Dispatched", "Executing", "Attested", "Verified"}
            \subseteq Range(Happy)
      BY <3>2 DEF Range
    <3> QED
      BY <3>1, <3>3 DEF RowStates, Terminal
  <2>5. {wallet.credits, wallet.usdc} \subseteq Nat
    BY <2>1 DEF PageShape, Wallets
  <2> QED
    BY <2>1, <2>2, <2>3, <2>4, <2>5 DEF TypeOK, PageShape, Logs
<1> QED
  BY <1>1, WebInductive, PTL

(* The ticker the feed serves is the tally (ws.ts sendTicker, tally.ts); a page that has read
   what it was sent shows it; and the amounts of a row add up to the deal of its job, whatever
   was lost with a connection and however often it was made again (data/ws.ts). *)
THEOREM FeedIsTally == Spec => []FeedMatchesTally
<1>1. WebInv => FeedMatchesTally
  <2> SUFFICES ASSUME HarnessInv, FeedInv, PageInv PROVE FeedMatchesTally
    BY DEF WebInv
  <2>1. Tallied /\ Fresh /\ AsDealt /\ PageShape
    BY DEF FeedInv, PageInv
  <2>2. link = "up" /\ wire = <<>> /\ page.ticker # <<>> => page.ticker = Ticker(feed)
    BY <2>1 DEF Fresh, TickersIn
  <2>3. ASSUME mode = "ws", chain = "dry-run", NEW i \in JobIds
        PROVE  LET escrow == rows[i].sizeScu * rows[i].price
               IN  /\ "payout" \in DOMAIN rows[i].money => rows[i].money.payout = escrow - SettleFee(escrow)
                   /\ "refund" \in DOMAIN rows[i].money => rows[i].money.refund = escrow
    <3>1. CASE rows[i].state = "none"
      <4>1. rows[i].money = <<>> /\ DOMAIN <<>> = {}
        BY <2>1, <3>1 DEF PageShape, NoRow
      <4> QED
        BY <4>1
    <3>2. CASE rows[i].state # "none"
      <4>1. PICK d \in [JobIds -> Deals] : DealtAs(d)
        BY <2>1, <2>3 DEF AsDealt
      <4>2. Dealt(rows[i], d[i])
        BY <3>2, <4>1 DEF DealtAs
      <4> QED
        BY <4>2 DEF Dealt, Paid
    <3> QED
      BY <3>1, <3>2
  <2> QED
    BY <2>1, <2>2, <2>3 DEF FeedMatchesTally, Tallied
<1> QED
  BY <1>1, WebInductive, PTL

(* On the feed, in the simulator and on the chain the page reports only what its jobs went
   through, in the order it learns of it (store.tsx; sui.ts pollJob). *)
THEOREM OutcomesTrue == Spec => []OutcomesAreTrue
<1>1. WebInv => OutcomesAreTrue
  BY DEF WebInv, PageInv
<1> QED
  BY <1>1, WebInductive, PTL

\* The result's parts, and the property.
AuditInv ==
  /\ result = [fields |-> result.fields, shown |-> result.shown, audit |-> result.audit]
  /\ AuditIsSound

(* An audit that passes against the chain's hash has hashed the attested output (audit.ts
   runAudit), whatever the provider serves and whichever reads fail. *)
THEOREM AuditSound == Spec => []AuditIsSound
<1>1. Init => AuditInv
  BY DEF Init, PageInit, AuditInv, AuditIsSound, NoAudit
<1>2. AuditInv /\ [Next]_vars => AuditInv'
  <2> SUFFICES ASSUME AuditInv, [Next]_vars PROVE AuditInv'
    OBVIOUS
  <2>1. CASE result' = result
    BY <2>1 DEF AuditInv, AuditIsSound
  <2>2. ASSUME NEW fields, NEW shown,
               \/ result' = [result EXCEPT !.fields = fields]
               \/ result' = [result EXCEPT !.shown = shown]
        PROVE  AuditInv'
    <3>1. result' = [fields |-> result'.fields, shown |-> result'.shown, audit |-> result.audit]
      BY <2>2 DEF AuditInv
    <3> QED
      BY <3>1 DEF AuditInv, AuditIsSound
  <2>3. CASE RunAudit
    <3>1. PICK audit \in OutputCheck : result' = [result EXCEPT !.audit = audit]
      BY <2>3 DEF RunAudit
    <3>2. result' = [fields |-> result'.fields, shown |-> result'.shown, audit |-> audit]
      BY <3>1 DEF AuditInv
    <3>3. audit.ok /\ audit.against = "chain" => audit.checked = "attested"
      <4> DEFINE Checked(output, against) == [ok |-> output = OnChainHash, checked |-> output, against |-> against]
      <4>1. ASSUME NEW output, NEW against, audit = Checked(output, against)
            PROVE  (audit.ok <=> output = OnChainHash) /\ audit.checked = output /\ audit.against = against
        BY <4>1, Zenon
      <4>2. CASE result.fields = "read" /\ jobs[1].blob # "none"
        <5>1. \/ audit = Checked(jobs[1].blob, "chain")
              \/ audit = [ok |-> FALSE, checked |-> "none", against |-> "chain"]
          BY <4>2 DEF OutputCheck
        <5>2. OnChainHash = "attested"
          BY <4>2 DEF OnChainHash
        <5> QED
          BY <4>1, <5>1, <5>2
      <4>3. CASE ~(result.fields = "read" /\ jobs[1].blob # "none") /\ result.shown # NoResult
        <5> DEFINE against == IF result.fields = "read" THEN "chain" ELSE "provider"
        <5>1. audit = Checked(result.shown.output, against)
          BY <4>3 DEF OutputCheck
        <5>2. result.fields = "read" => OnChainHash = "attested"
          BY DEF OnChainHash
        <5>3. against = "chain" => result.fields = "read"
          OBVIOUS
        <5> HIDE DEF against, Checked
        <5> QED
          BY <4>1, <5>1, <5>2, <5>3
      <4>4. CASE ~(result.fields = "read" /\ jobs[1].blob # "none") /\ result.shown = NoResult
        <5>1. audit = [ok |-> TRUE, checked |-> "none", against |-> "itself"]
          BY <4>4 DEF OutputCheck
        <5> QED
          BY <5>1
      <4> QED
        BY <4>2, <4>3, <4>4
    <3> QED
      BY <3>2, <3>3 DEF AuditInv, AuditIsSound
  <2>4. CASE \E f \in DOMAIN fetches : ReadJobFields(f) \/ FetchFromWalrus(f) \/ FetchVerifiedResult(f)
    <3>1. PICK f \in DOMAIN fetches : ReadJobFields(f) \/ FetchFromWalrus(f) \/ FetchVerifiedResult(f)
      BY <2>4
    <3>2. \/ result' = result
          \/ \E fields : result' = [result EXCEPT !.fields = fields]
          \/ \E shown : result' = [result EXCEPT !.shown = shown]
      <4>1. CASE ReadJobFields(f)
        <5>1. \/ result' = result
              \/ result' = [result EXCEPT !.fields = IF fetches[f].step = "fields" THEN "read" ELSE @]
          BY <4>1 DEF ReadJobFields
        <5> DEFINE fields == IF fetches[f].step = "fields" THEN "read" ELSE result.fields
        <5>2. result' = result \/ result' = [result EXCEPT !.fields = fields]
          BY <5>1
        <5> HIDE DEF fields
        <5> QED
          BY <5>2
      <4>2. CASE FetchFromWalrus(f)
        BY <4>2 DEF FetchFromWalrus
      <4>3. CASE FetchVerifiedResult(f)
        BY <4>3 DEF FetchVerifiedResult
      <4> QED
        BY <3>1, <4>1, <4>2, <4>3
    <3> QED
      BY <2>1, <2>2, <3>2
  <2>5. \/ result' = result \/ RunAudit
        \/ \E f \in DOMAIN fetches : ReadJobFields(f) \/ FetchFromWalrus(f) \/ FetchVerifiedResult(f)
    <3>1. CASE UNCHANGED <<mode, ui>> \/ UNCHANGED vars
      BY <3>1 DEF vars, ui
    <3>2. CASE Connect \/ Break
      BY <3>2 DEF Connect, Break, Open, Accept, Receive, Subscribe, Close, Rest
    <3>3. CASE MockNext
      BY <3>3 DEF MockNext
    <3>4. CASE LiveNext
      BY <3>4 DEF LiveNext, LiveStep, LiveFund, RunTask, PollTick, PollTimeout, PollReply, View, OpenAudit
    <3>5. CASE \E i \in DOMAIN orders : CancelOrder(i)
      BY <3>5 DEF CancelOrder
    <3> QED
      BY <3>1, <3>2, <3>3, <3>4, <3>5 DEF Next
  <2> QED
    BY <2>1, <2>3, <2>4, <2>5
<1>3. AuditInv => AuditIsSound
  BY DEF AuditInv
<1> QED
  BY <1>1, <1>2, <1>3, PTL DEF Spec

=============================================================================
