--------------------------- MODULE ExchangeProofs ---------------------------
(***************************************************************************)
(* Type correctness of the exchange, for every value of its constants.  The *)
(* lemmas on what the operators of StakeLedger return come first.           *)
(***************************************************************************)
EXTENDS Exchange, TLAPS

-----------------------------------------------------------------------------
(* The operators of StakeLedger *)

(* A quotient of naturals by a positive natural is a natural. *)
LEMMA QuotientIsNat ==
  ASSUME NEW x \in Nat, NEW y \in Nat, y # 0
  PROVE  x \div y \in Nat
BY SMT

(* The product of two naturals is a natural. *)
LEMMA ProductIsNat ==
  ASSUME NEW x \in Nat, NEW y \in Nat
  PROVE  x * y \in Nat
BY SMT

(* release and consume_minted never take a counter below zero (staking.move). *)
LEMMA FloorSubIsNat ==
  ASSUME NEW x \in Nat, NEW y \in Nat
  PROVE  FloorSub(x, y) \in Nat /\ FloorSub(x, y) <= x
BY DEF FloorSub

(* A new stake is a stake of its owner (staking.move stake). *)
LEMMA NewStakeType ==
  ASSUME NEW Owners, NEW p \in Owners, NEW b \in Nat, NEW n \in Nat
  PROVE  NewStake(p, b, n) \in Stakes(Owners)
BY DEF NewStake, Stakes

(* add_bond only adds: a top-up of a stake is a stake (staking.move). *)
LEMMA AddedBondType ==
  ASSUME NEW Owners, NEW s \in Stakes(Owners), NEW b \in Nat, NEW n \in Nat
  PROVE  AddedBond(s, b, n) \in Stakes(Owners)
<1>1. s.bond + b \in Nat /\ s.capacity + n \in Nat
  BY DEF Stakes
<1> QED
  BY <1>1 DEF AddedBond, Stakes

(* unstake leaves a stake, since no more than the bond is taken (staking.move). *)
LEMMA WithdrawnType ==
  ASSUME NEW Owners, NEW s \in Stakes(Owners), NEW b \in Nat, s.bond >= b
  PROVE  Withdrawn(s, b) \in Stakes(Owners)
BY DEF Withdrawn, Stakes

(* Minting, reserving, releasing and consuming leave a stake (staking.move). *)
LEMMA CountersType ==
  ASSUME NEW Owners, NEW s \in Stakes(Owners), NEW q \in Nat
  PROVE  /\ Minted(s, q) \in Stakes(Owners)
         /\ Reserved(s, q) \in Stakes(Owners)
         /\ Released(s, q) \in Stakes(Owners)
         /\ ConsumedMinted(s, q) \in Stakes(Owners)
BY FloorSubIsNat DEF Minted, Reserved, Released, ConsumedMinted, Stakes

(* A slash takes at most the bond that is there, so a stake is left (staking.move slash). *)
LEMMA SlashedType ==
  ASSUME NEW Owners, NEW s \in Stakes(Owners), NEW x \in Nat
  PROVE  Slashed(s, x) \in Stakes(Owners)
<1> DEFINE take == AtMost(x, s.bond)
<1>1. s.bond - take \in Nat /\ s.slashedTotal + take \in Nat
  BY DEF AtMost, Stakes
<1>2. Slashed(s, x) =
        [s EXCEPT !.bond = s.bond - take, !.slashedTotal = s.slashedTotal + take]
  BY DEF Slashed
<1> HIDE DEF take
<1> QED
  BY <1>1, <1>2 DEF Stakes

(* Derating takes a tenth of the capacity and never makes it negative (staking.move). *)
LEMMA DeratedType ==
  ASSUME NEW Owners, NEW s \in Stakes(Owners)
  PROVE  Derated(s) \in Stakes(Owners)
<1>1. s.capacity \in Nat
  BY DEF Stakes
<1>2. s.capacity - (s.capacity \div 10) \in Nat
  BY <1>1, SMT
<1> QED
  BY <1>2 DEF Derated, Stakes

(* I4 (slashing.move): a penalty is never negative and never more than the bond left. *)
THEOREM PenaltyWithinBond ==
  ASSUME NEW Owners, NEW s \in Stakes(Owners), NEW terms \in SlashTerms,
         NEW qty \in Nat, NEW fault \in Faults
  PROVE  SlashAmount(terms, s, qty, fault) \in 0 .. s.bond
<1> DEFINE graded == (BondShare(s, qty) * terms.bps[fault]) \div BPS_DENOM
<1> DEFINE flat == IF fault = "invalid" THEN terms.flat ELSE 0
<1>1. s.bond \in Nat /\ s.capacity \in Nat
  BY DEF Stakes
<1>2. terms.bps[fault] \in Nat /\ terms.flat \in Nat
  <2>1. terms.bps \in [Faults -> 0 .. BPS_DENOM] /\ terms.flat \in Nat
    BY DEF SlashTerms
  <2>2. terms.bps[fault] \in 0 .. BPS_DENOM
    BY <2>1
  <2>3. 0 .. BPS_DENOM \subseteq Nat
    BY DEF BPS_DENOM
  <2> QED
    BY <2>1, <2>2, <2>3
<1>3. BondShare(s, qty) \in Nat
  <2>1. s.bond * qty \in Nat
    BY <1>1, ProductIsNat
  <2>2. CASE s.capacity = 0
    BY <2>2, <1>1 DEF BondShare
  <2>3. CASE s.capacity # 0
    BY <2>1, <2>3, <1>1, QuotientIsNat DEF BondShare
  <2> QED
    BY <2>2, <2>3
<1>4. graded \in Nat
  <2>1. BondShare(s, qty) * terms.bps[fault] \in Nat
    BY <1>2, <1>3, ProductIsNat
  <2> QED
    BY <2>1, QuotientIsNat DEF BPS_DENOM
<1>5. flat \in Nat
  BY <1>2
<1>6. SlashAmount(terms, s, qty, fault) = AtMost(graded + flat, s.bond)
  BY DEF SlashAmount
<1> HIDE DEF graded, flat
<1> QED
  BY <1>1, <1>4, <1>5, <1>6 DEF AtMost

-----------------------------------------------------------------------------
(* The operators the actions are built from *)

(* Replacing one object by one of the same type keeps a table of objects well typed. *)
LEMMA TableUpdate ==
  ASSUME NEW K, NEW T, NEW table \in [K -> T], NEW k \in K, NEW v \in T
  PROVE  [table EXCEPT ![k] = v] \in [K -> T]
OBVIOUS

(* A transfer of coins the sender has leaves every balance natural. *)
LEMMA MovedType ==
  ASSUME NEW coins \in [Addrs -> Nat], NEW a \in Addrs, NEW b \in Addrs,
         NEW x \in Nat, x <= coins[a]
  PROVE  Moved(coins, a, b, x) \in [Addrs -> Nat]
<1> DEFINE left == [coins EXCEPT ![a] = coins[a] - x]
<1>1. left \in [Addrs -> Nat]
  OBVIOUS
<1>2. left[b] + x \in Nat
  BY <1>1
<1>3. Moved(coins, a, b, x) = [left EXCEPT ![b] = left[b] + x]
  BY DEF Moved
<1> HIDE DEF left
<1> QED
  BY <1>1, <1>2, <1>3

(* A job stays a job when it is acknowledged, judged or closed (job.move). *)
LEMMA JobOperatorsType ==
  ASSUME NEW job \in Jobs, NEW v \in Verdicts, NEW outcome \in JobStates
  PROVE  /\ Acked(job) \in Jobs
         /\ Judged(job, v) \in Jobs
         /\ Closed(job, outcome) \in Jobs
         /\ ClosedBySlash(job) \in Jobs
<1>1. Acked(job) \in Jobs
  BY DEF Acked, Jobs, JobStates, LiveStates
<1>2. Judged(job, v) \in Jobs
  <2>1. AttestedState(v) \in JobStates
    BY DEF AttestedState, JobStates, LiveStates
  <2> QED
    BY <2>1 DEF Judged, Jobs
<1>3. ASSUME NEW o \in JobStates
      PROVE  Closed(job, o) \in Jobs
  BY DEF Closed, Jobs
<1>4. ClosedBySlash(job) \in Jobs
  <2>1. Closed(job, "Refunded") \in Jobs
    BY <1>3 DEF JobStates, TerminalStates
  <2> QED
    BY <2>1 DEF ClosedBySlash, Jobs
<1> QED
  BY <1>1, <1>2, <1>3, <1>4

(* The protocol fee is a natural number (settlement.move). *)
LEMMA FeeIsNat ==
  ASSUME TypeOK, NEW price \in Nat
  PROVE  FeeOn(price) \in Nat
<1>1. EffectiveFeeBps \in Nat
  <2>1. market.feeTier \in 0 .. BPS_DENOM /\ cfg.feeBps \in 0 .. BPS_DENOM
    BY DEF TypeOK
  <2>2. 0 .. BPS_DENOM \subseteq Nat
    BY DEF BPS_DENOM
  <2> QED
    BY <2>1, <2>2 DEF EffectiveFeeBps
<1>2. price * EffectiveFeeBps \in Nat
  BY <1>1, ProductIsNat
<1> QED
  BY <1>2, QuotientIsNat DEF FeeOn, BPS_DENOM

(* The verdict is one of the three a job can record (attestation.move). *)
LEMMA VerdictType ==
  ASSUME NEW m, NEW r, NEW o, NEW l
  PROVE  Verdict(m, r, o, l) \in {"valid", "sla", "invalid"}
BY DEF Verdict

-----------------------------------------------------------------------------
(* Type correctness *)

(* The amounts the steps enumerate are natural numbers. *)
LEMMA AmountsAreNat ==
  /\ \A x \in Quantities \cup UnitPrices \cup Tips : x \in Nat
  /\ \A x \in Bonds \cup Capacities \cup Withdrawals : x \in Nat
  /\ \A t \in TopUps : t[1] \in Nat /\ t[2] \in Nat
BY AmountAssumption

(* The exchange is deployed in a well-typed state (config.move init, create_market). *)
LEMMA InitType == Init => TypeOK
<1> SUFFICES ASSUME Init PROVE TypeOK
  OBVIOUS
<1>1. cfg \in [paused : BOOLEAN, localnet : BOOLEAN, feeBps : 0 .. BPS_DENOM,
               minStake : Nat, slash : SlashTerms]
  <2>1. InitialSlash \in SlashTerms
    <3>1. InitialSlash.bps \in [Faults -> 0 .. BPS_DENOM]
      BY DEF InitialSlash, Faults, BPS_DENOM
    <3>2. InitialSlash.flat = 0
      BY DEF InitialSlash
    <3>3. InitialSlash = [bps |-> InitialSlash.bps, flat |-> InitialSlash.flat]
      BY DEF InitialSlash
    <3> QED
      BY <3>1, <3>2, <3>3 DEF SlashTerms
  <2>2. cfg = [paused |-> FALSE, localnet |-> TRUE, feeBps |-> 30, minStake |-> 0,
               slash |-> InitialSlash]
    BY DEF Init
  <2> QED
    BY <2>1, <2>2 DEF BPS_DENOM
<1>2. market \in [active : BOOLEAN, pool : BOOLEAN, sla : SlaParams,
                  feeTier : 0 .. BPS_DENOM]
  BY MarketAssumption DEF Init, BPS_DENOM
<1>3. allowlist \in [Models -> SUBSET Measurements]
  BY MarketAssumption DEF Init
<1>4. usdc \in [Addrs -> Nat] /\ credits \in [Addrs -> Nat]
  BY AddressAssumption DEF Init
<1>5. receipts \in [JobIds -> Receipts]
  BY DEF Init, NoReceipt, SettledReceipt, Receipts, Reasons
<1> QED
  BY <1>1, <1>2, <1>3, <1>4, <1>5 DEF Init, TypeOK

(* Registering, staking, minting, posting and trading keep the types. *)
LEMMA ProviderStepType == TypeOK /\ ProviderStep => TypeOK'
<1> SUFFICES ASSUME TypeOK, ProviderStep PROVE TypeOK'
  OBVIOUS
<1>1. ASSUME NEW p \in Providers, RegisterProvider(p)
      PROVE  TypeOK'
  BY <1>1 DEF RegisterProvider, TypeOK, money
<1>2. ASSUME NEW p \in Providers, NEW s \in StakeIds, NEW b \in Bonds, NEW n \in Capacities,
             Stake(p, s, b, n)
      PROVE  TypeOK'
  <2>1. b \in Nat /\ n \in Nat
    BY AmountsAreNat
  <2>2. stakes' \in [StakeIds -> Stakes(Providers) \cup {NULL}]
    BY <1>2, <2>1, NewStakeType DEF Stake, TypeOK
  <2>3. usdc' \in [Addrs -> Nat]
    BY <1>2, <2>1 DEF Stake, TypeOK, Addrs
  <2> QED
    BY <1>2, <2>2, <2>3 DEF Stake, TypeOK, governance
<1>3. ASSUME NEW s \in StakeIds, NEW t \in TopUps, AddBond(s, t[1], t[2])
      PROVE  TypeOK'
  <2>1. t[1] \in Nat /\ t[2] \in Nat
    BY AmountsAreNat
  <2>2. stakes[s] \in Stakes(Providers)
    BY <1>3 DEF AddBond, TypeOK
  <2>3. stakes[s].provider \in Addrs
    BY <2>2 DEF Stakes, Addrs
  <2>4. stakes' \in [StakeIds -> Stakes(Providers) \cup {NULL}]
    BY <1>3, <2>1, <2>2, AddedBondType DEF AddBond, TypeOK
  <2>5. usdc' \in [Addrs -> Nat]
    BY <1>3, <2>1, <2>3 DEF AddBond, TypeOK
  <2> QED
    BY <1>3, <2>4, <2>5 DEF AddBond, TypeOK, governance
<1>4. ASSUME NEW s \in StakeIds, NEW b \in Bonds, Unstake(s, b)
      PROVE  TypeOK'
  <2>1. b \in Nat
    BY AmountsAreNat
  <2>2. stakes[s] \in Stakes(Providers) /\ stakes[s].bond >= b
    BY <1>4 DEF Unstake, TypeOK
  <2>3. stakes[s].provider \in Addrs
    BY <2>2 DEF Stakes, Addrs
  <2>4. stakes' \in [StakeIds -> Stakes(Providers) \cup {NULL}]
    BY <1>4, <2>1, <2>2, WithdrawnType DEF Unstake, TypeOK
  <2>5. usdc' \in [Addrs -> Nat]
    BY <1>4, <2>1, <2>3 DEF Unstake, TypeOK
  <2> QED
    BY <1>4, <2>4, <2>5 DEF Unstake, TypeOK, governance
<1>5. ASSUME NEW s \in StakeIds, NEW q \in Quantities, MintCredits(s, q)
      PROVE  TypeOK'
  <2>1. q \in Nat
    BY AmountsAreNat
  <2>2. stakes[s] \in Stakes(Providers)
    BY <1>5 DEF MintCredits, MayMint, TypeOK
  <2>3. stakes[s].provider \in Addrs
    BY <2>2 DEF Stakes, Addrs
  <2>4. stakes' \in [StakeIds -> Stakes(Providers) \cup {NULL}]
    BY <1>5, <2>1, <2>2, CountersType DEF MintCredits, TypeOK
  <2>5. credits' \in [Addrs -> Nat] /\ supply' \in Nat
    BY <1>5, <2>1, <2>3 DEF MintCredits, TypeOK
  <2> QED
    BY <1>5, <2>4, <2>5 DEF MintCredits, TypeOK, governance, money
<1>6. ASSUME NEW s \in StakeIds, NEW a \in AskIds, NEW q \in Quantities, NEW u \in UnitPrices,
             PostAsk(s, a, q, u)
      PROVE  TypeOK'
  <2>1. q \in Nat /\ u \in Nat
    BY AmountsAreNat
  <2>2. stakes[s] \in Stakes(Providers)
    BY <1>6 DEF PostAsk, MayMint, TypeOK
  <2>3. stakes[s].provider \in Providers
    BY <2>2 DEF Stakes
  <2>4. stakes' \in [StakeIds -> Stakes(Providers) \cup {NULL}]
    BY <1>6, <2>1, <2>2, CountersType DEF PostAsk, TypeOK
  <2>5. [provider |-> stakes[s].provider, price |-> u, remaining |-> q] \in Asks
    BY <2>1, <2>3 DEF Asks
  <2>6. asks' \in [AskIds -> Asks \cup {NULL}] /\ supply' \in Nat
    BY <1>6, <2>1, <2>5 DEF PostAsk, TypeOK
  <2> QED
    BY <1>6, <2>4, <2>6 DEF PostAsk, TypeOK, governance, money
<1>7. ASSUME NEW p \in Providers, NEW c \in Consumers, NEW q \in Quantities,
             NEW u \in UnitPrices, DeepBookMatch(p, c, q, u)
      PROVE  TypeOK'
  <2>1. q \in Nat /\ u \in Nat /\ q * u \in Nat
    BY AmountsAreNat, ProductIsNat
  <2>2. p \in Addrs /\ c \in Addrs
    BY DEF Addrs
  <2>3. credits' \in [Addrs -> Nat]
    BY <1>7, <2>1, <2>2, MovedType DEF DeepBookMatch, TypeOK
  <2>4. usdc' \in [Addrs -> Nat]
    BY <1>7, <2>1, <2>2, MovedType DEF DeepBookMatch, TypeOK
  <2> QED
    BY <1>7, <2>3, <2>4 DEF DeepBookMatch, TypeOK, governance
<1> QED
  BY <1>1, <1>2, <1>3, <1>4, <1>5, <1>6, <1>7 DEF ProviderStep

(* A new job is a job, with deadlines in the future of the clock it was created at. *)
LEMMA NewJobType ==
  ASSUME TypeOK, NEW k \in JobKinds, NEW c \in Providers \cup Consumers, NEW p \in Providers,
         NEW q \in Nat, NEW price \in Nat, NEW e \in Nat
  PROVE  NewJob(k, c, p, q, price, e) \in Jobs
<1>1. clock \in Nat /\ market.sla \in SlaParams
  BY DEF TypeOK
<1>2. /\ clock + market.sla.ack \in Nat
      /\ clock + market.sla.exec \in Nat
      /\ clock + market.sla.attest \in Nat
  BY <1>1 DEF SlaParams
<1> QED
  BY <1>2 DEF NewJob, Jobs, JobStates, LiveStates, Verdicts

(* The three ways a job is created keep the types. *)
LEMMA CreationStepType == TypeOK /\ CreationStep => TypeOK'
<1> SUFFICES ASSUME TypeOK, CreationStep PROVE TypeOK'
  OBVIOUS
<1>1. ASSUME NEW s \in StakeIds, NEW j \in JobIds, NEW q \in Quantities, NEW u \in UnitPrices,
             CreateJob(s, j, q, q * u)
      PROVE  TypeOK'
  <2>1. q \in Nat /\ q * u \in Nat
    BY AmountsAreNat, ProductIsNat
  <2>2. stakes[s] \in Stakes(Providers)
    BY <1>1 DEF CreateJob, TypeOK
  <2> DEFINE p == stakes[s].provider
  <2>3. p \in Providers /\ p \in Addrs
    BY <2>2 DEF Stakes, Addrs
  <2>4. stakes' \in [StakeIds -> Stakes(Providers) \cup {NULL}]
    BY <1>1, <2>1, <2>2, CountersType DEF CreateJob, TypeOK
  <2>5. NewJob("owned", p, p, q, q * u, q * u) \in Jobs
    BY <2>1, <2>3, NewJobType DEF JobKinds
  <2>6. jobs' = [jobs EXCEPT ![j] = NewJob("owned", p, p, q, q * u, q * u)]
    BY <1>1 DEF CreateJob
  <2>7. jobs' \in [JobIds -> Jobs \cup {NULL}]
    BY <2>5, <2>6 DEF TypeOK
  <2>8. credits' \in [Addrs -> Nat] /\ usdc' \in [Addrs -> Nat]
    BY <1>1, <2>1, <2>3 DEF CreateJob, TypeOK
  <2> QED
    BY <1>1, <2>4, <2>7, <2>8 DEF CreateJob, TypeOK, governance
<1>2. ASSUME NEW c \in Consumers, NEW a \in AskIds, NEW j \in JobIds, NEW q \in Quantities,
             NEW t \in Tips, CreateJobFromAsk(c, a, j, q, t)
      PROVE  TypeOK'
  <2>1. q \in Nat /\ t \in Nat
    BY AmountsAreNat
  <2>2. asks[a] \in Asks /\ q <= asks[a].remaining
    BY <1>2 DEF CreateJobFromAsk, TypeOK
  <2> DEFINE price == q * asks[a].price + t
  <2>3. /\ asks[a].provider \in Providers
        /\ asks[a].price \in Nat
        /\ asks[a].remaining - q \in Nat
    BY <2>1, <2>2 DEF Asks
  <2>4. price \in Nat
    <3>1. q * asks[a].price \in Nat
      BY <2>1, <2>3, ProductIsNat
    <3> QED
      BY <2>1, <3>1
  <2>5. NewJob("ask", c, asks[a].provider, q, price, price) \in Jobs
    BY <2>1, <2>3, <2>4, NewJobType DEF JobKinds
  <2>6. jobs' = [jobs EXCEPT ![j] = NewJob("ask", c, asks[a].provider, q, price, price)]
    BY <1>2 DEF CreateJobFromAsk
  <2>7. jobs' \in [JobIds -> Jobs \cup {NULL}]
    BY <2>5, <2>6 DEF TypeOK
  <2>8. usdc[c] >= price /\ usdc' = [usdc EXCEPT ![c] = @ - price]
    BY <1>2 DEF CreateJobFromAsk
  <2> HIDE DEF price
  <2>9. usdc' \in [Addrs -> Nat]
    BY <2>4, <2>8 DEF TypeOK, Addrs
  <2>10. Drawn(asks[a], q) \in Asks
    BY <2>2, <2>3 DEF Drawn, Asks
  <2>11. asks' \in [AskIds -> Asks \cup {NULL}]
    BY <1>2, <2>10 DEF CreateJobFromAsk, TypeOK
  <2> QED
    BY <1>2, <2>7, <2>9, <2>11 DEF CreateJobFromAsk, TypeOK, governance
<1>3. ASSUME NEW c \in Consumers, NEW p \in Providers, NEW j \in JobIds, NEW q \in Quantities,
             CreateJobFromFill(c, p, j, q)
      PROVE  TypeOK'
  <2>1. q \in Nat
    BY AmountsAreNat
  <2>2. NewJob("fill", c, p, q, q, 0) \in Jobs
    BY <2>1, NewJobType DEF JobKinds
  <2>3. jobs' \in [JobIds -> Jobs \cup {NULL}]
    BY <1>3, <2>2 DEF CreateJobFromFill, TypeOK
  <2>4. credits' \in [Addrs -> Nat]
    BY <1>3, <2>1 DEF CreateJobFromFill, TypeOK, Addrs
  <2> QED
    BY <1>3, <2>3, <2>4 DEF CreateJobFromFill, TypeOK, governance, money
<1> QED
  BY <1>1, <1>2, <1>3 DEF CreationStep

(* A submission of either kind changes the job only, and keeps it a job. *)
LEMMA RecordAttestationType ==
  ASSUME TypeOK, NEW j \in JobIds, NEW v \in {"valid", "sla", "invalid"},
         RecordAttestation(j, v)
  PROVE  TypeOK'
<1>1. jobs[j] \in Jobs
  BY DEF RecordAttestation, Exists, TypeOK
<1>2. Judged(jobs[j], v) \in Jobs
  BY <1>1, JobOperatorsType DEF Verdicts, JobStates, LiveStates
<1>3. jobs' \in [JobIds -> Jobs \cup {NULL}]
  BY <1>2 DEF RecordAttestation, TypeOK
<1> QED
  BY <1>3 DEF RecordAttestation, TypeOK, governance, money

(* Acknowledging and attesting keep the types (job.move, attestation.move). *)
LEMMA WorkStepType == TypeOK /\ WorkStep => TypeOK'
<1> SUFFICES ASSUME TypeOK, WorkStep PROVE TypeOK'
  OBVIOUS
<1>1. ASSUME NEW j \in JobIds, Ack(j)
      PROVE  TypeOK'
  <2>1. jobs[j] \in Jobs
    BY <1>1 DEF Ack, Exists, TypeOK
  <2>2. Acked(jobs[j]) \in Jobs
    BY <2>1, JobOperatorsType DEF Verdicts, JobStates, LiveStates
  <2>3. jobs' \in [JobIds -> Jobs \cup {NULL}]
    BY <1>1, <2>2 DEF Ack, TypeOK
  <2> QED
    BY <1>1, <2>3 DEF Ack, TypeOK, governance, money
<1>2. ASSUME NEW j \in JobIds, NEW m \in Models, NEW r \in Measurements, NEW o \in BOOLEAN,
             NEW l \in Latencies, SubmitMockAttestation(j, m, r, o, l)
      PROVE  TypeOK'
  BY <1>2, VerdictType, RecordAttestationType DEF SubmitMockAttestation
<1>3. ASSUME NEW j \in JobIds, NEW m \in Models, NEW r \in Measurements, NEW o \in BOOLEAN,
             NEW l \in Latencies, SubmitSignedAttestation(j, m, r, o, l)
      PROVE  TypeOK'
  BY <1>3, VerdictType, RecordAttestationType DEF SubmitSignedAttestation
<1> QED
  BY <1>1, <1>2, <1>3 DEF WorkStep

(* Burning a settled job's credits keeps the supply and the stake's counters natural. *)
LEMMA RetireType ==
  ASSUME TypeOK, NEW s \in StakeIds, NEW j \in JobIds, stakes[s] # NULL, Exists(j),
         supply >= jobs[j].credits, Retire(s, j)
  PROVE  supply' \in Nat /\ stakes' \in [StakeIds -> Stakes(Providers) \cup {NULL}]
<1>1. stakes[s] \in Stakes(Providers) /\ jobs[j] \in Jobs
  BY DEF TypeOK, Exists
<1>2. jobs[j].qty \in Nat /\ jobs[j].credits \in Nat
  BY <1>1 DEF Jobs
<1>3. Released(ConsumedMinted(stakes[s], jobs[j].qty), jobs[j].qty) \in Stakes(Providers)
  BY <1>1, <1>2, CountersType
<1> QED
  BY <1>2, <1>3 DEF Retire, TypeOK

(* Refunding a job and slashing a stake for it keeps the types: in particular what goes to *)
(* the treasury, the penalty less the compensation, is never negative (settlement.move).   *)
LEMMA RefundAndSlashType ==
  ASSUME TypeOK, NEW s \in StakeIds, NEW j \in JobIds, Exists(j), NEW fault \in Faults,
         NEW reason \in Reasons, RefundAndSlash(s, j, fault, reason)
  PROVE  TypeOK'
<1> DEFINE job     == jobs[j]
           penalty == SlashAmount(cfg.slash, stakes[s], job.qty, fault)
           comp    == Compensation(penalty, job.price)
<1>1. stakes[s] \in Stakes(Providers) /\ jobs[j] \in Jobs /\ cfg.slash \in SlashTerms
  BY DEF TypeOK, Exists, RefundAndSlash
<1>2. /\ job.qty \in Nat /\ job.price \in Nat /\ job.escrow \in Nat /\ job.credits \in Nat
      /\ job.consumer \in Addrs /\ job.provider \in Addrs
  BY <1>1 DEF Jobs, Addrs
<1>3. penalty \in Nat
  <2>1. stakes[s].bond \in Nat
    BY <1>1 DEF Stakes
  <2> QED
    BY <1>1, <1>2, <2>1, PenaltyWithinBond
<1>4. comp \in Nat /\ penalty - comp \in Nat
  <2> HIDE DEF penalty
  <2> QED
    BY <1>2, <1>3 DEF Compensation, AtMost
<1>5. /\ usdc' = [usdc EXCEPT ![job.consumer] = @ + job.escrow + comp]
      /\ treasury' = DepositSlash(treasury, penalty - comp)
      /\ credits' = [credits EXCEPT ![job.provider] = @ + job.credits]
      /\ stakes' = [stakes EXCEPT ![s] =
                      Released(Derated(Slashed(stakes[s], penalty)), job.qty)]
      /\ jobs' = [jobs EXCEPT ![j] = ClosedBySlash(jobs[j])]
      /\ receipts' = [receipts EXCEPT ![j] =
                        RefundReceipt(job.escrow, penalty, comp, reason)]
  BY DEF RefundAndSlash
<1> HIDE DEF penalty, comp
<1>6. usdc' \in [Addrs -> Nat] /\ credits' \in [Addrs -> Nat]
  <2> HIDE DEF job
  <2> QED
    BY <1>2, <1>4, <1>5 DEF TypeOK
<1>7. treasury' \in [funds : Nat, fees : Nat, slashes : Nat]
  <2>1. treasury.funds \in Nat /\ treasury.fees \in Nat /\ treasury.slashes \in Nat
    BY DEF TypeOK
  <2>2. treasury.funds + (penalty - comp) \in Nat /\ treasury.slashes + (penalty - comp) \in Nat
    BY <2>1, <1>4
  <2> QED
    BY <1>5, <2>1, <2>2 DEF DepositSlash, TypeOK
<1>8. stakes' \in [StakeIds -> Stakes(Providers) \cup {NULL}]
  <2>1. Released(Derated(Slashed(stakes[s], penalty)), job.qty) \in Stakes(Providers)
    BY <1>1, <1>2, <1>3, SlashedType, DeratedType, CountersType
  <2> QED
    BY <1>5, <2>1 DEF TypeOK
<1>9. jobs' \in [JobIds -> Jobs \cup {NULL}]
  <2>1. ClosedBySlash(jobs[j]) \in Jobs
    BY <1>1, JobOperatorsType DEF Verdicts, JobStates, LiveStates
  <2> QED
    BY <1>5, <2>1 DEF TypeOK
<1>10. receipts' \in [JobIds -> Receipts]
  <2>1. RefundReceipt(job.escrow, penalty, comp, reason) \in Receipts
    BY <1>2, <1>3, <1>4 DEF RefundReceipt, Receipts
  <2> QED
    BY <1>5, <2>1 DEF TypeOK
<1> QED
  BY <1>6, <1>7, <1>8, <1>9, <1>10 DEF RefundAndSlash, TypeOK, governance

(* A refund on a failing verdict charges one of the four faults. *)
LEMMA RefundOnVerdictType ==
  ASSUME TypeOK, NEW s \in StakeIds, NEW j \in JobIds, Exists(j), RefundOnVerdict(s, j)
  PROVE  TypeOK'
<1>1. CASE jobs[j].verdict = "sla"
  BY <1>1, RefundAndSlashType DEF RefundOnVerdict, Faults, Reasons
<1>2. CASE jobs[j].verdict # "sla"
  BY <1>2, RefundAndSlashType DEF RefundOnVerdict, Faults, Reasons
<1> QED
  BY <1>1, <1>2

(* What an expiry is charged with is a fault and a reason. *)
LEMMA ExpiryFaultType ==
  ASSUME NEW j \in JobIds, ExpiryFault(j) # <<>>
  PROVE  ExpiryFault(j)[1] \in Faults /\ ExpiryFault(j)[2] \in Reasons
BY DEF ExpiryFault, Faults, Reasons

(* Every settlement entry point keeps the types. *)
LEMMA SettlementStepType == TypeOK /\ SettlementStep => TypeOK'
<1> SUFFICES ASSUME TypeOK, NEW s \in StakeIds, NEW j \in JobIds,
                    Resolve(s, j) \/ Cancel(s, j)
             PROVE  TypeOK'
  BY DEF SettlementStep
<1>1. ASSUME Settle(s, j)
      PROVE  TypeOK'
  <2> DEFINE fee == FeeOn(jobs[j].price)
             payout == jobs[j].escrow - fee
  <2>1. jobs[j] \in Jobs /\ stakes[s] # NULL /\ Exists(j)
    BY <1>1 DEF Settle, Exists, TypeOK
  <2>2. jobs[j].price \in Nat /\ jobs[j].escrow \in Nat /\ jobs[j].provider \in Addrs
    BY <2>1 DEF Jobs, Addrs
  <2>3. fee \in Nat /\ payout \in Nat
    <3>1. fee \in Nat
      BY <2>2, FeeIsNat
    <3>2. jobs[j].escrow >= fee
      BY <1>1 DEF Settle
    <3> HIDE DEF fee
    <3> QED
      BY <2>2, <3>1, <3>2
  <2>4. /\ usdc' = [usdc EXCEPT ![jobs[j].provider] = @ + payout]
        /\ treasury' = DepositFee(treasury, fee)
        /\ receipts' = [receipts EXCEPT ![j] = SettledReceipt(payout, fee)]
    BY <1>1 DEF Settle
  <2> HIDE DEF fee, payout
  <2>5. usdc' \in [Addrs -> Nat]
    BY <2>2, <2>3, <2>4 DEF TypeOK
  <2>6. treasury' \in [funds : Nat, fees : Nat, slashes : Nat]
    <3>1. treasury.funds + fee \in Nat /\ treasury.fees + fee \in Nat
      BY <2>3 DEF TypeOK
    <3> QED
      BY <2>4, <3>1 DEF DepositFee, TypeOK
  <2>7. receipts' \in [JobIds -> Receipts]
    <3>1. SettledReceipt(payout, fee) \in Receipts
      BY <2>3 DEF SettledReceipt, Receipts, Reasons
    <3> QED
      BY <2>4, <3>1 DEF TypeOK
  <2>8. supply' \in Nat /\ stakes' \in [StakeIds -> Stakes(Providers) \cup {NULL}]
    BY <1>1, <2>1, RetireType DEF Settle
  <2>9. jobs' \in [JobIds -> Jobs \cup {NULL}]
    <3>1. Closed(jobs[j], "Settled") \in Jobs
      BY <2>1, JobOperatorsType DEF Verdicts, JobStates, TerminalStates
    <3> QED
      BY <1>1, <3>1 DEF Settle, TypeOK
  <2> QED
    BY <1>1, <2>5, <2>6, <2>7, <2>8, <2>9 DEF Settle, TypeOK, governance
<1>2. ASSUME SettleFill(s, j)
      PROVE  TypeOK'
  <2>1. jobs[j] \in Jobs /\ stakes[s] # NULL /\ Exists(j)
    BY <1>2 DEF SettleFill, Exists, TypeOK
  <2>2. supply' \in Nat /\ stakes' \in [StakeIds -> Stakes(Providers) \cup {NULL}]
    BY <1>2, <2>1, RetireType DEF SettleFill
  <2>3. jobs' \in [JobIds -> Jobs \cup {NULL}]
    <3>1. Closed(jobs[j], "Settled") \in Jobs
      BY <2>1, JobOperatorsType DEF Verdicts, JobStates, TerminalStates
    <3> QED
      BY <1>2, <3>1 DEF SettleFill, TypeOK
  <2>4. receipts' \in [JobIds -> Receipts]
    <3>1. SettledReceipt(0, 0) \in Receipts
      BY DEF SettledReceipt, Receipts, Reasons
    <3> QED
      BY <1>2, <3>1 DEF SettleFill, TypeOK
  <2> QED
    BY <1>2, <2>2, <2>3, <2>4 DEF SettleFill, TypeOK, governance, money
<1>3. ASSUME ResolveAttested(s, j)
      PROVE  TypeOK'
  BY <1>3, RefundOnVerdictType DEF ResolveAttested
<1>4. ASSUME ResolveFill(s, j)
      PROVE  TypeOK'
  BY <1>4, RefundOnVerdictType DEF ResolveFill
<1>5. ASSUME ExpireAndResolve(s, j)
      PROVE  TypeOK'
  BY <1>5, ExpiryFaultType, RefundAndSlashType DEF ExpireAndResolve
<1>6. ASSUME Cancel(s, j)
      PROVE  TypeOK'
  <2>1. jobs[j] \in Jobs /\ stakes[s] \in Stakes(Providers)
    BY <1>6 DEF Cancel, Exists, TypeOK
  <2>2. /\ jobs[j].qty \in Nat /\ jobs[j].escrow \in Nat /\ jobs[j].credits \in Nat
        /\ jobs[j].consumer \in Addrs /\ jobs[j].provider \in Addrs
    BY <2>1 DEF Jobs, Addrs
  <2>3. usdc' \in [Addrs -> Nat]
    BY <1>6, <2>2 DEF Cancel, TypeOK
  <2>4. credits' \in [Addrs -> Nat]
    BY <1>6, <2>2 DEF Cancel, TypeOK
  <2>5. stakes' \in [StakeIds -> Stakes(Providers) \cup {NULL}]
    <3>1. Released(stakes[s], jobs[j].qty) \in Stakes(Providers)
      BY <2>1, <2>2, CountersType
    <3> QED
      BY <1>6, <3>1 DEF Cancel, TypeOK
  <2>6. jobs' \in [JobIds -> Jobs \cup {NULL}]
    <3>1. Closed(jobs[j], "Refunded") \in Jobs
      BY <2>1, JobOperatorsType DEF Verdicts, JobStates, TerminalStates
    <3> QED
      BY <1>6, <3>1 DEF Cancel, TypeOK
  <2>7. receipts' \in [JobIds -> Receipts]
    <3>1. RefundReceipt(jobs[j].escrow, 0, 0, "Cancelled") \in Receipts
      BY <2>2 DEF RefundReceipt, Receipts, Reasons
    <3> QED
      BY <1>6, <3>1 DEF Cancel, TypeOK
  <2> QED
    BY <1>6, <2>3, <2>4, <2>5, <2>6, <2>7 DEF Cancel, TypeOK, governance
<1> QED
  BY <1>1, <1>2, <1>3, <1>4, <1>5, <1>6 DEF Resolve

(* Governance and the passing of time keep the types. *)
LEMMA GovernanceStepType == TypeOK /\ GovernanceStep => TypeOK'
<1> SUFFICES ASSUME TypeOK, GovernanceStep PROVE TypeOK'
  OBVIOUS
<1> DEFINE Cfg == [paused : BOOLEAN, localnet : BOOLEAN, feeBps : 0 .. BPS_DENOM,
                   minStake : Nat, slash : SlashTerms]
           Mkt == [active : BOOLEAN, pool : BOOLEAN, sla : SlaParams,
                   feeTier : 0 .. BPS_DENOM]
<1>1. ASSUME NEW switch, NEW new \in Cfg, Configure(switch, new)
      PROVE  TypeOK'
  BY <1>1 DEF Configure, TypeOK, money
<1>2. ASSUME NEW switch, NEW new \in Mkt, Remarket(switch, new)
      PROVE  TypeOK'
  BY <1>2 DEF Remarket, TypeOK, money
<1>3. cfg \in Cfg /\ market \in Mkt
  BY DEF TypeOK
<1>4. ASSUME NEW b \in BOOLEAN
      PROVE  /\ [cfg EXCEPT !.paused = b] \in Cfg
             /\ [cfg EXCEPT !.localnet = b] \in Cfg
             /\ [market EXCEPT !.active = b] \in Mkt
             /\ [market EXCEPT !.pool = TRUE] \in Mkt
  BY <1>3
<1>5. ASSUME NEW rate \in FeeRates
      PROVE  [cfg EXCEPT !.feeBps = rate] \in Cfg /\ [market EXCEPT !.feeTier = rate] \in Mkt
  BY <1>3, MarketAssumption
<1>6. ASSUME NEW terms \in SlashSchedules
      PROVE  [cfg EXCEPT !.slash = terms] \in Cfg
  BY <1>3, MarketAssumption
<1>7. ASSUME NEW b \in Bonds
      PROVE  [cfg EXCEPT !.minStake = b] \in Cfg
  BY <1>3, AmountsAreNat
<1>8. ASSUME NEW sla \in Slas
      PROVE  [market EXCEPT !.sla = sla] \in Mkt
  BY <1>3, MarketAssumption
<1> HIDE DEF Cfg, Mkt
<1>9. CASE \E b \in BOOLEAN :
             SetPause(b) \/ SetIsLocalnet(b) \/ SetMarketActive(b) \/ SetPool
  BY <1>9, <1>1, <1>2, <1>4 DEF SetPause, SetIsLocalnet, SetMarketActive, SetPool
<1>10. CASE \E rate \in FeeRates : SetProtocolFee(rate) \/ SetFeeTier(rate)
  BY <1>10, <1>1, <1>2, <1>5 DEF SetProtocolFee, SetFeeTier
<1>11. CASE \E terms \in SlashSchedules : SetSlashTerms(terms)
  BY <1>11, <1>1, <1>6 DEF SetSlashTerms
<1>12. CASE \E b \in Bonds : SetMinStake(b)
  BY <1>12, <1>1, <1>7 DEF SetMinStake
<1>13. CASE \E sla \in Slas : SetSla(sla)
  BY <1>13, <1>2, <1>8 DEF SetSla
<1>14. ASSUME NEW m \in Models, NEW b \in BOOLEAN, SetModelActive(m, b)
       PROVE  TypeOK'
  BY <1>14 DEF SetModelActive, TypeOK, money
<1>15. ASSUME NEW m \in Models, NEW r \in Measurements,
              AddMeasurement(m, r) \/ RemoveMeasurement(m, r)
       PROVE  TypeOK'
  BY <1>15 DEF AddMeasurement, RemoveMeasurement, TypeOK, money
<1>16. ASSUME NEW amount \in Withdrawals, WithdrawTreasury(amount)
       PROVE  TypeOK'
  <2>1. amount \in Nat /\ Admin \in Addrs
    BY AmountsAreNat DEF Addrs
  <2>2. treasury' \in [funds : Nat, fees : Nat, slashes : Nat]
    BY <1>16, <2>1 DEF WithdrawTreasury, TypeOK
  <2>3. usdc' \in [Addrs -> Nat]
    BY <1>16, <2>1 DEF WithdrawTreasury, TypeOK
  <2> QED
    BY <1>16, <2>2, <2>3 DEF WithdrawTreasury, TypeOK, governance
<1> QED
  BY <1>9, <1>10, <1>11, <1>12, <1>13, <1>14, <1>15, <1>16 DEF GovernanceStep

(* The type invariant is inductive: every entry point and the clock keep it. *)
LEMMA TypeInductive == TypeOK /\ [Next]_vars => TypeOK'
<1> SUFFICES ASSUME TypeOK, [Next]_vars PROVE TypeOK'
  OBVIOUS
<1>1. CASE Tick
  BY <1>1 DEF Tick, TypeOK, governance, money
<1>2. CASE UNCHANGED vars
  BY <1>2 DEF vars, TypeOK, governance, money
<1> QED
  BY <1>1, <1>2, ProviderStepType, CreationStepType, WorkStepType, SettlementStepType,
     GovernanceStepType DEF Next

(* Every object, balance and counter keeps its Move type: no counter, balance or payment *)
(* of the package is ever negative, whatever the amounts (all of contracts/sources).     *)
THEOREM TypeCorrect == Spec => []TypeOK
BY InitType, TypeInductive, PTL DEF Spec

=============================================================================
