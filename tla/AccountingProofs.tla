-------------------------- MODULE AccountingProofs --------------------------
(***************************************************************************)
(* The sums of ExchangeAccounting, and what governance relies on.           *)
(***************************************************************************)
EXTENDS ExchangeAccounting, EscrowProofs, SumProofs

-----------------------------------------------------------------------------
(* The accounts *)

(* The accounts hold natural numbers, for finitely many objects. *)
LEMMA AccountsType ==
  ASSUME TypeOK
  PROVE  /\ usdc \in [Addrs -> Nat] /\ credits \in [Addrs -> Nat]
         /\ AskCredits \in [AskIds -> Nat]
         /\ JobCredits \in [JobIds -> Nat]
         /\ JobEscrows \in [JobIds -> Nat]
         /\ OwnedQuantities \in [JobIds -> Nat]
         /\ StakeBonds \in [StakeIds -> Nat]
<1>1. AskCredits \in [AskIds -> Nat]
  BY DEF TypeOK, AskCredits, Asks
<1>2. /\ JobCredits \in [JobIds -> Nat]
      /\ JobEscrows \in [JobIds -> Nat]
      /\ OwnedQuantities \in [JobIds -> Nat]
  BY DEF TypeOK, JobCredits, JobEscrows, OwnedQuantities, Jobs, Live, Exists
<1>3. StakeBonds \in [StakeIds -> Nat]
  BY DEF TypeOK, StakeBonds, Stakes
<1> QED
  BY <1>1, <1>2, <1>3 DEF TypeOK

(* There are finitely many addresses. *)
LEMMA AddrsFinite == IsFiniteSet(Addrs)
<1>1. IsFiniteSet(Providers \cup Consumers)
  BY FiniteAssumption, FS_Union
<1>2. IsFiniteSet((Providers \cup Consumers) \cup {Admin})
  BY <1>1, FS_AddElement
<1> QED
  BY <1>2 DEF Addrs

TotalsNat ==
  /\ SumFunction(usdc) \in Nat /\ SumFunction(credits) \in Nat
  /\ SumFunction(AskCredits) \in Nat /\ SumFunction(JobCredits) \in Nat
  /\ SumFunction(JobEscrows) \in Nat /\ SumFunction(OwnedQuantities) \in Nat
  /\ SumFunction(StakeBonds) \in Nat

(* So every account has a total, a natural number. *)
LEMMA TotalsAreNat == TypeOK => TotalsNat
<1> SUFFICES ASSUME TypeOK PROVE TotalsNat
  OBVIOUS
<1>1. SumFunction(usdc) \in Nat /\ SumFunction(credits) \in Nat
  BY AccountsType, AddrsFinite, SumType
<1>2. SumFunction(AskCredits) \in Nat
  BY AccountsType, FiniteAssumption, SumType
<1>3. /\ SumFunction(JobCredits) \in Nat /\ SumFunction(JobEscrows) \in Nat
      /\ SumFunction(OwnedQuantities) \in Nat
  BY AccountsType, FiniteAssumption, SumType
<1>4. SumFunction(StakeBonds) \in Nat
  BY AccountsType, FiniteAssumption, SumType
<1> QED
  BY <1>1, <1>2, <1>3, <1>4 DEF TotalsNat

(* And after a step too. *)
LEMMA TotalsStayNat == TypeOK' => TotalsNat'
BY TotalsAreNat, PTL

(* One holder's balance changes: the total changes by the difference. *)
LEMMA OneBalance ==
  ASSUME NEW f \in [Addrs -> Nat], NEW a \in Addrs, NEW x \in Nat
  PROVE  SumFunction([f EXCEPT ![a] = x]) = SumFunction(f) - f[a] + x
<1> DEFINE g == [f EXCEPT ![a] = x]
<1>1. g \in [Addrs -> Int] /\ f \in [Addrs -> Int] /\ g[a] = x
      /\ \A b \in Addrs \ {a} : g[b] = f[b]
  OBVIOUS
<1> HIDE DEF g
<1>2. SumFunction(g) = SumFunction(f) - f[a] + g[a]
  BY <1>1, AddrsFinite, SumChange
<1> QED
  BY <1>1, <1>2 DEF g

(* What a holder gives away, another one has: the total stays (both may be the same). *)
LEMMA OneTransfer ==
  ASSUME NEW f \in [Addrs -> Nat], NEW a \in Addrs, NEW b \in Addrs,
         NEW x \in Nat, x <= f[a]
  PROVE  SumFunction(Moved(f, a, b, x)) = SumFunction(f)
<1> DEFINE g == [f EXCEPT ![a] = f[a] - x]
<1>1. f[a] \in Nat /\ f[a] - x \in Nat
  OBVIOUS
<1>2. SumFunction(g) = SumFunction(f) - f[a] + (f[a] - x)
  BY <1>1, OneBalance
<1>3. g \in [Addrs -> Nat] /\ g[b] \in Nat /\ g[b] + x \in Nat
  BY <1>1
<1>4. Moved(f, a, b, x) = [g EXCEPT ![b] = g[b] + x]
  BY DEF Moved
<1> HIDE DEF g
<1>5. SumFunction([g EXCEPT ![b] = g[b] + x]) = SumFunction(g) - g[b] + (g[b] + x)
  BY <1>3, OneBalance
<1>6. SumFunction(f) \in Nat /\ SumFunction(g) \in Nat
  BY <1>3, AddrsFinite, SumType
<1> QED
  BY <1>1, <1>2, <1>3, <1>4, <1>5, <1>6

(* One ask changes: the credits resting in asks change by the difference. *)
LEMMA OneAsk ==
  ASSUME TypeOK, TypeOK', NEW a \in AskIds, \A b \in AskIds \ {a} : asks'[b] = asks[b]
  PROVE  SumFunction(AskCredits') = SumFunction(AskCredits) - AskCredits[a] + AskCredits'[a]
<1>1. AskCredits \in [AskIds -> Int] /\ AskCredits' \in [AskIds -> Int]
  BY AccountsType DEF TypeOK, AskCredits, Asks
<1>2. \A b \in AskIds \ {a} : AskCredits'[b] = AskCredits[b]
  BY DEF AskCredits
<1> QED
  BY <1>1, <1>2, FiniteAssumption, SumChange

(* One stake changes: the bonds change by the difference. *)
LEMMA OneStake ==
  ASSUME TypeOK, TypeOK', NEW s \in StakeIds, \A t \in StakeIds \ {s} : stakes'[t] = stakes[t]
  PROVE  SumFunction(StakeBonds') = SumFunction(StakeBonds) - StakeBonds[s] + StakeBonds'[s]
<1>1. StakeBonds \in [StakeIds -> Int] /\ StakeBonds' \in [StakeIds -> Int]
  BY DEF TypeOK, StakeBonds, Stakes
<1>2. \A t \in StakeIds \ {s} : StakeBonds'[t] = StakeBonds[t]
  BY DEF StakeBonds
<1> QED
  BY <1>1, <1>2, FiniteAssumption, SumChange

(* One job changes: the reserved credits, the escrows and the quantities reserved on the *)
(* stakes change by that job's differences.                                              *)
LEMMA OneJob ==
  ASSUME TypeOK, TypeOK', NEW j \in JobIds, \A i \in JobIds \ {j} : jobs'[i] = jobs[i]
  PROVE  /\ SumFunction(JobCredits') = SumFunction(JobCredits) - JobCredits[j] + JobCredits'[j]
         /\ SumFunction(JobEscrows') = SumFunction(JobEscrows) - JobEscrows[j] + JobEscrows'[j]
         /\ SumFunction(OwnedQuantities')
              = SumFunction(OwnedQuantities) - OwnedQuantities[j] + OwnedQuantities'[j]
<1>1. /\ JobCredits \in [JobIds -> Int] /\ JobCredits' \in [JobIds -> Int]
      /\ JobEscrows \in [JobIds -> Int] /\ JobEscrows' \in [JobIds -> Int]
      /\ OwnedQuantities \in [JobIds -> Int] /\ OwnedQuantities' \in [JobIds -> Int]
  BY DEF TypeOK, JobCredits, JobEscrows, OwnedQuantities, Jobs, Live, Exists
<1>2. \A i \in JobIds \ {j} :
        /\ JobCredits'[i] = JobCredits[i]
        /\ JobEscrows'[i] = JobEscrows[i]
        /\ OwnedQuantities'[i] = OwnedQuantities[i]
  BY DEF JobCredits, JobEscrows, OwnedQuantities, Live, Exists
<1>3. SumFunction(JobCredits') = SumFunction(JobCredits) - JobCredits[j] + JobCredits'[j]
  BY <1>1, <1>2, FiniteAssumption, SumChange
<1>4. SumFunction(JobEscrows') = SumFunction(JobEscrows) - JobEscrows[j] + JobEscrows'[j]
  BY <1>1, <1>2, FiniteAssumption, SumChange
<1>5. SumFunction(OwnedQuantities')
        = SumFunction(OwnedQuantities) - OwnedQuantities[j] + OwnedQuantities'[j]
  BY <1>1, <1>2, FiniteAssumption, SumChange
<1> QED
  BY <1>3, <1>4, <1>5

(* Tables that are left alone keep their accounts. *)
LEMMA SameTables ==
  /\ asks' = asks => AskCredits' = AskCredits
  /\ stakes' = stakes => StakeBonds' = StakeBonds
  /\ jobs' = jobs =>
       JobCredits' = JobCredits /\ JobEscrows' = JobEscrows
         /\ OwnedQuantities' = OwnedQuantities
BY DEF AskCredits, StakeBonds, JobCredits, JobEscrows, OwnedQuantities, Live, Exists

-----------------------------------------------------------------------------
(* What each step does to the accounts *)

Dollars ==
  SumFunction(usdc) + SumFunction(JobEscrows) + SumFunction(StakeBonds) + treasury.funds

\* The supply grows by what the circulation grows by, and no dollar appears or is lost.
CreditsKept == supply' - supply = CirculatingCredits' - CirculatingCredits
DollarsKept == Dollars' = Dollars

(* A step that leaves the credits and the places they are in alone. *)
LEMMA CreditsLeftAlone ==
  ASSUME TypeOK, UNCHANGED <<supply, credits, asks, jobs>>
  PROVE  CreditsKept
<1>1. CirculatingCredits' = CirculatingCredits
  BY SameTables DEF CirculatingCredits
<1>2. CirculatingCredits \in Nat
  BY TotalsAreNat DEF TotalsNat, CirculatingCredits
<1> QED
  BY <1>1, <1>2 DEF CreditsKept, TypeOK

(* A step that leaves the dollars and the places they are in alone. *)
LEMMA DollarsLeftAlone ==
  ASSUME UNCHANGED <<usdc, treasury, stakes, jobs>>
  PROVE  DollarsKept
BY SameTables DEF DollarsKept, Dollars

(* What a live job, a closed one and a slot without a job hold. *)
LEMMA JobHoldings ==
  ASSUME NEW j \in JobIds
  PROVE  /\ Live(j) => /\ JobCredits[j] = jobs[j].credits /\ JobEscrows[j] = jobs[j].escrow
                       /\ OwnedQuantities[j] = IF jobs[j].kind = "owned" THEN jobs[j].qty ELSE 0
         /\ ~Live(j) => JobCredits[j] = 0 /\ JobEscrows[j] = 0 /\ OwnedQuantities[j] = 0
         /\ Live(j)' => /\ JobCredits'[j] = jobs'[j].credits /\ JobEscrows'[j] = jobs'[j].escrow
                        /\ OwnedQuantities'[j] = IF jobs'[j].kind = "owned" THEN jobs'[j].qty ELSE 0
         /\ ~Live(j)' => JobCredits'[j] = 0 /\ JobEscrows'[j] = 0 /\ OwnedQuantities'[j] = 0
BY DEF JobCredits, JobEscrows, OwnedQuantities

(* A job that is created adds what it holds to the accounts. *)
LEMMA CreatedJob ==
  ASSUME TypeOK, TypeOK', NEW j \in JobIds, jobs[j] = NULL,
         NEW job, jobs' = [jobs EXCEPT ![j] = job], job # NULL, job.state \in LiveStates
  PROVE  /\ SumFunction(JobCredits') = SumFunction(JobCredits) + job.credits
         /\ SumFunction(JobEscrows') = SumFunction(JobEscrows) + job.escrow
         /\ SumFunction(OwnedQuantities')
              = SumFunction(OwnedQuantities) + IF job.kind = "owned" THEN job.qty ELSE 0
<1>1. jobs'[j] = job /\ \A i \in JobIds \ {j} : jobs'[i] = jobs[i]
  BY DEF TypeOK
<1>2. ~Live(j) /\ Live(j)'
  BY <1>1 DEF Live, Exists
<1>3. /\ JobCredits[j] = 0 /\ JobEscrows[j] = 0 /\ OwnedQuantities[j] = 0
      /\ JobCredits'[j] = job.credits /\ JobEscrows'[j] = job.escrow
      /\ OwnedQuantities'[j] = IF job.kind = "owned" THEN job.qty ELSE 0
  BY <1>1, <1>2, JobHoldings
<1>4. /\ SumFunction(JobCredits) \in Nat /\ SumFunction(JobEscrows) \in Nat
      /\ SumFunction(OwnedQuantities) \in Nat
  BY TotalsAreNat DEF TotalsNat
<1>5. /\ SumFunction(JobCredits') = SumFunction(JobCredits) - JobCredits[j] + JobCredits'[j]
      /\ SumFunction(JobEscrows') = SumFunction(JobEscrows) - JobEscrows[j] + JobEscrows'[j]
      /\ SumFunction(OwnedQuantities')
           = SumFunction(OwnedQuantities) - OwnedQuantities[j] + OwnedQuantities'[j]
  BY <1>1, OneJob
<1> QED
  BY <1>3, <1>4, <1>5

(* A job that is acknowledged or judged goes on holding what it held. *)
LEMMA WorkedJob ==
  ASSUME TypeOK, TypeOK', NEW j \in JobIds, Live(j),
         NEW job, jobs' = [jobs EXCEPT ![j] = job],
         job # NULL, job.state \in LiveStates, SameTerms(job, jobs[j]),
         job.escrow = jobs[j].escrow, job.credits = jobs[j].credits
  PROVE  /\ SumFunction(JobCredits') = SumFunction(JobCredits)
         /\ SumFunction(JobEscrows') = SumFunction(JobEscrows)
         /\ SumFunction(OwnedQuantities') = SumFunction(OwnedQuantities)
<1>1. jobs'[j] = job /\ \A i \in JobIds \ {j} : jobs'[i] = jobs[i]
  BY DEF TypeOK
<1>2. Live(j)'
  BY <1>1 DEF Live, Exists
<1>3. /\ JobCredits'[j] = JobCredits[j] /\ JobEscrows'[j] = JobEscrows[j]
      /\ OwnedQuantities'[j] = OwnedQuantities[j]
  BY <1>1, <1>2, JobHoldings DEF SameTerms
<1>4. JobCredits[j] \in Nat /\ JobEscrows[j] \in Nat /\ OwnedQuantities[j] \in Nat
  BY AccountsType
<1>5. /\ SumFunction(JobCredits) \in Nat /\ SumFunction(JobEscrows) \in Nat
      /\ SumFunction(OwnedQuantities) \in Nat
  BY TotalsAreNat DEF TotalsNat
<1>6. /\ SumFunction(JobCredits') = SumFunction(JobCredits) - JobCredits[j] + JobCredits'[j]
      /\ SumFunction(JobEscrows') = SumFunction(JobEscrows) - JobEscrows[j] + JobEscrows'[j]
      /\ SumFunction(OwnedQuantities')
           = SumFunction(OwnedQuantities) - OwnedQuantities[j] + OwnedQuantities'[j]
  BY <1>1, OneJob
<1> QED
  BY <1>3, <1>4, <1>5, <1>6

(* A job that ends takes what it held out of the accounts. *)
LEMMA EndedJob ==
  ASSUME TypeOK, TypeOK', NEW j \in JobIds, Live(j),
         NEW job, jobs' = [jobs EXCEPT ![j] = job], job.state \in TerminalStates
  PROVE  /\ SumFunction(JobCredits') = SumFunction(JobCredits) - jobs[j].credits
         /\ SumFunction(JobEscrows') = SumFunction(JobEscrows) - jobs[j].escrow
         /\ SumFunction(OwnedQuantities')
              = SumFunction(OwnedQuantities) - IF jobs[j].kind = "owned" THEN jobs[j].qty ELSE 0
<1>1. jobs'[j] = job /\ \A i \in JobIds \ {j} : jobs'[i] = jobs[i]
  BY DEF TypeOK
<1>2. ~Live(j)'
  BY <1>1 DEF Live, Exists, LiveStates, TerminalStates
<1>3. /\ JobCredits'[j] = 0 /\ JobEscrows'[j] = 0 /\ OwnedQuantities'[j] = 0
      /\ JobCredits[j] = jobs[j].credits /\ JobEscrows[j] = jobs[j].escrow
      /\ OwnedQuantities[j] = IF jobs[j].kind = "owned" THEN jobs[j].qty ELSE 0
  BY <1>2, JobHoldings
<1>4. JobCredits[j] \in Nat /\ JobEscrows[j] \in Nat /\ OwnedQuantities[j] \in Nat
  BY AccountsType
<1>5. /\ SumFunction(JobCredits) \in Nat /\ SumFunction(JobEscrows) \in Nat
      /\ SumFunction(OwnedQuantities) \in Nat
  BY TotalsAreNat DEF TotalsNat
<1>6. /\ SumFunction(JobCredits') = SumFunction(JobCredits) - JobCredits[j] + JobCredits'[j]
      /\ SumFunction(JobEscrows') = SumFunction(JobEscrows) - JobEscrows[j] + JobEscrows'[j]
      /\ SumFunction(OwnedQuantities')
           = SumFunction(OwnedQuantities) - OwnedQuantities[j] + OwnedQuantities'[j]
  BY <1>1, OneJob
<1> QED
  BY <1>3, <1>4, <1>5, <1>6

(* A stake that changes changes the bonds by its own difference. *)
LEMMA ChangedStake ==
  ASSUME TypeOK, TypeOK', NEW s \in StakeIds, stakes[s] # NULL,
         NEW st \in Stakes(Providers), stakes' = [stakes EXCEPT ![s] = st]
  PROVE  SumFunction(StakeBonds') = SumFunction(StakeBonds) - stakes[s].bond + st.bond
<1>1. stakes'[s] = st /\ \A t \in StakeIds \ {s} : stakes'[t] = stakes[t]
  BY DEF TypeOK
<1>2. StakeBonds[s] = stakes[s].bond /\ StakeBonds'[s] = st.bond
  BY <1>1, NullAssumption DEF StakeBonds
<1> QED
  BY <1>1, <1>2, OneStake

(* Minting, reserving, releasing, consuming and derating leave the bond alone; a slash   *)
(* within the bond takes exactly its amount, and so does a withdrawal.                   *)
LEMMA BondFields ==
  ASSUME NEW st \in Stakes(Providers), NEW q \in Nat
  PROVE  /\ Minted(st, q).bond = st.bond /\ Reserved(st, q).bond = st.bond
         /\ Released(st, q).bond = st.bond /\ ConsumedMinted(st, q).bond = st.bond
         /\ Derated(st).bond = st.bond
         /\ Withdrawn(st, q).bond = st.bond - q
         /\ q <= st.bond => Slashed(st, q).bond = st.bond - q
<1>1. st.bond \in Nat
  BY DEF Stakes
<1>2. q <= st.bond => AtMost(q, st.bond) = q
  BY <1>1 DEF AtMost
<1>3. q <= st.bond => Slashed(st, q).bond = st.bond - q
  BY <1>2 DEF Slashed, Stakes
<1> QED
  BY <1>3 DEF Minted, Reserved, Released, ConsumedMinted, Derated, Withdrawn, Stakes

(* The dollars are kept when what the wallets, escrows, bonds and treasury gain and lose *)
(* cancels out.                                                                          *)
LEMMA DollarsBalance ==
  ASSUME TypeOK, TypeOK',
         NEW w \in Int, NEW e \in Int, NEW b \in Int, NEW t \in Int, w + e + b + t = 0,
         SumFunction(usdc') = SumFunction(usdc) + w,
         SumFunction(JobEscrows') = SumFunction(JobEscrows) + e,
         SumFunction(StakeBonds') = SumFunction(StakeBonds) + b,
         treasury'.funds = treasury.funds + t
  PROVE  DollarsKept
<1>1. /\ SumFunction(usdc) \in Nat /\ SumFunction(JobEscrows) \in Nat
      /\ SumFunction(StakeBonds) \in Nat
  BY TotalsAreNat DEF TotalsNat
<1>2. treasury.funds \in Nat
  BY DEF TypeOK
<1> QED
  BY <1>1, <1>2 DEF DollarsKept, Dollars

(* The credits are kept when the supply gains what wallets, asks and jobs gain together. *)
LEMMA CreditsBalance ==
  ASSUME TypeOK, TypeOK',
         NEW u \in Int, NEW w \in Int, NEW a \in Int, NEW r \in Int, u = w + a + r,
         supply' = supply + u,
         SumFunction(credits') = SumFunction(credits) + w,
         SumFunction(AskCredits') = SumFunction(AskCredits) + a,
         SumFunction(JobCredits') = SumFunction(JobCredits) + r
  PROVE  CreditsKept
<1>1. /\ SumFunction(credits) \in Nat /\ SumFunction(AskCredits) \in Nat
      /\ SumFunction(JobCredits) \in Nat
  BY TotalsAreNat DEF TotalsNat
<1>2. supply \in Nat
  BY DEF TypeOK
<1> QED
  BY <1>1, <1>2 DEF CreditsKept, CirculatingCredits

(* What stays the same gains nothing. *)
LEMMA SameTotals ==
  ASSUME TypeOK
  PROVE  /\ usdc' = usdc => SumFunction(usdc') = SumFunction(usdc) + 0
         /\ credits' = credits => SumFunction(credits') = SumFunction(credits) + 0
         /\ asks' = asks => SumFunction(AskCredits') = SumFunction(AskCredits) + 0
         /\ stakes' = stakes => SumFunction(StakeBonds') = SumFunction(StakeBonds) + 0
         /\ jobs' = jobs => /\ SumFunction(JobCredits') = SumFunction(JobCredits) + 0
                            /\ SumFunction(JobEscrows') = SumFunction(JobEscrows) + 0
                            /\ SumFunction(OwnedQuantities') = SumFunction(OwnedQuantities) + 0
         /\ treasury' = treasury => treasury'.funds = treasury.funds + 0
         /\ supply' = supply => supply' = supply + 0
<1>1. TotalsNat /\ treasury.funds \in Nat /\ supply \in Nat
  BY TotalsAreNat DEF TypeOK
<1> QED
  BY <1>1, SameTables DEF TotalsNat

(* A payment adds its amount to the sum of the wallets. *)
LEMMA Payment ==
  ASSUME NEW f \in [Addrs -> Nat], NEW a \in Addrs, NEW x \in Nat
  PROVE  SumFunction([f EXCEPT ![a] = f[a] + x]) = SumFunction(f) + x
<1>1. f[a] \in Nat /\ f[a] + x \in Nat
  OBVIOUS
<1>2. SumFunction([f EXCEPT ![a] = f[a] + x]) = SumFunction(f) - f[a] + (f[a] + x)
  BY <1>1, OneBalance
<1>3. SumFunction(f) \in Nat
  BY AddrsFinite, SumType
<1> QED
  BY <1>1, <1>2, <1>3

(* A charge takes its amount out of the sum of the wallets. *)
LEMMA Charge ==
  ASSUME NEW f \in [Addrs -> Nat], NEW a \in Addrs, NEW x \in Nat, x <= f[a]
  PROVE  SumFunction([f EXCEPT ![a] = f[a] - x]) = SumFunction(f) + (-x)
<1>1. f[a] \in Nat /\ f[a] - x \in Nat
  OBVIOUS
<1>2. SumFunction([f EXCEPT ![a] = f[a] - x]) = SumFunction(f) - f[a] + (f[a] - x)
  BY <1>1, OneBalance
<1>3. SumFunction(f) \in Nat
  BY AddrsFinite, SumType
<1> QED
  BY <1>1, <1>2, <1>3

(* Staking moves dollars from a wallet into a new bond (staking.move). *)
LEMMA StakeAccounts ==
  ASSUME TypeOK, TypeOK', NEW p \in Providers, NEW s \in StakeIds, NEW x \in Nat, NEW n \in Nat,
         Stake(p, s, x, n)
  PROVE  CreditsKept /\ DollarsKept
<1>1. p \in Addrs /\ usdc \in [Addrs -> Nat] /\ x <= usdc[p]
  BY DEF Stake, TypeOK, Addrs
<1>2. usdc' = [usdc EXCEPT ![p] = usdc[p] - x]
  BY DEF Stake
<1>3. SumFunction(usdc') = SumFunction(usdc) + (-x)
  BY <1>1, <1>2, Charge
<1>4. stakes[s] = NULL /\ stakes' = [stakes EXCEPT ![s] = NewStake(p, x, n)]
  BY DEF Stake
<1>5. NewStake(p, x, n) \in Stakes(Providers)
  BY NewStakeType
<1>6. stakes'[s] = NewStake(p, x, n) /\ \A t \in StakeIds \ {s} : stakes'[t] = stakes[t]
  BY <1>4 DEF TypeOK
<1>7. StakeBonds[s] = 0 /\ StakeBonds'[s] = x
  BY <1>4, <1>5, <1>6, NullAssumption DEF StakeBonds, NewStake
<1>8. SumFunction(StakeBonds') = SumFunction(StakeBonds) - StakeBonds[s] + StakeBonds'[s]
  BY <1>6, OneStake
<1>9. SumFunction(StakeBonds') = SumFunction(StakeBonds) + x
  <2>1. SumFunction(StakeBonds) \in Nat
    BY TotalsAreNat DEF TotalsNat
  <2> QED
    BY <1>7, <1>8, <2>1
<1>10. UNCHANGED <<supply, credits, asks, jobs, treasury>>
  BY DEF Stake
<1>11. /\ SumFunction(JobEscrows') = SumFunction(JobEscrows) + 0
       /\ treasury'.funds = treasury.funds + 0
  BY <1>10, SameTotals
<1>12. -x \in Int /\ 0 \in Int /\ (-x) + 0 + x + 0 = 0
  OBVIOUS
<1> QED
  BY <1>3, <1>9, <1>10, <1>11, <1>12, DollarsBalance, CreditsLeftAlone

(* Topping up does the same with a bond that is there (staking.move add_bond). *)
LEMMA AddBondAccounts ==
  ASSUME TypeOK, TypeOK', NEW s \in StakeIds, NEW x \in Nat, NEW n \in Nat, AddBond(s, x, n)
  PROVE  CreditsKept /\ DollarsKept
<1> DEFINE p == stakes[s].provider
<1>1. stakes[s] # NULL /\ stakes[s] \in Stakes(Providers)
  BY DEF AddBond, TypeOK
<1>2. p \in Addrs /\ usdc \in [Addrs -> Nat] /\ x <= usdc[p]
  BY <1>1 DEF AddBond, TypeOK, Addrs, Stakes
<1>3. usdc' = [usdc EXCEPT ![p] = usdc[p] - x]
  BY DEF AddBond
<1> HIDE DEF p
<1>4. SumFunction(usdc') = SumFunction(usdc) + (-x)
  BY <1>2, <1>3, Charge
<1>5. stakes' = [stakes EXCEPT ![s] = AddedBond(stakes[s], x, n)]
  BY DEF AddBond
<1>6. AddedBond(stakes[s], x, n) \in Stakes(Providers)
  BY <1>1, AddedBondType
<1>7. AddedBond(stakes[s], x, n).bond = stakes[s].bond + x /\ stakes[s].bond \in Nat
  BY <1>1 DEF AddedBond, Stakes
<1>8. SumFunction(StakeBonds')
        = SumFunction(StakeBonds) - stakes[s].bond + AddedBond(stakes[s], x, n).bond
  BY <1>1, <1>5, <1>6, ChangedStake
<1>9. SumFunction(StakeBonds') = SumFunction(StakeBonds) + x
  <2>1. SumFunction(StakeBonds) \in Nat
    BY TotalsAreNat DEF TotalsNat
  <2> QED
    BY <1>7, <1>8, <2>1
<1>10. UNCHANGED <<supply, credits, asks, jobs, treasury>>
  BY DEF AddBond
<1>11. /\ SumFunction(JobEscrows') = SumFunction(JobEscrows) + 0
       /\ treasury'.funds = treasury.funds + 0
  BY <1>10, SameTotals
<1>12. -x \in Int /\ 0 \in Int /\ (-x) + 0 + x + 0 = 0
  OBVIOUS
<1> QED
  BY <1>4, <1>9, <1>10, <1>11, <1>12, DollarsBalance, CreditsLeftAlone

(* A withdrawal takes from the bond what it pays to the owner (staking.move unstake). *)
LEMMA UnstakeAccounts ==
  ASSUME TypeOK, TypeOK', NEW s \in StakeIds, NEW x \in Nat, Unstake(s, x)
  PROVE  CreditsKept /\ DollarsKept
<1> DEFINE p == stakes[s].provider
<1>1. stakes[s] # NULL /\ stakes[s] \in Stakes(Providers) /\ x <= stakes[s].bond
  BY DEF Unstake, TypeOK
<1>2. p \in Addrs /\ usdc \in [Addrs -> Nat]
  BY <1>1 DEF TypeOK, Addrs, Stakes
<1>3. usdc' = [usdc EXCEPT ![p] = usdc[p] + x]
  BY DEF Unstake
<1> HIDE DEF p
<1>4. SumFunction(usdc') = SumFunction(usdc) + x
  BY <1>2, <1>3, Payment
<1>5. stakes' = [stakes EXCEPT ![s] = Withdrawn(stakes[s], x)]
  BY DEF Unstake
<1>6. Withdrawn(stakes[s], x) \in Stakes(Providers)
  BY <1>1, WithdrawnType
<1>7. Withdrawn(stakes[s], x).bond = stakes[s].bond - x /\ stakes[s].bond \in Nat
  BY <1>1 DEF Withdrawn, Stakes
<1>8. SumFunction(StakeBonds')
        = SumFunction(StakeBonds) - stakes[s].bond + Withdrawn(stakes[s], x).bond
  BY <1>1, <1>5, <1>6, ChangedStake
<1>9. SumFunction(StakeBonds') = SumFunction(StakeBonds) + (-x)
  <2>1. SumFunction(StakeBonds) \in Nat
    BY TotalsAreNat DEF TotalsNat
  <2> QED
    BY <1>7, <1>8, <2>1
<1>10. UNCHANGED <<supply, credits, asks, jobs, treasury>>
  BY DEF Unstake
<1>11. /\ SumFunction(JobEscrows') = SumFunction(JobEscrows) + 0
       /\ treasury'.funds = treasury.funds + 0
  BY <1>10, SameTotals
<1>12. -x \in Int /\ 0 \in Int /\ x + 0 + (-x) + 0 = 0
  OBVIOUS
<1> QED
  BY <1>4, <1>9, <1>10, <1>11, <1>12, DollarsBalance, CreditsLeftAlone

(* A stake that changes in anything but its bond leaves the bonds' sum alone. *)
LEMMA SameBond ==
  ASSUME TypeOK, TypeOK', NEW s \in StakeIds, stakes[s] # NULL,
         NEW st \in Stakes(Providers), st.bond = stakes[s].bond,
         stakes' = [stakes EXCEPT ![s] = st]
  PROVE  SumFunction(StakeBonds') = SumFunction(StakeBonds) + 0
<1>1. SumFunction(StakeBonds') = SumFunction(StakeBonds) - stakes[s].bond + st.bond
  BY ChangedStake
<1>2. SumFunction(StakeBonds) \in Nat /\ stakes[s].bond \in Nat
  BY TotalsAreNat DEF TotalsNat, TypeOK, Stakes
<1> QED
  BY <1>1, <1>2

(* Minting puts the new credits into the provider's wallet (mint.move). *)
LEMMA MintAccounts ==
  ASSUME TypeOK, TypeOK', NEW s \in StakeIds, NEW q \in Nat, MintCredits(s, q)
  PROVE  CreditsKept /\ DollarsKept
<1> DEFINE p == stakes[s].provider
<1>1. stakes[s] # NULL /\ stakes[s] \in Stakes(Providers)
  BY DEF MintCredits, MayMint, TypeOK
<1>2. p \in Addrs /\ credits \in [Addrs -> Nat]
  BY <1>1 DEF TypeOK, Addrs, Stakes
<1>3. credits' = [credits EXCEPT ![p] = credits[p] + q]
  BY DEF MintCredits
<1> HIDE DEF p
<1>4. SumFunction(credits') = SumFunction(credits) + q
  BY <1>2, <1>3, Payment
<1>5. stakes' = [stakes EXCEPT ![s] = Minted(stakes[s], q)] /\ supply' = supply + q
  BY DEF MintCredits
<1>6. Minted(stakes[s], q) \in Stakes(Providers) /\ Minted(stakes[s], q).bond = stakes[s].bond
  BY <1>1, CountersType, BondFields
<1>7. SumFunction(StakeBonds') = SumFunction(StakeBonds) + 0
  BY <1>1, <1>5, <1>6, SameBond
<1>8. UNCHANGED <<asks, jobs, usdc, treasury>>
  BY DEF MintCredits, money
<1>9. /\ SumFunction(JobEscrows') = SumFunction(JobEscrows) + 0
      /\ SumFunction(JobCredits') = SumFunction(JobCredits) + 0
      /\ SumFunction(AskCredits') = SumFunction(AskCredits) + 0
      /\ SumFunction(usdc') = SumFunction(usdc) + 0
      /\ treasury'.funds = treasury.funds + 0
  BY <1>8, SameTotals
<1>10. 0 \in Int /\ q \in Int /\ 0 + 0 + 0 + 0 = 0 /\ q = q + 0 + 0
  OBVIOUS
<1>11. DollarsKept
  BY <1>7, <1>9, <1>10, DollarsBalance
<1>12. CreditsKept
  BY <1>4, <1>5, <1>9, <1>10, CreditsBalance
<1> QED
  BY <1>11, <1>12

(* Posting an ask puts the new credits into the ask (ask.move). *)
LEMMA PostAccounts ==
  ASSUME TypeOK, TypeOK', NEW s \in StakeIds, NEW a \in AskIds, NEW q \in Nat, NEW u \in Nat,
         PostAsk(s, a, q, u)
  PROVE  CreditsKept /\ DollarsKept
<1> DEFINE ask == [provider |-> stakes[s].provider, price |-> u, remaining |-> q]
<1>1. stakes[s] # NULL /\ stakes[s] \in Stakes(Providers) /\ asks[a] = NULL
  BY DEF PostAsk, MayMint, TypeOK
<1>2. asks' = [asks EXCEPT ![a] = ask]
  BY DEF PostAsk
<1>3. ask \in Asks
  BY <1>1 DEF Asks, Stakes
<1>4. asks'[a] = ask /\ \A b \in AskIds \ {a} : asks'[b] = asks[b]
  BY <1>2 DEF TypeOK
<1>5. AskCredits[a] = 0 /\ AskCredits'[a] = q
  BY <1>1, <1>3, <1>4, NullAssumption DEF AskCredits
<1> HIDE DEF ask
<1>6. SumFunction(AskCredits') = SumFunction(AskCredits) + q
  <2>1. SumFunction(AskCredits') = SumFunction(AskCredits) - AskCredits[a] + AskCredits'[a]
    BY <1>4, OneAsk
  <2>2. SumFunction(AskCredits) \in Nat
    BY TotalsAreNat DEF TotalsNat
  <2> QED
    BY <1>5, <2>1, <2>2
<1>7. stakes' = [stakes EXCEPT ![s] = Minted(stakes[s], q)] /\ supply' = supply + q
  BY DEF PostAsk
<1>8. Minted(stakes[s], q) \in Stakes(Providers) /\ Minted(stakes[s], q).bond = stakes[s].bond
  BY <1>1, CountersType, BondFields
<1>9. SumFunction(StakeBonds') = SumFunction(StakeBonds) + 0
  BY <1>1, <1>7, <1>8, SameBond
<1>10. UNCHANGED <<credits, jobs, usdc, treasury>>
  BY DEF PostAsk, money
<1>11. /\ SumFunction(JobEscrows') = SumFunction(JobEscrows) + 0
       /\ SumFunction(JobCredits') = SumFunction(JobCredits) + 0
       /\ SumFunction(credits') = SumFunction(credits) + 0
       /\ SumFunction(usdc') = SumFunction(usdc) + 0
       /\ treasury'.funds = treasury.funds + 0
  BY <1>10, SameTotals
<1>12. 0 \in Int /\ q \in Int /\ 0 + 0 + 0 + 0 = 0 /\ q = 0 + q + 0
  OBVIOUS
<1>13. DollarsKept
  BY <1>9, <1>11, <1>12, DollarsBalance
<1>14. CreditsKept
  BY <1>6, <1>7, <1>11, <1>12, CreditsBalance
<1> QED
  BY <1>13, <1>14

(* A match exchanges credits for dollars between two wallets. *)
LEMMA MatchAccounts ==
  ASSUME TypeOK, TypeOK', NEW p \in Providers, NEW c \in Consumers, NEW q \in Nat, NEW u \in Nat,
         DeepBookMatch(p, c, q, u)
  PROVE  CreditsKept /\ DollarsKept
<1>1. p \in Addrs /\ c \in Addrs /\ q * u \in Nat
  BY ProductIsNat DEF Addrs
<1>2. usdc \in [Addrs -> Nat] /\ credits \in [Addrs -> Nat]
  BY DEF TypeOK
<1>3. /\ credits' = Moved(credits, p, c, q) /\ q <= credits[p]
      /\ usdc' = Moved(usdc, c, p, q * u) /\ q * u <= usdc[c]
  BY <1>1, <1>2 DEF DeepBookMatch
<1>4. SumFunction(credits') = SumFunction(credits)
  BY <1>1, <1>2, <1>3, OneTransfer
<1>5. SumFunction(usdc') = SumFunction(usdc)
  <2> DEFINE x == q * u
  <2>1. x \in Nat /\ usdc' = Moved(usdc, c, p, x) /\ x <= usdc[c]
    BY <1>1, <1>3
  <2> HIDE DEF x
  <2> QED
    BY <1>1, <1>2, <2>1, OneTransfer
<1>6. UNCHANGED <<supply, asks, jobs, stakes, treasury>>
  BY DEF DeepBookMatch
<1>7. /\ AskCredits' = AskCredits /\ JobCredits' = JobCredits /\ JobEscrows' = JobEscrows
      /\ StakeBonds' = StakeBonds
  BY <1>6, SameTables
<1>8. CirculatingCredits' = CirculatingCredits /\ CirculatingCredits \in Nat
  BY <1>4, <1>7, TotalsAreNat DEF CirculatingCredits, TotalsNat
<1> QED
  BY <1>5, <1>6, <1>7, <1>8 DEF CreditsKept, DollarsKept, Dollars, TypeOK

(* Creating a job moves credits into it, from a wallet or an ask, and dollars into its   *)
(* escrow, none for a fill (job.move).                                                   *)
LEMMA CreateAccounts ==
  ASSUME TypeOK, TypeOK', NEW s \in StakeIds, NEW j \in JobIds, NEW q \in Nat, NEW price \in Nat,
         CreateJob(s, j, q, price)
  PROVE  CreditsKept /\ DollarsKept
<1> DEFINE p == stakes[s].provider
<1>1. stakes[s] # NULL /\ stakes[s] \in Stakes(Providers) /\ jobs[j] = NULL
  BY DEF CreateJob, MayCreate, TypeOK
<1>2. p \in Providers /\ p \in Addrs /\ q <= credits[p] /\ price <= usdc[p]
  BY <1>1 DEF CreateJob, TypeOK, Addrs, Stakes
<1>3. usdc \in [Addrs -> Nat] /\ credits \in [Addrs -> Nat]
  BY DEF TypeOK
<1>4. /\ credits' = [credits EXCEPT ![p] = credits[p] - q]
      /\ usdc' = [usdc EXCEPT ![p] = usdc[p] - price]
      /\ jobs' = [jobs EXCEPT ![j] = NewJob("owned", p, p, q, price, price)]
  BY DEF CreateJob
<1> HIDE DEF p
<1>5. SumFunction(credits') = SumFunction(credits) + (-q)
  BY <1>2, <1>3, <1>4, Charge
<1>6. SumFunction(usdc') = SumFunction(usdc) + (-price)
  BY <1>2, <1>3, <1>4, Charge
<1>7. /\ SumFunction(JobCredits') = SumFunction(JobCredits) + q
      /\ SumFunction(JobEscrows') = SumFunction(JobEscrows) + price
  <2> DEFINE job == NewJob("owned", p, p, q, price, price)
  <2>0. "owned" \in JobKinds /\ p \in Providers \cup Consumers /\ "Dispatched" \in LiveStates
    BY <1>2 DEF JobKinds, LiveStates
  <2>1. /\ job.credits = q /\ job.escrow = price
        /\ job # NULL /\ job.state \in LiveStates
    BY <1>2, <2>0, NewJobFields
  <2>2. jobs' = [jobs EXCEPT ![j] = job]
    BY <1>4
  <2> HIDE DEF job
  <2> QED
    BY <1>1, <2>1, <2>2, CreatedJob
<1>8. stakes' = [stakes EXCEPT ![s] = Reserved(stakes[s], q)]
  BY DEF CreateJob
<1>9. Reserved(stakes[s], q) \in Stakes(Providers) /\ Reserved(stakes[s], q).bond = stakes[s].bond
  BY <1>1, CountersType, BondFields
<1>10. SumFunction(StakeBonds') = SumFunction(StakeBonds) + 0
  BY <1>1, <1>8, <1>9, SameBond
<1>11. UNCHANGED <<supply, asks, treasury>>
  BY DEF CreateJob
<1>12. /\ SumFunction(AskCredits') = SumFunction(AskCredits) + 0
       /\ supply' = supply + 0
       /\ treasury'.funds = treasury.funds + 0
  BY <1>11, SameTotals
<1>13. /\ 0 \in Int /\ q \in Int /\ -q \in Int /\ price \in Int /\ -price \in Int
       /\ (-price) + price + 0 + 0 = 0 /\ 0 = (-q) + 0 + q
  OBVIOUS
<1>14. DollarsKept
  BY <1>6, <1>7, <1>10, <1>12, <1>13, DollarsBalance
<1>15. CreditsKept
  BY <1>5, <1>7, <1>12, <1>13, CreditsBalance
<1> QED
  BY <1>14, <1>15

(* The same from an ask: the credits come out of the ask, the price out of the wallet. *)
LEMMA CreateFromAskAccounts ==
  ASSUME TypeOK, TypeOK', NEW c \in Consumers, NEW a \in AskIds, NEW j \in JobIds,
         NEW q \in Nat, NEW t \in Nat, CreateJobFromAsk(c, a, j, q, t)
  PROVE  CreditsKept /\ DollarsKept
<1> DEFINE price == q * asks[a].price + t
           p == asks[a].provider
<1>1. asks[a] # NULL /\ asks[a] \in Asks /\ q <= asks[a].remaining /\ jobs[j] = NULL
  BY DEF CreateJobFromAsk, MayCreate, TypeOK
<1>2. p \in Providers /\ c \in Addrs /\ c \in Providers \cup Consumers /\ asks[a].price \in Nat
  BY <1>1 DEF Asks, Addrs
<1>3. price \in Nat
  <2>1. q * asks[a].price \in Nat
    BY <1>2, ProductIsNat
  <2> QED
    BY <2>1
<1>4. usdc \in [Addrs -> Nat] /\ price <= usdc[c]
  <2>1. usdc[c] >= price
    BY DEF CreateJobFromAsk
  <2>2. usdc \in [Addrs -> Nat]
    BY DEF TypeOK
  <2> HIDE DEF price
  <2> QED
    BY <1>2, <1>3, <2>1, <2>2
<1>5. /\ usdc' = [usdc EXCEPT ![c] = usdc[c] - price]
      /\ jobs' = [jobs EXCEPT ![j] = NewJob("ask", c, p, q, price, price)]
      /\ asks' = [asks EXCEPT ![a] = Drawn(asks[a], q)]
  BY DEF CreateJobFromAsk
<1> HIDE DEF p, price
<1>6. SumFunction(usdc') = SumFunction(usdc) + (-price)
  BY <1>2, <1>3, <1>4, <1>5, Charge
<1>7. /\ SumFunction(JobCredits') = SumFunction(JobCredits) + q
      /\ SumFunction(JobEscrows') = SumFunction(JobEscrows) + price
  <2> DEFINE job == NewJob("ask", c, p, q, price, price)
  <2>0. "ask" \in JobKinds /\ c \in Providers \cup Consumers /\ "Dispatched" \in LiveStates
    BY <1>2 DEF JobKinds, LiveStates
  <2>1. /\ job.credits = q /\ job.escrow = price
        /\ job # NULL /\ job.state \in LiveStates
    BY <1>2, <1>3, <2>0, NewJobFields
  <2>2. jobs' = [jobs EXCEPT ![j] = job]
    BY <1>5
  <2> HIDE DEF job
  <2> QED
    BY <1>1, <2>1, <2>2, CreatedJob
<1>8. asks'[a] = Drawn(asks[a], q) /\ \A b \in AskIds \ {a} : asks'[b] = asks[b]
  BY <1>5 DEF TypeOK
<1>9. Drawn(asks[a], q) \in Asks /\ Drawn(asks[a], q).remaining = asks[a].remaining - q
  BY <1>1 DEF Drawn, Asks
<1>10. AskCredits[a] = asks[a].remaining /\ AskCredits'[a] = asks[a].remaining - q
  BY <1>1, <1>8, <1>9, NullAssumption DEF AskCredits
<1>11. SumFunction(AskCredits') = SumFunction(AskCredits) + (-q)
  <2>1. SumFunction(AskCredits') = SumFunction(AskCredits) - AskCredits[a] + AskCredits'[a]
    BY <1>8, OneAsk
  <2>2. SumFunction(AskCredits) \in Nat /\ asks[a].remaining \in Nat
    BY <1>1, TotalsAreNat DEF TotalsNat, Asks
  <2> QED
    BY <1>10, <2>1, <2>2
<1>12. UNCHANGED <<supply, stakes, treasury, credits>>
  BY DEF CreateJobFromAsk
<1>13. /\ SumFunction(credits') = SumFunction(credits) + 0
       /\ SumFunction(StakeBonds') = SumFunction(StakeBonds) + 0
       /\ supply' = supply + 0
       /\ treasury'.funds = treasury.funds + 0
  BY <1>12, SameTotals
<1>14. /\ 0 \in Int /\ q \in Int /\ -q \in Int /\ price \in Int /\ -price \in Int
       /\ (-price) + price + 0 + 0 = 0 /\ 0 = 0 + (-q) + q
  BY <1>3
<1>15. DollarsKept
  BY <1>6, <1>7, <1>13, <1>14, DollarsBalance
<1>16. CreditsKept
  BY <1>7, <1>11, <1>13, <1>14, CreditsBalance
<1> QED
  BY <1>15, <1>16

(* A fill's job takes credits out of the taker's wallet and no dollars. *)
LEMMA CreateFromFillAccounts ==
  ASSUME TypeOK, TypeOK', NEW c \in Consumers, NEW p \in Providers, NEW j \in JobIds,
         NEW q \in Nat, CreateJobFromFill(c, p, j, q)
  PROVE  CreditsKept /\ DollarsKept
<1>1. /\ jobs[j] = NULL /\ c \in Addrs /\ c \in Providers \cup Consumers
      /\ credits \in [Addrs -> Nat] /\ q <= credits[c]
  BY DEF CreateJobFromFill, MayCreate, TypeOK, Addrs
<1>2. /\ credits' = [credits EXCEPT ![c] = credits[c] - q]
      /\ jobs' = [jobs EXCEPT ![j] = NewJob("fill", c, p, q, q, 0)]
  BY DEF CreateJobFromFill
<1>3. SumFunction(credits') = SumFunction(credits) + (-q)
  BY <1>1, <1>2, Charge
<1>4. /\ SumFunction(JobCredits') = SumFunction(JobCredits) + q
      /\ SumFunction(JobEscrows') = SumFunction(JobEscrows) + 0
  <2> DEFINE job == NewJob("fill", c, p, q, q, 0)
  <2>1. /\ job.credits = q /\ job.escrow = 0
        /\ job # NULL /\ job.state \in LiveStates
    BY <1>1, NewJobFields DEF JobKinds, LiveStates
  <2>2. jobs' = [jobs EXCEPT ![j] = job]
    BY <1>2
  <2> HIDE DEF job
  <2> QED
    BY <1>1, <2>1, <2>2, CreatedJob
<1>5. UNCHANGED <<supply, stakes, asks, usdc, treasury>>
  BY DEF CreateJobFromFill, money
<1>6. /\ SumFunction(usdc') = SumFunction(usdc) + 0
      /\ SumFunction(StakeBonds') = SumFunction(StakeBonds) + 0
      /\ SumFunction(AskCredits') = SumFunction(AskCredits) + 0
      /\ supply' = supply + 0
      /\ treasury'.funds = treasury.funds + 0
  BY <1>5, SameTotals
<1>7. 0 \in Int /\ q \in Int /\ -q \in Int /\ 0 + 0 + 0 + 0 = 0 /\ 0 = (-q) + 0 + q
  OBVIOUS
<1>8. DollarsKept
  BY <1>4, <1>6, <1>7, DollarsBalance
<1>9. CreditsKept
  BY <1>3, <1>4, <1>6, <1>7, CreditsBalance
<1> QED
  BY <1>8, <1>9

(* Acknowledging and attesting move nothing. *)
LEMMA WorkAccounts ==
  ASSUME TypeOK, TypeOK', WorkStep
  PROVE  CreditsKept /\ DollarsKept
<1>1. ASSUME NEW j \in JobIds, Live(j), NEW job, jobs' = [jobs EXCEPT ![j] = job],
             job # NULL, job.state \in LiveStates, SameTerms(job, jobs[j]),
             job.escrow = jobs[j].escrow, job.credits = jobs[j].credits,
             UNCHANGED <<supply, stakes, asks, usdc, treasury, credits>>
      PROVE  CreditsKept /\ DollarsKept
  <2>1. /\ SumFunction(JobCredits') = SumFunction(JobCredits)
        /\ SumFunction(JobEscrows') = SumFunction(JobEscrows)
    BY <1>1, WorkedJob
  <2>2. AskCredits' = AskCredits /\ StakeBonds' = StakeBonds
    BY <1>1, SameTables
  <2>3. CirculatingCredits' = CirculatingCredits /\ CirculatingCredits \in Nat
    BY <1>1, <2>1, <2>2, TotalsAreNat DEF CirculatingCredits, TotalsNat
  <2> QED
    BY <1>1, <2>1, <2>2, <2>3 DEF CreditsKept, DollarsKept, Dollars, TypeOK
<1>2. ASSUME NEW j \in JobIds, Ack(j)
      PROVE  CreditsKept /\ DollarsKept
  <2>1. Live(j) /\ jobs[j] \in Jobs
    BY <1>2 DEF Ack, Live, Exists, LiveStates, TypeOK
  <2>2. /\ jobs' = [jobs EXCEPT ![j] = Acked(jobs[j])]
        /\ UNCHANGED <<supply, stakes, asks, usdc, treasury, credits>>
    BY <1>2 DEF Ack, money
  <2>3. /\ Acked(jobs[j]) # NULL /\ Acked(jobs[j]).state \in LiveStates
        /\ SameTerms(Acked(jobs[j]), jobs[j])
        /\ Acked(jobs[j]).escrow = jobs[j].escrow /\ Acked(jobs[j]).credits = jobs[j].credits
    BY <2>1, AckedFields DEF LiveStates
  <2> QED
    BY <1>1, <2>1, <2>2, <2>3
<1>3. ASSUME NEW j \in JobIds, NEW v \in {"valid", "sla", "invalid"}, RecordAttestation(j, v)
      PROVE  CreditsKept /\ DollarsKept
  <2> DEFINE job == Judged(jobs[j], v)
  <2>1. Live(j) /\ jobs[j] \in Jobs
    BY <1>3 DEF RecordAttestation, Live, Exists, LiveStates, TypeOK
  <2>2. /\ jobs' = [jobs EXCEPT ![j] = job]
        /\ UNCHANGED <<supply, stakes, asks, usdc, treasury, credits>>
    BY <1>3 DEF RecordAttestation, money
  <2>3. /\ job # NULL /\ job.state \in LiveStates /\ SameTerms(job, jobs[j])
        /\ job.escrow = jobs[j].escrow /\ job.credits = jobs[j].credits
    BY <2>1, JudgedFields DEF LiveStates
  <2> HIDE DEF job
  <2> QED
    BY <1>1, <2>1, <2>2, <2>3
<1> QED
  BY <1>2, <1>3, VerdictType DEF WorkStep, SubmitMockAttestation, SubmitSignedAttestation

(* Burning takes the job's credits out of the supply as the closing takes them out of the *)
(* job, and leaves the bond alone (settlement.move).                                     *)
LEMMA RetireAccounts ==
  ASSUME TypeOK, TypeOK', NEW s \in StakeIds, NEW j \in JobIds, Live(j), stakes[s] # NULL,
         Retire(s, j), jobs' = [jobs EXCEPT ![j] = Closed(jobs[j], "Settled")],
         UNCHANGED <<asks, credits>>
  PROVE  /\ CreditsKept
         /\ SumFunction(StakeBonds') = SumFunction(StakeBonds) + 0
         /\ SumFunction(JobEscrows') = SumFunction(JobEscrows) - jobs[j].escrow
<1>1. jobs[j] \in Jobs /\ stakes[s] \in Stakes(Providers)
  BY DEF Live, Exists, TypeOK
<1>2. jobs[j].credits \in Nat /\ jobs[j].qty \in Nat
  BY <1>1 DEF Jobs
<1>3. Closed(jobs[j], "Settled").state \in TerminalStates
  BY <1>1, ClosedFields DEF TerminalStates
<1>4. /\ SumFunction(JobCredits') = SumFunction(JobCredits) - jobs[j].credits
      /\ SumFunction(JobEscrows') = SumFunction(JobEscrows) - jobs[j].escrow
  BY <1>3, EndedJob
<1> DEFINE st == ConsumedMinted(stakes[s], jobs[j].qty)
           new == Released(st, jobs[j].qty)
<1>5. st \in Stakes(Providers) /\ st.bond = stakes[s].bond
  BY <1>1, <1>2, CountersType, BondFields
<1>6. stakes' = [stakes EXCEPT ![s] = new] /\ supply' = supply - jobs[j].credits
  BY DEF Retire
<1> HIDE DEF st
<1>7. new \in Stakes(Providers) /\ new.bond = stakes[s].bond
  BY <1>2, <1>5, CountersType, BondFields
<1> HIDE DEF new
<1>8. SumFunction(StakeBonds') = SumFunction(StakeBonds) + 0
  BY <1>6, <1>7, SameBond
<1>9. AskCredits' = AskCredits
  BY SameTables
<1>10. /\ SumFunction(credits) \in Nat /\ SumFunction(AskCredits) \in Nat
       /\ SumFunction(JobCredits) \in Nat /\ supply \in Nat
  BY TotalsAreNat DEF TotalsNat, TypeOK
<1>11. CreditsKept
  BY <1>2, <1>4, <1>6, <1>9, <1>10 DEF CreditsKept, CirculatingCredits
<1> QED
  BY <1>4, <1>8, <1>11

(* Settling splits the escrow between the provider and the treasury (settlement.move). *)
LEMMA SettleAccounts ==
  ASSUME TypeOK, TypeOK', NEW s \in StakeIds, NEW j \in JobIds, Settle(s, j)
  PROVE  CreditsKept /\ DollarsKept
<1> DEFINE p      == jobs[j].provider
           fee    == FeeOn(jobs[j].price)
           payout == jobs[j].escrow - fee
<1>1. Live(j) /\ jobs[j] \in Jobs /\ stakes[s] # NULL
  BY DEF Settle, Live, Exists, LiveStates, TypeOK
<1>2. /\ jobs[j].price \in Nat /\ jobs[j].escrow \in Nat
      /\ p \in Addrs /\ usdc \in [Addrs -> Nat] /\ treasury.funds \in Nat
  BY <1>1 DEF Jobs, Addrs, TypeOK
<1>3. fee \in Nat
  BY <1>2, FeeIsNat
<1>4. /\ jobs[j].escrow >= fee
      /\ usdc' = [usdc EXCEPT ![p] = usdc[p] + payout]
      /\ treasury' = DepositFee(treasury, fee)
  BY DEF Settle
<1>5. /\ Retire(s, j) /\ jobs' = [jobs EXCEPT ![j] = Closed(jobs[j], "Settled")]
      /\ UNCHANGED <<asks, credits>>
  BY DEF Settle
<1>6. treasury'.funds = treasury.funds + fee
  BY <1>4 DEF DepositFee, TypeOK
<1> HIDE DEF p, fee
<1>7. payout \in Nat /\ payout + (-jobs[j].escrow) + 0 + fee = 0
  BY <1>2, <1>3, <1>4
<1> HIDE DEF payout
<1>8. SumFunction(usdc') = SumFunction(usdc) + payout
  BY <1>2, <1>4, <1>7, Payment
<1>9. /\ CreditsKept
      /\ SumFunction(StakeBonds') = SumFunction(StakeBonds) + 0
      /\ SumFunction(JobEscrows') = SumFunction(JobEscrows) - jobs[j].escrow
  BY <1>1, <1>5, RetireAccounts
<1>10. SumFunction(JobEscrows') = SumFunction(JobEscrows) + (-jobs[j].escrow)
  <2>1. SumFunction(JobEscrows) \in Nat
    BY TotalsAreNat DEF TotalsNat
  <2> QED
    BY <1>2, <1>9, <2>1
<1>11. payout \in Int /\ -jobs[j].escrow \in Int /\ 0 \in Int /\ fee \in Int
  BY <1>2, <1>3, <1>7
<1> QED
  BY <1>6, <1>7, <1>8, <1>9, <1>10, <1>11, DollarsBalance

(* A fill's job has no escrow to pay out: the match paid the provider (settlement.move). *)
LEMMA SettleFillAccounts ==
  ASSUME TypeOK, TypeOK', NEW s \in StakeIds, NEW j \in JobIds, JobCustody(j), SettleFill(s, j)
  PROVE  CreditsKept /\ DollarsKept
<1>1. Live(j) /\ jobs[j].kind = "fill" /\ stakes[s] # NULL
  BY DEF SettleFill, Live, Exists, LiveStates
<1>2. jobs[j].escrow = 0
  BY <1>1 DEF JobCustody
<1>3. /\ Retire(s, j) /\ jobs' = [jobs EXCEPT ![j] = Closed(jobs[j], "Settled")]
      /\ UNCHANGED <<asks, credits, usdc, treasury>>
  BY DEF SettleFill, money
<1>4. /\ CreditsKept
      /\ SumFunction(StakeBonds') = SumFunction(StakeBonds) + 0
      /\ SumFunction(JobEscrows') = SumFunction(JobEscrows) - jobs[j].escrow
  BY <1>1, <1>3, RetireAccounts
<1>5. /\ SumFunction(JobEscrows) \in Nat /\ SumFunction(StakeBonds) \in Nat
  BY TotalsAreNat DEF TotalsNat
<1>6. /\ SumFunction(JobEscrows') = SumFunction(JobEscrows)
      /\ SumFunction(StakeBonds') = SumFunction(StakeBonds)
  BY <1>2, <1>4, <1>5
<1> QED
  BY <1>3, <1>4, <1>6 DEF DollarsKept, Dollars

(* A refund gives the escrow back; the slash moves the penalty from the bond, part to the *)
(* consumer and the rest to the treasury; the reserved credits return (settlement.move). *)
LEMMA SlashAccounts ==
  ASSUME TypeOK, TypeOK', NEW s \in StakeIds, NEW j \in JobIds, Live(j), NEW fault \in Faults,
         NEW reason, RefundAndSlash(s, j, fault, reason)
  PROVE  CreditsKept /\ DollarsKept
<1> DEFINE job     == jobs[j]
           penalty == SlashAmount(cfg.slash, stakes[s], job.qty, fault)
           comp    == Compensation(penalty, job.price)
<1>1. /\ stakes[s] # NULL /\ stakes[s] \in Stakes(Providers) /\ jobs[j] \in Jobs
      /\ cfg.slash \in SlashTerms
  BY DEF TypeOK, Live, Exists, RefundAndSlash
<1>2. /\ job.qty \in Nat /\ job.price \in Nat /\ job.escrow \in Nat /\ job.credits \in Nat
      /\ job.consumer \in Addrs /\ job.provider \in Addrs
      /\ usdc \in [Addrs -> Nat] /\ credits \in [Addrs -> Nat] /\ treasury.funds \in Nat
      /\ stakes[s].bond \in Nat
  BY <1>1 DEF Jobs, Addrs, TypeOK, Stakes
<1>3. penalty \in Nat /\ penalty <= stakes[s].bond
  BY <1>1, <1>2, PenaltyWithinBond
<1>4. comp \in Nat /\ comp <= penalty
  <2> HIDE DEF penalty
  <2> QED
    BY <1>2, <1>3 DEF Compensation, AtMost
<1>5. /\ usdc' = [usdc EXCEPT ![job.consumer] = @ + job.escrow + comp]
      /\ treasury' = DepositSlash(treasury, penalty - comp)
      /\ credits' = [credits EXCEPT ![job.provider] = credits[job.provider] + job.credits]
      /\ stakes' = [stakes EXCEPT ![s] =
                      Released(Derated(Slashed(stakes[s], penalty)), job.qty)]
      /\ jobs' = [jobs EXCEPT ![j] = ClosedBySlash(jobs[j])]
      /\ UNCHANGED <<supply, asks>>
  BY DEF RefundAndSlash
<1>6. ClosedBySlash(jobs[j]).state \in TerminalStates
  BY <1>1, ClosedBySlashFields DEF TerminalStates
<1> HIDE DEF penalty, comp
<1>7. /\ SumFunction(JobCredits') = SumFunction(JobCredits) - job.credits
      /\ SumFunction(JobEscrows') = SumFunction(JobEscrows) - job.escrow
  BY <1>5, <1>6, EndedJob
<1> HIDE DEF job
<1>8. SumFunction(usdc') = SumFunction(usdc) + (job.escrow + comp)
  <2>1. job.escrow + comp \in Nat
    BY <1>2, <1>4
  <2>2. usdc[job.consumer] + job.escrow + comp = usdc[job.consumer] + (job.escrow + comp)
    BY <1>2, <1>4
  <2>3. usdc' = [usdc EXCEPT ![job.consumer] = usdc[job.consumer] + (job.escrow + comp)]
    BY <1>5, <2>2
  <2> QED
    BY <1>2, <2>1, <2>3, Payment
<1>9. treasury'.funds = treasury.funds + (penalty - comp)
  BY <1>5 DEF DepositSlash, TypeOK
<1>10. SumFunction(StakeBonds') = SumFunction(StakeBonds) + (-penalty)
  <2> DEFINE s1 == Slashed(stakes[s], penalty)
             s2 == Derated(s1)
             s3 == Released(s2, job.qty)
  <2>1. s1 \in Stakes(Providers) /\ s1.bond = stakes[s].bond - penalty
    BY <1>1, <1>3, SlashedType, BondFields
  <2>2. stakes' = [stakes EXCEPT ![s] = s3]
    BY <1>5
  <2> HIDE DEF s1
  <2>3. s2 \in Stakes(Providers) /\ s2.bond = s1.bond
    BY <2>1, DeratedType, BondFields
  <2> HIDE DEF s2
  <2>4. s3 \in Stakes(Providers) /\ s3.bond = s2.bond
    BY <1>2, <2>3, CountersType, BondFields
  <2> HIDE DEF s3
  <2>5. SumFunction(StakeBonds') = SumFunction(StakeBonds) - stakes[s].bond + s3.bond
    BY <1>1, <2>2, <2>4, ChangedStake
  <2>6. SumFunction(StakeBonds) \in Nat
    BY TotalsAreNat DEF TotalsNat
  <2> QED
    BY <1>2, <1>3, <2>1, <2>3, <2>4, <2>5, <2>6
<1>11. SumFunction(credits') = SumFunction(credits) + job.credits
  BY <1>2, <1>5, Payment
<1>12. /\ SumFunction(credits) \in Nat /\ SumFunction(AskCredits) \in Nat
       /\ SumFunction(JobCredits) \in Nat /\ SumFunction(JobEscrows) \in Nat
       /\ supply \in Nat
  BY TotalsAreNat DEF TotalsNat, TypeOK
<1>13. CreditsKept
  <2>1. SumFunction(AskCredits') = SumFunction(AskCredits)
    BY <1>5, SameTables
  <2> QED
    BY <1>2, <1>5, <1>7, <1>11, <1>12, <2>1 DEF CreditsKept, CirculatingCredits
<1>14. SumFunction(JobEscrows') = SumFunction(JobEscrows) + (-job.escrow)
  BY <1>2, <1>7, <1>12
<1>15. /\ job.escrow + comp \in Int /\ -job.escrow \in Int /\ -penalty \in Int
       /\ penalty - comp \in Int
       /\ (job.escrow + comp) + (-job.escrow) + (-penalty) + (penalty - comp) = 0
  BY <1>2, <1>3, <1>4
<1>16. DollarsKept
  BY <1>8, <1>9, <1>10, <1>14, <1>15, DollarsBalance
<1> QED
  BY <1>13, <1>16

(* Cancelling gives the escrow and the credits back (settlement.move cancel). *)
LEMMA CancelAccounts ==
  ASSUME TypeOK, TypeOK', NEW s \in StakeIds, NEW j \in JobIds, Cancel(s, j)
  PROVE  CreditsKept /\ DollarsKept
<1> DEFINE job == jobs[j]
<1>1. stakes[s] # NULL /\ stakes[s] \in Stakes(Providers) /\ jobs[j] \in Jobs /\ Live(j)
  BY DEF TypeOK, Live, Exists, LiveStates, Cancel
<1>2. /\ job.qty \in Nat /\ job.escrow \in Nat /\ job.credits \in Nat
      /\ job.consumer \in Addrs /\ job.provider \in Addrs
      /\ usdc \in [Addrs -> Nat] /\ credits \in [Addrs -> Nat]
  BY <1>1 DEF Jobs, Addrs, TypeOK
<1>3. /\ usdc' = [usdc EXCEPT ![job.consumer] = usdc[job.consumer] + job.escrow]
      /\ credits' = [credits EXCEPT ![job.provider] = credits[job.provider] + job.credits]
      /\ stakes' = [stakes EXCEPT ![s] = Released(stakes[s], job.qty)]
      /\ jobs' = [jobs EXCEPT ![j] = Closed(jobs[j], "Refunded")]
      /\ UNCHANGED <<supply, asks, treasury>>
  BY DEF Cancel
<1>4. Closed(jobs[j], "Refunded").state \in TerminalStates
  BY <1>1, ClosedFields DEF TerminalStates
<1>5. /\ SumFunction(JobCredits') = SumFunction(JobCredits) - job.credits
      /\ SumFunction(JobEscrows') = SumFunction(JobEscrows) - job.escrow
  BY <1>1, <1>3, <1>4, EndedJob
<1> HIDE DEF job
<1>6. SumFunction(usdc') = SumFunction(usdc) + job.escrow
  BY <1>2, <1>3, Payment
<1>7. SumFunction(credits') = SumFunction(credits) + job.credits
  BY <1>2, <1>3, Payment
<1>8. /\ Released(stakes[s], job.qty) \in Stakes(Providers)
      /\ Released(stakes[s], job.qty).bond = stakes[s].bond
  BY <1>1, <1>2, CountersType, BondFields
<1>9. SumFunction(StakeBonds') = SumFunction(StakeBonds) + 0
  BY <1>1, <1>3, <1>8, SameBond
<1>10. /\ SumFunction(AskCredits') = SumFunction(AskCredits) + 0
       /\ supply' = supply + 0
       /\ treasury'.funds = treasury.funds + 0
  BY <1>3, SameTotals
<1>11. /\ SumFunction(JobCredits') = SumFunction(JobCredits) + (-job.credits)
       /\ SumFunction(JobEscrows') = SumFunction(JobEscrows) + (-job.escrow)
  <2>1. SumFunction(JobCredits) \in Nat /\ SumFunction(JobEscrows) \in Nat
    BY TotalsAreNat DEF TotalsNat
  <2> QED
    BY <1>2, <1>5, <2>1
<1>12. /\ 0 \in Int /\ job.escrow \in Int /\ -job.escrow \in Int
       /\ job.credits \in Int /\ -job.credits \in Int
       /\ job.escrow + (-job.escrow) + 0 + 0 = 0
       /\ 0 = job.credits + 0 + (-job.credits)
  BY <1>2
<1>13. DollarsKept
  BY <1>6, <1>9, <1>10, <1>11, <1>12, DollarsBalance
<1>14. CreditsKept
  BY <1>7, <1>10, <1>11, <1>12, CreditsBalance
<1> QED
  BY <1>13, <1>14

(* Governance moves dollars only when the treasury is withdrawn from (treasury.move). *)
LEMMA GovernanceAccounts ==
  ASSUME TypeOK, TypeOK', GovernanceStep
  PROVE  CreditsKept /\ DollarsKept
<1>1. ASSUME NEW amount \in Withdrawals, WithdrawTreasury(amount)
      PROVE  CreditsKept /\ DollarsKept
  <2>1. amount \in Nat /\ Admin \in Addrs /\ usdc \in [Addrs -> Nat] /\ treasury.funds \in Nat
    BY AmountsAreNat DEF Addrs, TypeOK
  <2>2. /\ usdc' = [usdc EXCEPT ![Admin] = usdc[Admin] + amount]
        /\ treasury' = [treasury EXCEPT !.funds = @ - amount]
        /\ UNCHANGED <<supply, stakes, asks, jobs, credits>>
    BY <1>1 DEF WithdrawTreasury
  <2>3. SumFunction(usdc') = SumFunction(usdc) + amount
    BY <2>1, <2>2, Payment
  <2>4. treasury'.funds = treasury.funds + (-amount)
    BY <2>1, <2>2 DEF TypeOK
  <2>5. /\ SumFunction(JobEscrows') = SumFunction(JobEscrows) + 0
        /\ SumFunction(StakeBonds') = SumFunction(StakeBonds) + 0
    BY <2>2, SameTotals
  <2>6. amount \in Int /\ -amount \in Int /\ 0 \in Int /\ amount + 0 + 0 + (-amount) = 0
    BY <2>1
  <2>7. DollarsKept
    BY <2>3, <2>4, <2>5, <2>6, DollarsBalance
  <2> QED
    BY <2>2, <2>7, CreditsLeftAlone
<1>2. ASSUME ~ \E amount \in Withdrawals : WithdrawTreasury(amount)
      PROVE  UNCHANGED <<supply, stakes, asks, jobs, credits, usdc, treasury>>
  BY <1>2
     DEF GovernanceStep, SetPause, SetIsLocalnet, SetProtocolFee, SetSlashTerms,
         SetMinStake, SetMarketActive, SetPool, SetSla, SetFeeTier, SetModelActive,
         AddMeasurement, RemoveMeasurement, Configure, Remarket, money
<1> QED
  BY <1>1, <1>2, CreditsLeftAlone, DollarsLeftAlone

-----------------------------------------------------------------------------
(* Credits and dollars are conserved *)

(* No step makes a credit without minting it, nor a dollar at all. *)
LEMMA StepAccounts ==
  ASSUME EscrowInv, TypeOK', [Next]_vars
  PROVE  CreditsKept /\ DollarsKept
<1>0. TypeOK
  BY DEF EscrowInv
<1>1. CASE ProviderStep
  <2>1. ASSUME NEW p \in Providers, RegisterProvider(p)
        PROVE  CreditsKept /\ DollarsKept
    BY <1>0, <2>1, CreditsLeftAlone, DollarsLeftAlone DEF RegisterProvider, money
  <2>2. ASSUME NEW p \in Providers, NEW s \in StakeIds, NEW b \in Bonds, NEW n \in Capacities,
               Stake(p, s, b, n)
        PROVE  CreditsKept /\ DollarsKept
    <3>1. b \in Nat /\ n \in Nat
      BY AmountsAreNat
    <3> QED
      BY <1>0, <2>2, <3>1, StakeAccounts
  <2>3. ASSUME NEW s \in StakeIds, NEW t \in TopUps, AddBond(s, t[1], t[2])
        PROVE  CreditsKept /\ DollarsKept
    <3>1. t[1] \in Nat /\ t[2] \in Nat
      BY AmountsAreNat
    <3> QED
      BY <1>0, <2>3, <3>1, AddBondAccounts
  <2>4. ASSUME NEW s \in StakeIds, NEW b \in Bonds, Unstake(s, b)
        PROVE  CreditsKept /\ DollarsKept
    BY <1>0, <2>4, AmountsAreNat, UnstakeAccounts
  <2>5. ASSUME NEW s \in StakeIds, NEW q \in Quantities, MintCredits(s, q)
        PROVE  CreditsKept /\ DollarsKept
    BY <1>0, <2>5, AmountsAreNat, MintAccounts
  <2>6. ASSUME NEW s \in StakeIds, NEW a \in AskIds, NEW q \in Quantities,
               NEW u \in UnitPrices, PostAsk(s, a, q, u)
        PROVE  CreditsKept /\ DollarsKept
    <3>1. q \in Nat /\ u \in Nat
      BY AmountsAreNat
    <3> QED
      BY <1>0, <2>6, <3>1, PostAccounts
  <2>7. ASSUME NEW p \in Providers, NEW c \in Consumers, NEW q \in Quantities,
               NEW u \in UnitPrices, DeepBookMatch(p, c, q, u)
        PROVE  CreditsKept /\ DollarsKept
    <3>1. q \in Nat /\ u \in Nat
      BY AmountsAreNat
    <3> QED
      BY <1>0, <2>7, <3>1, MatchAccounts
  <2> QED
    BY <1>1, <2>1, <2>2, <2>3, <2>4, <2>5, <2>6, <2>7 DEF ProviderStep
<1>2. CASE CreationStep
  <2>1. ASSUME NEW s \in StakeIds, NEW j \in JobIds, NEW q \in Quantities, NEW u \in UnitPrices,
               CreateJob(s, j, q, q * u)
        PROVE  CreditsKept /\ DollarsKept
    <3>1. q \in Nat /\ q * u \in Nat
      BY AmountsAreNat, ProductIsNat
    <3> QED
      BY <1>0, <2>1, <3>1, CreateAccounts
  <2>2. ASSUME NEW c \in Consumers, NEW a \in AskIds, NEW j \in JobIds, NEW q \in Quantities,
               NEW t \in Tips, CreateJobFromAsk(c, a, j, q, t)
        PROVE  CreditsKept /\ DollarsKept
    <3>1. q \in Nat /\ t \in Nat
      BY AmountsAreNat
    <3> QED
      BY <1>0, <2>2, <3>1, CreateFromAskAccounts
  <2>3. ASSUME NEW c \in Consumers, NEW p \in Providers, NEW j \in JobIds, NEW q \in Quantities,
               CreateJobFromFill(c, p, j, q)
        PROVE  CreditsKept /\ DollarsKept
    BY <1>0, <2>3, AmountsAreNat, CreateFromFillAccounts
  <2> QED
    BY <1>2, <2>1, <2>2, <2>3 DEF CreationStep
<1>3. CASE WorkStep
  BY <1>0, <1>3, WorkAccounts
<1>4. CASE SettlementStep
  <2>1. PICK s \in StakeIds, j \in JobIds : Resolve(s, j) \/ Cancel(s, j)
    BY <1>4 DEF SettlementStep
  <2>2. ASSUME Exists(j), RefundOnVerdict(s, j)
        PROVE  CreditsKept /\ DollarsKept
    <3>1. Live(j)
      BY <2>2 DEF RefundOnVerdict, Live, LiveStates
    <3>2. "sla" \in Faults /\ "invalid" \in Faults
      BY DEF Faults
    <3>3. RefundAndSlash(s, j, "sla", "SlaBreach")
            \/ RefundAndSlash(s, j, "invalid", "InvalidAttestation")
      BY <2>2 DEF RefundOnVerdict
    <3> QED
      BY <1>0, <3>1, <3>2, <3>3, SlashAccounts
  <2>3. ASSUME ExpireAndResolve(s, j)
        PROVE  CreditsKept /\ DollarsKept
    <3>1. Live(j)
      BY <2>3 DEF ExpireAndResolve, Live, LiveStates
    <3>2. ExpiryFault(j)[1] \in Faults
      BY <2>3, ExpiryFaultType DEF ExpireAndResolve
    <3>3. RefundAndSlash(s, j, ExpiryFault(j)[1], ExpiryFault(j)[2])
      BY <2>3 DEF ExpireAndResolve
    <3> QED
      BY <1>0, <3>1, <3>2, <3>3, SlashAccounts
  <2>4. ASSUME SettleFill(s, j)
        PROVE  CreditsKept /\ DollarsKept
    BY <1>0, <2>4, SettleFillAccounts DEF EscrowInv, JobSafe
  <2> QED
    BY <1>0, <2>1, <2>2, <2>3, <2>4, SettleAccounts, CancelAccounts
       DEF Resolve, ResolveAttested, ResolveFill
<1>5. CASE GovernanceStep
  BY <1>0, <1>5, GovernanceAccounts
<1>6. CASE Tick
  BY <1>0, <1>6, CreditsLeftAlone, DollarsLeftAlone DEF Tick, money
<1>7. CASE UNCHANGED vars
  BY <1>0, <1>7, CreditsLeftAlone, DollarsLeftAlone DEF vars, money
<1> QED
  BY <1>1, <1>2, <1>3, <1>4, <1>5, <1>6, <1>7 DEF Next

AccountsInv == EscrowInv /\ CreditsAccounted /\ DollarsConserved

(* The exchange is deployed without credits, with every dollar in a wallet. *)
LEMMA InitAccounts == Init => AccountsInv
<1> SUFFICES ASSUME Init PROVE AccountsInv
  OBVIOUS
<1>1. EscrowInv /\ TypeOK
  BY InitEscrow DEF EscrowInv
<1>2. /\ \A a \in Addrs : credits[a] = 0
      /\ \A a \in AskIds : AskCredits[a] = 0
      /\ \A j \in JobIds : JobCredits[j] = 0 /\ JobEscrows[j] = 0
      /\ \A s \in StakeIds : StakeBonds[s] = 0
  BY DEF Init, AskCredits, JobCredits, JobEscrows, StakeBonds, Live, Exists
<1>3. /\ credits \in [Addrs -> Int] /\ AskCredits \in [AskIds -> Int]
      /\ JobCredits \in [JobIds -> Int] /\ JobEscrows \in [JobIds -> Int]
      /\ StakeBonds \in [StakeIds -> Int]
  BY <1>2 DEF Init, AskCredits, JobCredits, JobEscrows, StakeBonds
<1>4. SumFunction(credits) = 0
  BY <1>2, <1>3, AddrsFinite, SumZero
<1>5. SumFunction(AskCredits) = 0
  BY <1>2, <1>3, FiniteAssumption, SumZero
<1>6. SumFunction(JobCredits) = 0 /\ SumFunction(JobEscrows) = 0
  BY <1>2, <1>3, FiniteAssumption, SumZero
<1>7. SumFunction(StakeBonds) = 0
  BY <1>2, <1>3, FiniteAssumption, SumZero
<1>8. SumFunction(usdc) = SumFunction(InitialUsdc) /\ SumFunction(usdc) \in Nat
  BY <1>1, TotalsAreNat DEF Init, TotalsNat
<1>9. supply = 0 /\ treasury.funds = 0
  BY DEF Init
<1>10. CreditsAccounted
  BY <1>4, <1>5, <1>6, <1>9 DEF CreditsAccounted, CirculatingCredits
<1>11. DollarsConserved
  BY <1>6, <1>7, <1>8, <1>9 DEF DollarsConserved
<1> QED
  BY <1>1, <1>10, <1>11 DEF AccountsInv

(* Both accounts are kept by every step. *)
LEMMA AccountsInductive == AccountsInv /\ [Next]_vars => AccountsInv'
<1> SUFFICES ASSUME AccountsInv, [Next]_vars PROVE AccountsInv'
  OBVIOUS
<1>1. EscrowInv'
  BY EscrowInductive DEF AccountsInv
<1>2. CreditsKept /\ DollarsKept
  BY <1>1, StepAccounts DEF AccountsInv, EscrowInv
<1>3. TotalsNat /\ TotalsNat' /\ supply \in Nat /\ supply' \in Nat
  BY <1>1, TotalsAreNat, TotalsStayNat DEF AccountsInv, EscrowInv, TypeOK
<1>4. CreditsAccounted'
  <2>1. CirculatingCredits \in Nat /\ CirculatingCredits' \in Nat
    BY <1>3 DEF CirculatingCredits, TotalsNat
  <2>2. supply = CirculatingCredits
    BY DEF AccountsInv, CreditsAccounted
  <2>3. supply' = CirculatingCredits'
    BY <1>2, <1>3, <2>1, <2>2 DEF CreditsKept
  <2> QED
    BY <2>3 DEF CreditsAccounted
<1>5. DollarsConserved'
  BY <1>2 DEF AccountsInv, DollarsConserved, DollarsKept, Dollars
<1> QED
  BY <1>1, <1>4, <1>5 DEF AccountsInv

(* The accounts balance in every reachable state. *)
LEMMA AccountsInvariant == Spec => []AccountsInv
BY InitAccounts, AccountsInductive, PTL DEF Spec

(* Every credit of the supply is in exactly one place, a wallet, an ask or a live job,   *)
(* and none is burned twice, for any number of stakes, asks, jobs and participants       *)
(* (market.move burn_credit, escrow.move, ask.move).                                     *)
THEOREM CreditsAccountedFor == Spec => []CreditsAccounted
<1>1. AccountsInv => CreditsAccounted
  BY DEF AccountsInv
<1> QED
  BY <1>1, AccountsInvariant, PTL

(* No dollar is created or lost between wallets, escrows, bonds and the treasury,        *)
(* whatever the fees, the slashes and their shares (settlement.move, treasury.move).     *)
THEOREM DollarsStay == Spec => []DollarsConserved
<1>1. AccountsInv => DollarsConserved
  BY DEF AccountsInv
<1> QED
  BY <1>1, AccountsInvariant, PTL

-----------------------------------------------------------------------------
(* One stake *)

\* The SCU reserved by the create_job jobs in flight.
InFlight == SumFunction(OwnedQuantities)

\* What the end of job j takes out of it.
OwnShare(j) == IF jobs[j].kind = "owned" THEN jobs[j].qty ELSE 0

SameCounters(s) ==
  stakes'[s].minted = stakes[s].minted /\ stakes'[s].reserved = stakes[s].reserved

\* Everything a step can do to the only stake s, to the supply and to what is in flight.
StakeCreated(s) ==
  /\ stakes[s] = NULL
  /\ stakes'[s].minted = 0 /\ stakes'[s].reserved = 0
  /\ supply' = supply /\ InFlight' = InFlight

StakeToppedUp(s) ==
  /\ SameCounters(s) /\ stakes'[s].bond >= stakes[s].bond
  /\ supply' = supply /\ InFlight' = InFlight

StakeWithdrawn(s) ==
  /\ Uncommitted(stakes[s]) /\ SameCounters(s)
  /\ supply' = supply /\ InFlight' = InFlight

StakeMinted(s) ==
  /\ \E q \in Nat : stakes'[s].minted = stakes[s].minted + q /\ supply' = supply + q
  /\ stakes'[s].reserved = stakes[s].reserved /\ stakes'[s].bond = stakes[s].bond
  /\ InFlight' = InFlight

StakeReserved(s) ==
  /\ \E q \in Nat : stakes'[s].reserved = stakes[s].reserved + q /\ InFlight' = InFlight + q
  /\ stakes'[s].minted = stakes[s].minted /\ stakes'[s].bond = stakes[s].bond
  /\ supply' = supply

StakeReleased(s, j) ==
  /\ Live(j)
  /\ stakes'[s].reserved = FloorSub(stakes[s].reserved, jobs[j].qty)
  /\ InFlight' = InFlight - OwnShare(j)
  /\ \/ stakes'[s].minted = stakes[s].minted /\ supply' = supply
     \/ /\ stakes'[s].minted = FloorSub(stakes[s].minted, jobs[j].qty)
        /\ supply' = supply - jobs[j].credits /\ supply >= jobs[j].credits
  /\ \E x \in Nat :
       /\ stakes'[s].bond = stakes[s].bond - x
       /\ stakes'[s].slashedTotal = stakes[s].slashedTotal + x

StakeStep(s) ==
  \/ stakes'[s] = stakes[s] /\ supply' = supply /\ InFlight' = InFlight
  \/ StakeCreated(s)
  \/ /\ stakes[s] # NULL /\ stakes'[s] # NULL
     /\ \/ StakeToppedUp(s)
        \/ StakeWithdrawn(s)
        \/ StakeMinted(s)
        \/ StakeReserved(s)
        \/ \E j \in JobIds : StakeReleased(s, j)

(* The fields of a stake after each operation of the ledger (staking.move). *)
LEMMA StakeFields ==
  ASSUME NEW st \in Stakes(Providers), NEW q \in Nat
  PROVE  /\ Minted(st, q).minted = st.minted + q /\ Minted(st, q).reserved = st.reserved
         /\ Reserved(st, q).reserved = st.reserved + q /\ Reserved(st, q).minted = st.minted
         /\ Released(st, q).reserved = FloorSub(st.reserved, q)
         /\ Released(st, q).minted = st.minted
         /\ Released(st, q).slashedTotal = st.slashedTotal
         /\ ConsumedMinted(st, q).minted = FloorSub(st.minted, q)
         /\ ConsumedMinted(st, q).reserved = st.reserved
         /\ ConsumedMinted(st, q).slashedTotal = st.slashedTotal
         /\ Derated(st).minted = st.minted /\ Derated(st).reserved = st.reserved
         /\ Derated(st).slashedTotal = st.slashedTotal
         /\ Withdrawn(st, q).minted = st.minted /\ Withdrawn(st, q).reserved = st.reserved
         /\ Slashed(st, q).minted = st.minted /\ Slashed(st, q).reserved = st.reserved
         /\ Slashed(st, q).slashedTotal = st.slashedTotal + AtMost(q, st.bond)
BY DEF Minted, Reserved, Released, ConsumedMinted, Derated, Withdrawn, Slashed, Stakes

(* Writing the only stake's slot. *)
LEMMA OnlySlot ==
  ASSUME TypeOK, NEW s \in StakeIds, NEW st, stakes' = [stakes EXCEPT ![s] = st]
  PROVE  stakes'[s] = st
BY DEF TypeOK

(* What the provider's own calls do to the only stake. *)
LEMMA ProviderStakeStep ==
  ASSUME TypeOK, TypeOK', NEW s, StakeIds = {s}, ProviderStep
  PROVE  StakeStep(s)
<1>0. s \in StakeIds /\ (stakes[s] # NULL => stakes[s] \in Stakes(Providers))
  BY DEF TypeOK
<1>1. CASE \E p \in Providers : RegisterProvider(p)
  BY <1>1, SameTables DEF RegisterProvider, StakeStep, InFlight
<1>2. ASSUME NEW p \in Providers, NEW b \in Bonds, NEW n \in Capacities, Stake(p, s, b, n)
      PROVE  StakeStep(s)
  <2>1. /\ stakes[s] = NULL /\ stakes' = [stakes EXCEPT ![s] = NewStake(p, b, n)]
        /\ supply' = supply /\ jobs' = jobs
    BY <1>2 DEF Stake
  <2>2. stakes'[s] = NewStake(p, b, n)
    BY <1>0, <2>1, OnlySlot
  <2>3. StakeCreated(s)
    BY <2>1, <2>2, SameTables DEF StakeCreated, NewStake, InFlight
  <2> QED
    BY <2>3 DEF StakeStep
<1>3. ASSUME NEW t \in TopUps, AddBond(s, t[1], t[2])
      PROVE  StakeStep(s)
  <2>1. /\ stakes[s] # NULL /\ stakes' = [stakes EXCEPT ![s] = AddedBond(stakes[s], t[1], t[2])]
        /\ supply' = supply /\ jobs' = jobs
    BY <1>3 DEF AddBond
  <2>2. stakes'[s] = AddedBond(stakes[s], t[1], t[2])
    BY <1>0, <2>1, OnlySlot
  <2>3. t[1] \in Nat /\ stakes[s].bond \in Nat
    BY <1>0, <2>1, AmountsAreNat DEF Stakes
  <2>4. SameCounters(s) /\ stakes'[s].bond = stakes[s].bond + t[1]
    BY <1>0, <2>1, <2>2 DEF SameCounters, AddedBond, Stakes
  <2>5. StakeToppedUp(s)
    BY <2>1, <2>3, <2>4, SameTables DEF StakeToppedUp, InFlight
  <2>6. stakes'[s] # NULL
    BY <1>0, <2>1, <2>2, AmountsAreNat, AddedBondType, NullAssumption
  <2> QED
    BY <2>1, <2>5, <2>6 DEF StakeStep
<1>4. ASSUME NEW b \in Bonds, Unstake(s, b)
      PROVE  StakeStep(s)
  <2>1. /\ stakes[s] # NULL /\ Uncommitted(stakes[s])
        /\ stakes' = [stakes EXCEPT ![s] = Withdrawn(stakes[s], b)]
        /\ supply' = supply /\ jobs' = jobs /\ stakes[s].bond >= b
    BY <1>4 DEF Unstake
  <2>2. stakes'[s] = Withdrawn(stakes[s], b)
    BY <1>0, <2>1, OnlySlot
  <2>3. SameCounters(s)
    BY <1>0, <2>1, <2>2 DEF SameCounters, Withdrawn, Stakes
  <2>4. StakeWithdrawn(s)
    BY <2>1, <2>3, SameTables DEF StakeWithdrawn, InFlight
  <2>5. stakes'[s] # NULL
    BY <1>0, <2>1, <2>2, AmountsAreNat, WithdrawnType, NullAssumption
  <2> QED
    BY <2>1, <2>4, <2>5 DEF StakeStep
<1>5. ASSUME NEW q \in Quantities, stakes[s] # NULL,
             stakes' = [stakes EXCEPT ![s] = Minted(stakes[s], q)],
             supply' = supply + q, jobs' = jobs
      PROVE  StakeStep(s)
  <2>1. q \in Nat
    BY AmountsAreNat
  <2>2. stakes'[s] = Minted(stakes[s], q)
    BY <1>0, <1>5, OnlySlot
  <2>3. /\ stakes'[s].minted = stakes[s].minted + q /\ stakes'[s].reserved = stakes[s].reserved
        /\ stakes'[s].bond = stakes[s].bond
    BY <1>0, <1>5, <2>1, <2>2, StakeFields, BondFields
  <2>4. StakeMinted(s)
    BY <1>5, <2>1, <2>3, SameTables DEF StakeMinted, InFlight
  <2>5. stakes'[s] # NULL
    BY <1>0, <1>5, <2>1, <2>2, CountersType, NullAssumption
  <2> QED
    BY <1>5, <2>4, <2>5 DEF StakeStep
<1>6. CASE \E q \in Quantities : MintCredits(s, q)
  BY <1>5, <1>6 DEF MintCredits, MayMint
<1>7. CASE \E a \in AskIds, q \in Quantities, u \in UnitPrices : PostAsk(s, a, q, u)
  BY <1>5, <1>7 DEF PostAsk, MayMint
<1>8. CASE \E p \in Providers, c \in Consumers, q \in Quantities, u \in UnitPrices :
             DeepBookMatch(p, c, q, u)
  BY <1>8, SameTables DEF DeepBookMatch, StakeStep, InFlight
<1> QED
  BY <1>1, <1>2, <1>3, <1>4, <1>6, <1>7, <1>8 DEF ProviderStep

(* Only create_job reserves on the stake; the other two creations leave it alone. *)
LEMMA CreationStakeStep ==
  ASSUME TypeOK, TypeOK', NEW s, StakeIds = {s}, CreationStep
  PROVE  StakeStep(s)
<1>0. s \in StakeIds /\ (stakes[s] # NULL => stakes[s] \in Stakes(Providers))
  BY DEF TypeOK
<1>1. ASSUME NEW j \in JobIds, NEW q \in Quantities, NEW u \in UnitPrices,
             CreateJob(s, j, q, q * u)
      PROVE  StakeStep(s)
  <2> DEFINE p == stakes[s].provider
             job == NewJob("owned", p, p, q, q * u, q * u)
  <2>1. /\ stakes[s] # NULL /\ stakes' = [stakes EXCEPT ![s] = Reserved(stakes[s], q)]
        /\ supply' = supply /\ jobs[j] = NULL /\ jobs' = [jobs EXCEPT ![j] = job]
    BY <1>1 DEF CreateJob, MayCreate
  <2>2. q \in Nat /\ q * u \in Nat /\ p \in Providers
    BY <1>0, <2>1, AmountsAreNat, ProductIsNat DEF Stakes
  <2>3. job # NULL /\ job.state \in LiveStates /\ job.kind = "owned" /\ job.qty = q
    BY <2>2, NewJobFields DEF JobKinds, LiveStates
  <2> HIDE DEF p, job
  <2>4. InFlight' = InFlight + q
    BY <2>1, <2>3, CreatedJob DEF InFlight
  <2>5. stakes'[s] = Reserved(stakes[s], q)
    BY <1>0, <2>1, OnlySlot
  <2>6. /\ stakes'[s].reserved = stakes[s].reserved + q /\ stakes'[s].minted = stakes[s].minted
        /\ stakes'[s].bond = stakes[s].bond
    BY <1>0, <2>1, <2>2, <2>5, StakeFields, BondFields
  <2>7. StakeReserved(s)
    BY <2>1, <2>2, <2>4, <2>6 DEF StakeReserved
  <2>8. stakes'[s] # NULL
    BY <1>0, <2>1, <2>2, <2>5, CountersType, NullAssumption
  <2> QED
    BY <2>1, <2>7, <2>8 DEF StakeStep
<1>2. ASSUME NEW j \in JobIds, jobs[j] = NULL, NEW job, jobs' = [jobs EXCEPT ![j] = job],
             job # NULL, job.state \in LiveStates, job.kind # "owned",
             UNCHANGED <<supply, stakes>>
      PROVE  StakeStep(s)
  <2>1. InFlight' = InFlight + 0
    BY <1>2, CreatedJob DEF InFlight
  <2>2. InFlight \in Nat
    BY TotalsAreNat DEF TotalsNat, InFlight
  <2> QED
    BY <1>2, <2>1, <2>2 DEF StakeStep
<1>3. ASSUME NEW c \in Consumers, NEW a \in AskIds, NEW j \in JobIds, NEW q \in Quantities,
             NEW t \in Tips, CreateJobFromAsk(c, a, j, q, t)
      PROVE  StakeStep(s)
  <2> DEFINE p == asks[a].provider
             price == q * asks[a].price + t
             job == NewJob("ask", c, p, q, price, price)
  <2>1. /\ asks[a] \in Asks /\ jobs[j] = NULL /\ jobs' = [jobs EXCEPT ![j] = job]
        /\ UNCHANGED <<supply, stakes>>
    BY <1>3 DEF CreateJobFromAsk, MayCreate, TypeOK
  <2>2. job # NULL
    <3>1. "ask" \in JobKinds /\ c \in Providers \cup Consumers
      BY DEF JobKinds
    <3>2. p \in Providers /\ asks[a].price \in Nat /\ q \in Nat /\ t \in Nat
      BY <2>1, AmountsAreNat DEF Asks
    <3>3. price \in Nat
      <4>1. q * asks[a].price \in Nat
        BY <3>2, ProductIsNat
      <4> QED
        BY <3>2, <4>1
    <3> HIDE DEF price, p
    <3> QED
      BY <3>1, <3>2, <3>3, NewJobFields
  <2>3. job.state \in LiveStates /\ job.kind # "owned"
    BY DEF NewJob, LiveStates
  <2> HIDE DEF job
  <2> QED
    BY <1>2, <2>1, <2>2, <2>3
<1>4. ASSUME NEW c \in Consumers, NEW p \in Providers, NEW j \in JobIds, NEW q \in Quantities,
             CreateJobFromFill(c, p, j, q)
      PROVE  StakeStep(s)
  <2> DEFINE job == NewJob("fill", c, p, q, q, 0)
  <2>1. /\ jobs[j] = NULL /\ jobs' = [jobs EXCEPT ![j] = job]
        /\ UNCHANGED <<supply, stakes>>
    BY <1>4 DEF CreateJobFromFill, MayCreate
  <2>2. job # NULL /\ job.state \in LiveStates /\ job.kind # "owned"
    BY AmountsAreNat, NewJobFields DEF JobKinds, LiveStates
  <2> HIDE DEF job
  <2> QED
    BY <1>2, <2>1, <2>2
<1> QED
  BY <1>1, <1>3, <1>4 DEF CreationStep

(* Ending a job releases its reservation, and takes what the job had reserved out of what *)
(* is in flight (settlement.move).                                                        *)
LEMMA SettlementStakeStep ==
  ASSUME TypeOK, TypeOK', NEW s, StakeIds = {s}, SettlementStep
  PROVE  StakeStep(s)
<1>0. s \in StakeIds /\ (stakes[s] # NULL => stakes[s] \in Stakes(Providers))
  BY DEF TypeOK
<1>1. PICK j \in JobIds : Resolve(s, j) \/ Cancel(s, j)
  BY DEF SettlementStep
<1>2. ASSUME Exists(j)
      PROVE  jobs[j] \in Jobs /\ jobs[j].qty \in Nat
  BY <1>2 DEF Exists, TypeOK, Jobs
<1>3. ASSUME Live(j), NEW o \in TerminalStates, jobs' = [jobs EXCEPT ![j] = Closed(jobs[j], o)]
      PROVE  InFlight' = InFlight - OwnShare(j)
  <2>1. Closed(jobs[j], o).state = o
    BY <1>2, <1>3, ClosedFields DEF Live
  <2> QED
    BY <1>3, <2>1, EndedJob DEF InFlight, OwnShare
<1>4. ASSUME stakes[s] # NULL, Live(j), Retire(s, j), supply >= jobs[j].credits,
             jobs' = [jobs EXCEPT ![j] = Closed(jobs[j], "Settled")]
      PROVE  StakeStep(s)
  <2> DEFINE q == jobs[j].qty
             s1 == ConsumedMinted(stakes[s], q)
  <2>1. q \in Nat
    BY <1>2, <1>4 DEF Live
  <2>2. stakes' = [stakes EXCEPT ![s] = Released(s1, q)] /\ supply' = supply - jobs[j].credits
    BY <1>4 DEF Retire
  <2> HIDE DEF q
  <2>3. /\ s1 \in Stakes(Providers) /\ s1.bond = stakes[s].bond
        /\ s1.minted = FloorSub(stakes[s].minted, q) /\ s1.reserved = stakes[s].reserved
        /\ s1.slashedTotal = stakes[s].slashedTotal
    BY <1>0, <1>4, <2>1, CountersType, StakeFields, BondFields
  <2> HIDE DEF s1
  <2>4. stakes'[s] = Released(s1, q)
    BY <1>0, <2>2, OnlySlot
  <2>5. /\ stakes'[s].bond = stakes[s].bond
        /\ stakes'[s].minted = FloorSub(stakes[s].minted, q)
        /\ stakes'[s].reserved = FloorSub(stakes[s].reserved, q)
        /\ stakes'[s].slashedTotal = stakes[s].slashedTotal
    BY <2>1, <2>3, <2>4, StakeFields, BondFields
  <2>6. /\ stakes'[s].bond = stakes[s].bond - 0
        /\ stakes'[s].slashedTotal = stakes[s].slashedTotal + 0
    BY <1>0, <1>4, <2>5 DEF Stakes
  <2>7. InFlight' = InFlight - OwnShare(j)
    BY <1>3, <1>4 DEF TerminalStates
  <2>8. StakeReleased(s, j)
    BY <1>4, <2>2, <2>5, <2>6, <2>7 DEF StakeReleased, q
  <2>9. stakes'[s] # NULL
    BY <2>1, <2>3, <2>4, CountersType, NullAssumption
  <2> QED
    BY <1>4, <2>8, <2>9 DEF StakeStep
<1>5. ASSUME Settle(s, j) \/ SettleFill(s, j)
      PROVE  StakeStep(s)
  BY <1>4, <1>5 DEF Settle, SettleFill, Live, LiveStates
<1>6. ASSUME Live(j), NEW fault \in Faults, NEW reason, RefundAndSlash(s, j, fault, reason)
      PROVE  StakeStep(s)
  <2> DEFINE q       == jobs[j].qty
             penalty == SlashAmount(cfg.slash, stakes[s], q, fault)
             s1      == Slashed(stakes[s], penalty)
             s2      == Derated(s1)
  <2>1. q \in Nat /\ jobs[j] \in Jobs /\ stakes[s] # NULL /\ stakes[s] \in Stakes(Providers)
        /\ cfg.slash \in SlashTerms
    BY <1>0, <1>2, <1>6 DEF Live, RefundAndSlash, TypeOK
  <2>2. penalty \in Nat /\ penalty <= stakes[s].bond /\ stakes[s].bond \in Nat
    <3>1. stakes[s].bond \in Nat
      BY <2>1 DEF Stakes
    <3> QED
      BY <2>1, <3>1, PenaltyWithinBond
  <2>3. /\ stakes' = [stakes EXCEPT ![s] = Released(s2, q)] /\ supply' = supply
        /\ jobs' = [jobs EXCEPT ![j] = ClosedBySlash(jobs[j])]
    BY <1>6 DEF RefundAndSlash
  <2> HIDE DEF q, penalty
  <2>4. AtMost(penalty, stakes[s].bond) = penalty
    BY <2>2 DEF AtMost
  <2>5. /\ s1 \in Stakes(Providers) /\ s1.bond = stakes[s].bond - penalty
        /\ s1.minted = stakes[s].minted /\ s1.reserved = stakes[s].reserved
        /\ s1.slashedTotal = stakes[s].slashedTotal + penalty
    <3>1. s1 \in Stakes(Providers)
      BY <2>1, <2>2, SlashedType
    <3>2. s1.bond = stakes[s].bond - penalty
      BY <2>1, <2>2, BondFields
    <3>3. /\ s1.minted = stakes[s].minted /\ s1.reserved = stakes[s].reserved
          /\ s1.slashedTotal = stakes[s].slashedTotal + penalty
      BY <2>1, <2>2, <2>4, StakeFields
    <3> QED
      BY <3>1, <3>2, <3>3
  <2> HIDE DEF s1
  <2>6. /\ s2 \in Stakes(Providers) /\ s2.bond = s1.bond
        /\ s2.minted = s1.minted /\ s2.reserved = s1.reserved
        /\ s2.slashedTotal = s1.slashedTotal
    BY <2>1, <2>5, DeratedType, StakeFields, BondFields
  <2> HIDE DEF s2
  <2>7. stakes'[s] = Released(s2, q)
    BY <1>0, <2>3, OnlySlot
  <2>8. /\ stakes'[s].bond = stakes[s].bond - penalty
        /\ stakes'[s].minted = stakes[s].minted
        /\ stakes'[s].reserved = FloorSub(stakes[s].reserved, q)
        /\ stakes'[s].slashedTotal = stakes[s].slashedTotal + penalty
    BY <2>1, <2>5, <2>6, <2>7, StakeFields, BondFields
  <2>9. InFlight' = InFlight - OwnShare(j)
    <3>1. ClosedBySlash(jobs[j]).state \in TerminalStates
      BY <2>1, ClosedBySlashFields DEF TerminalStates
    <3> QED
      BY <1>6, <2>3, <3>1, EndedJob DEF InFlight, OwnShare
  <2>10. StakeReleased(s, j)
    BY <1>6, <2>2, <2>3, <2>8, <2>9 DEF StakeReleased, q
  <2>11. stakes'[s] # NULL
    BY <2>1, <2>6, <2>7, CountersType, NullAssumption
  <2> QED
    BY <2>1, <2>10, <2>11 DEF StakeStep
<1>7. ASSUME Exists(j), RefundOnVerdict(s, j)
      PROVE  StakeStep(s)
  <2>1. Live(j) /\ "sla" \in Faults /\ "invalid" \in Faults
    BY <1>7 DEF RefundOnVerdict, Live, LiveStates, Faults
  <2>2. RefundAndSlash(s, j, "sla", "SlaBreach")
          \/ RefundAndSlash(s, j, "invalid", "InvalidAttestation")
    BY <1>7 DEF RefundOnVerdict
  <2> QED
    BY <1>6, <2>1, <2>2
<1>8. ASSUME ExpireAndResolve(s, j)
      PROVE  StakeStep(s)
  <2>1. Live(j)
    BY <1>8 DEF ExpireAndResolve, Live, LiveStates
  <2>2. ExpiryFault(j)[1] \in Faults
    BY <1>8, ExpiryFaultType DEF ExpireAndResolve
  <2>3. RefundAndSlash(s, j, ExpiryFault(j)[1], ExpiryFault(j)[2])
    BY <1>8 DEF ExpireAndResolve
  <2> QED
    BY <1>6, <2>1, <2>2, <2>3
<1>9. ASSUME Cancel(s, j)
      PROVE  StakeStep(s)
  <2> DEFINE q == jobs[j].qty
  <2>1. /\ stakes[s] # NULL /\ Live(j) /\ q \in Nat
        /\ stakes' = [stakes EXCEPT ![s] = Released(stakes[s], q)] /\ supply' = supply
        /\ jobs' = [jobs EXCEPT ![j] = Closed(jobs[j], "Refunded")]
    BY <1>2, <1>9 DEF Cancel, Live, LiveStates
  <2> HIDE DEF q
  <2>2. stakes'[s] = Released(stakes[s], q)
    BY <1>0, <2>1, OnlySlot
  <2>3. /\ stakes'[s].bond = stakes[s].bond
        /\ stakes'[s].minted = stakes[s].minted
        /\ stakes'[s].reserved = FloorSub(stakes[s].reserved, q)
        /\ stakes'[s].slashedTotal = stakes[s].slashedTotal
    BY <1>0, <2>1, <2>2, StakeFields, BondFields
  <2>4. /\ stakes'[s].bond = stakes[s].bond - 0
        /\ stakes'[s].slashedTotal = stakes[s].slashedTotal + 0
    BY <1>0, <2>1, <2>3 DEF Stakes
  <2>5. InFlight' = InFlight - OwnShare(j)
    BY <1>3, <2>1 DEF TerminalStates
  <2>6. StakeReleased(s, j)
    BY <2>1, <2>3, <2>4, <2>5 DEF StakeReleased, q
  <2>7. stakes'[s] # NULL
    BY <1>0, <2>1, <2>2, CountersType, NullAssumption
  <2> QED
    BY <2>1, <2>6, <2>7 DEF StakeStep
<1> QED
  BY <1>1, <1>5, <1>7, <1>8, <1>9 DEF Resolve, ResolveAttested, ResolveFill

(* Nothing else happens to the only stake. *)
LEMMA StakeStepLemma ==
  ASSUME TypeOK, TypeOK', NEW s, StakeIds = {s}, [Next]_vars
  PROVE  StakeStep(s)
<1>1. CASE WorkStep
  <2>1. UNCHANGED <<supply, stakes>>
    BY <1>1 DEF WorkStep, Ack, SubmitMockAttestation, SubmitSignedAttestation, RecordAttestation
  <2>2. ASSUME NEW j \in JobIds, Ack(j)
        PROVE  InFlight' = InFlight
    <3>1. Live(j) /\ jobs[j] \in Jobs /\ jobs' = [jobs EXCEPT ![j] = Acked(jobs[j])]
      BY <2>2 DEF Ack, Live, Exists, LiveStates, TypeOK
    <3>2. /\ Acked(jobs[j]) # NULL /\ Acked(jobs[j]).state \in LiveStates
          /\ SameTerms(Acked(jobs[j]), jobs[j])
          /\ Acked(jobs[j]).escrow = jobs[j].escrow /\ Acked(jobs[j]).credits = jobs[j].credits
      BY <3>1, AckedFields DEF LiveStates
    <3> QED
      BY <3>1, <3>2, WorkedJob DEF InFlight
  <2>3. ASSUME NEW j \in JobIds, NEW v \in {"valid", "sla", "invalid"}, RecordAttestation(j, v)
        PROVE  InFlight' = InFlight
    <3> DEFINE job == Judged(jobs[j], v)
    <3>1. Live(j) /\ jobs[j] \in Jobs /\ jobs' = [jobs EXCEPT ![j] = job]
      BY <2>3 DEF RecordAttestation, Live, Exists, LiveStates, TypeOK
    <3>2. /\ job # NULL /\ job.state \in LiveStates /\ SameTerms(job, jobs[j])
          /\ job.escrow = jobs[j].escrow /\ job.credits = jobs[j].credits
      BY <3>1, JudgedFields DEF LiveStates
    <3> HIDE DEF job
    <3> QED
      BY <3>1, <3>2, WorkedJob DEF InFlight
  <2>4. InFlight' = InFlight
    BY <1>1, <2>2, <2>3, VerdictType
       DEF WorkStep, SubmitMockAttestation, SubmitSignedAttestation
  <2> QED
    BY <2>1, <2>4 DEF StakeStep
<1>2. CASE GovernanceStep \/ Tick \/ UNCHANGED vars
  <2>1. UNCHANGED <<supply, stakes, jobs>>
    BY <1>2
       DEF GovernanceStep, SetPause, SetIsLocalnet, SetProtocolFee, SetSlashTerms,
           SetMinStake, SetMarketActive, SetPool, SetSla, SetFeeTier, SetModelActive,
           AddMeasurement, RemoveMeasurement, WithdrawTreasury, Configure, Remarket, Tick, vars
  <2> QED
    BY <2>1, SameTables DEF StakeStep, InFlight
<1> QED
  BY <1>1, <1>2, ProviderStakeStep, CreationStakeStep, SettlementStakeStep DEF Next

(* A live job is for at least one SCU: what makes an empty sum of credits mean no job. *)
JobNotEmpty(j) == Live(j) => jobs[j].qty > 0

OneStakeInv ==
  /\ AccountsInv
  /\ \A j \in JobIds : JobNotEmpty(j)
  /\ \A s \in StakeIds : stakes[s] = NULL => supply = 0
  /\ MintedMatchesSupply
  /\ ReservationsNotLeaked

(* No step empties a live job, and none is created empty (job.move). *)
LEMMA NotEmptyStays ==
  ASSUME TypeOK, NEW j \in JobIds, JobNotEmpty(j), JobStep(j)
  PROVE  JobNotEmpty(j)'
<1> USE DEF JobNotEmpty, Live, Exists, LiveStates, TerminalStates
<1>0. jobs[j] # NULL => jobs[j] \in Jobs
  BY DEF TypeOK
<1>1. CASE JobUntouched(j)
  BY <1>1 DEF JobUntouched
<1>2. CASE JobCreated(j)
  BY <1>2, NewJobFields DEF JobCreated
<1>3. CASE JobAcked(j)
  BY <1>0, <1>3, AckedFields DEF JobAcked, SameTerms
<1>4. CASE JobJudged(j)
  BY <1>0, <1>4, JudgedFields DEF JobJudged, SameTerms
<1>5. CASE JobSettled(j)
  BY <1>0, <1>5, ClosedFields DEF JobSettled
<1>6. CASE JobSlashed(j)
  BY <1>0, <1>6, ClosedBySlashFields DEF JobSlashed
<1>7. CASE JobCancelled(j)
  BY <1>0, <1>7, ClosedFields DEF JobCancelled
<1> QED
  BY <1>1, <1>2, <1>3, <1>4, <1>5, <1>6, <1>7 DEF JobStep

(* A release keeps the reservations within what is in flight, whether or not the job that *)
(* ends had reserved anything: release stops at zero (staking.move release).              *)
LEMMA ReleaseWithinFlight ==
  ASSUME NEW r \in Nat, NEW f \in Nat, NEW q \in Nat, NEW x \in {0, q},
         r <= f, f - x \in Nat
  PROVE  FloorSub(r, q) <= f - x
BY DEF FloorSub

(* What a step does to the only stake keeps its counters equal to the supply and within    *)
(* what is in flight.                                                                      *)
LEMMA StakeStepKeeps ==
  ASSUME NEW s, StakeIds = {s}, OneStakeInv, TypeOK, TypeOK', StakeStep(s)
  PROVE  /\ stakes'[s] = NULL => supply' = 0
         /\ stakes'[s] # NULL => stakes'[s].minted = supply' /\ stakes'[s].reserved <= InFlight'
<1>0. /\ s \in StakeIds /\ supply \in Nat /\ supply' \in Nat
      /\ stakes[s] # NULL =>
           /\ stakes[s].minted \in Nat /\ stakes[s].reserved \in Nat
           /\ stakes[s].minted = supply /\ stakes[s].reserved <= InFlight
      /\ stakes[s] = NULL => supply = 0
  BY DEF TypeOK, OneStakeInv, MintedMatchesSupply, ReservationsNotLeaked, InFlight, Stakes
<1>1. InFlight \in Nat /\ InFlight' \in Nat
  BY TotalsAreNat, TotalsStayNat DEF TotalsNat, InFlight
<1>2. CASE stakes'[s] = stakes[s] /\ supply' = supply /\ InFlight' = InFlight
  BY <1>0, <1>2
<1>3. CASE StakeCreated(s)
  BY <1>0, <1>1, <1>3 DEF StakeCreated
<1>4. CASE stakes[s] # NULL /\ stakes'[s] # NULL /\ (StakeToppedUp(s) \/ StakeWithdrawn(s))
  BY <1>0, <1>4 DEF StakeToppedUp, StakeWithdrawn, SameCounters
<1>5. CASE stakes[s] # NULL /\ stakes'[s] # NULL /\ StakeMinted(s)
  BY <1>0, <1>5 DEF StakeMinted
<1>6. CASE stakes[s] # NULL /\ stakes'[s] # NULL /\ StakeReserved(s)
  BY <1>0, <1>1, <1>6 DEF StakeReserved
<1>7. ASSUME stakes[s] # NULL, stakes'[s] # NULL, NEW j \in JobIds, StakeReleased(s, j)
      PROVE  stakes'[s].minted = supply' /\ stakes'[s].reserved <= InFlight'
  <2>1. Live(j) /\ jobs[j].qty \in Nat /\ OwnShare(j) \in {0, jobs[j].qty}
    BY <1>7 DEF StakeReleased, Live, Exists, TypeOK, Jobs, OwnShare
  <2>2. jobs[j].credits = jobs[j].qty
    BY <2>1 DEF OneStakeInv, AccountsInv, EscrowInv, JobSafe, JobCustody
  <2>3. stakes'[s].minted = supply'
    BY <1>0, <1>7, <2>1, <2>2 DEF StakeReleased, FloorSub
  <2>4. /\ stakes'[s].reserved = FloorSub(stakes[s].reserved, jobs[j].qty)
        /\ InFlight' = InFlight - OwnShare(j)
    BY <1>7 DEF StakeReleased
  <2>5. stakes'[s].reserved <= InFlight'
    BY <1>0, <1>1, <1>7, <2>1, <2>4, ReleaseWithinFlight
  <2> QED
    BY <2>3, <2>5
<1> QED
  BY <1>2, <1>3, <1>4, <1>5, <1>6, <1>7 DEF StakeStep

(* With one stake, its counters follow the credits and the reservations through every step. *)
LEMMA OneStakeInductive ==
  ASSUME NEW s, StakeIds = {s}
  PROVE  OneStakeInv /\ [Next]_vars => OneStakeInv'
<1> SUFFICES ASSUME OneStakeInv, [Next]_vars PROVE OneStakeInv'
  OBVIOUS
<1>1. AccountsInv /\ AccountsInv'
  BY AccountsInductive DEF OneStakeInv
<1>2. TypeOK /\ TypeOK'
  BY <1>1 DEF AccountsInv, EscrowInv
<1>3. \A j \in JobIds : JobNotEmpty(j)'
  BY <1>2, JobStepLemma, NotEmptyStays DEF OneStakeInv
<1>4. StakeStep(s)
  BY <1>2, StakeStepLemma
<1>5. /\ stakes'[s] = NULL => supply' = 0
      /\ stakes'[s] # NULL => stakes'[s].minted = supply' /\ stakes'[s].reserved <= InFlight'
  BY <1>2, <1>4, StakeStepKeeps
<1>6. MintedMatchesSupply' /\ ReservationsNotLeaked'
      /\ \A t \in StakeIds : stakes'[t] = NULL => supply' = 0
  BY <1>5 DEF MintedMatchesSupply, ReservationsNotLeaked, InFlight
<1> QED
  BY <1>1, <1>3, <1>6 DEF OneStakeInv

LEMMA InitOneStake == Init => OneStakeInv
<1> SUFFICES ASSUME Init PROVE OneStakeInv
  OBVIOUS
<1>1. AccountsInv
  BY InitAccounts
<1> QED
  BY <1>1 DEF Init, OneStakeInv, JobNotEmpty, Live, Exists, MintedMatchesSupply,
              ReservationsNotLeaked

LEMMA OneStakeInvariant ==
  ASSUME NEW CONSTANT s, StakeIds = {s}
  PROVE  Spec => []OneStakeInv
<1>1. Init => OneStakeInv
  BY InitOneStake
<1>2. OneStakeInv /\ [Next]_vars => OneStakeInv'
  BY OneStakeInductive
<1> QED
  BY <1>1, <1>2, PTL DEF Spec

(* With one stake, minted_scu is the supply: what is burned at settlement is what leaves   *)
(* the counter, although consume_minted would silently stop at zero (staking.move).        *)
THEOREM MintedIsSupply ==
  ASSUME NEW CONSTANT s, StakeIds = {s}
  PROVE  Spec => []MintedMatchesSupply
<1>1. OneStakeInv => MintedMatchesSupply
  BY DEF OneStakeInv
<1>2. Spec => []OneStakeInv
  BY OneStakeInvariant
<1> QED
  BY <1>1, <1>2, PTL

(* With one stake, no terminal path leaks a reservation: the counter never holds more than *)
(* the create_job jobs in flight (settlement.move, staking.move release).                  *)
THEOREM NoReservationLeaks ==
  ASSUME NEW CONSTANT s, StakeIds = {s}
  PROVE  Spec => []ReservationsNotLeaked
<1>1. OneStakeInv => ReservationsNotLeaked
  BY DEF OneStakeInv
<1>2. Spec => []OneStakeInv
  BY OneStakeInvariant
<1> QED
  BY <1>1, <1>2, PTL

(* When no credit circulates no job is live: a live job holds at least one.               *)
LEMMA NoCreditsNoJobs ==
  ASSUME OneStakeInv, CirculatingCredits = 0
  PROVE  LiveJobs = {}
<1>1. TypeOK /\ TotalsNat
  BY TotalsAreNat DEF OneStakeInv, AccountsInv, EscrowInv
<1>2. SumFunction(JobCredits) = 0
  BY <1>1 DEF TotalsNat, CirculatingCredits
<1>3. ASSUME NEW j \in JobIds, Live(j)
      PROVE  FALSE
  <2>1. JobCredits[j] = jobs[j].qty /\ jobs[j].qty > 0
    BY <1>3, JobHoldings DEF OneStakeInv, AccountsInv, EscrowInv, JobSafe, JobCustody, JobNotEmpty
  <2>2. JobCredits \in [JobIds -> Nat] /\ jobs[j].qty \in Nat
    BY <1>1, <1>3, AccountsType DEF TypeOK, Live, Exists, Jobs
  <2>3. JobCredits[j] <= SumFunction(JobCredits)
    BY <2>2, FiniteAssumption, SumBounds
  <2> QED
    BY <1>2, <2>1, <2>2, <2>3
<1> QED
  BY <1>3 DEF LiveJobs

(* With one stake, bond that leaves other than by a slash leaves while no credit circulates *)
(* and no job is live (staking.move unstake).                                               *)
THEOREM BondLocked ==
  ASSUME NEW CONSTANT stake, StakeIds = {stake}
  PROVE  Spec => BondLockedWhileAtRisk
<1>1. OneStakeInv /\ [Next]_vars =>
        [\A s \in StakeIds :
           (/\ stakes[s] # NULL
            /\ stakes'[s].bond < stakes[s].bond
            /\ stakes'[s].slashedTotal = stakes[s].slashedTotal)
           => CirculatingCredits = 0 /\ LiveJobs = {}]_vars
  <2> SUFFICES ASSUME OneStakeInv, [Next]_vars, NEW s \in StakeIds,
                      stakes[s] # NULL, stakes'[s].bond < stakes[s].bond,
                      stakes'[s].slashedTotal = stakes[s].slashedTotal
               PROVE  CirculatingCredits = 0 /\ LiveJobs = {}
    OBVIOUS
  <2>1. TypeOK /\ TypeOK' /\ StakeIds = {s}
    BY TypeInductive DEF OneStakeInv, AccountsInv, EscrowInv
  <2>2. stakes[s].bond \in Nat /\ stakes[s].slashedTotal \in Nat
    BY <2>1 DEF TypeOK, Stakes
  <2>3. StakeStep(s)
    BY <2>1, StakeStepLemma
  <2>4. StakeWithdrawn(s)
    <3>1. ASSUME NEW j \in JobIds, StakeReleased(s, j)
          PROVE  FALSE
      BY <2>2, <3>1 DEF StakeReleased
    <3>2. stakes'[s] # stakes[s]
      BY <2>2
    <3>3. stakes'[s] # NULL => ~StakeToppedUp(s) /\ ~StakeMinted(s) /\ ~StakeReserved(s)
      <4>1. stakes'[s] # NULL => stakes'[s].bond \in Nat
        BY <2>1 DEF TypeOK, Stakes
      <4> QED
        BY <2>2, <4>1 DEF StakeToppedUp, StakeMinted, StakeReserved
    <3> QED
      BY <2>3, <3>1, <3>2, <3>3 DEF StakeStep, StakeCreated
  <2>5. supply = 0
    BY <2>1, <2>4 DEF StakeWithdrawn, Uncommitted, OneStakeInv, MintedMatchesSupply
  <2>6. CirculatingCredits = 0
    BY <2>5 DEF OneStakeInv, AccountsInv, CreditsAccounted
  <2> QED
    BY <2>6, NoCreditsNoJobs
<1>2. Spec => []OneStakeInv
  BY OneStakeInvariant
<1> QED
  BY <1>1, <1>2, PTL DEF Spec, BondLockedWhileAtRisk

-----------------------------------------------------------------------------
(* The books of the treasury *)

(* The treasury and the administrator are left alone. *)
BooksUntouched == treasury' = treasury /\ usdc'[Admin] = usdc[Admin]

(* What a step takes in is in the funds and in one of the two totals, and nowhere else. *)
TakenIn(x) ==
  /\ x \in Nat
  /\ usdc'[Admin] = usdc[Admin]
  /\ treasury'.funds = treasury.funds + x
  /\ treasury'.fees + treasury'.slashes = treasury.fees + treasury.slashes + x

(* What is taken out goes to the administrator. *)
TakenOut(x) ==
  /\ x \in Nat
  /\ usdc'[Admin] = usdc[Admin] + x
  /\ treasury'.funds = treasury.funds - x
  /\ treasury'.fees = treasury.fees /\ treasury'.slashes = treasury.slashes

BooksStep ==
  \/ BooksUntouched
  \/ \E x \in Nat : TakenIn(x)
  \/ \E x \in Nat : TakenOut(x)

(* The books balance after such a step if they did before. *)
LEMMA BooksKept ==
  ASSUME TypeOK, TypeOK', TreasuryBooksBalance, BooksStep
  PROVE  TreasuryBooksBalance'
<1>1. /\ treasury.funds \in Nat /\ treasury.fees \in Nat /\ treasury.slashes \in Nat
      /\ treasury'.funds \in Nat /\ treasury'.fees \in Nat /\ treasury'.slashes \in Nat
      /\ usdc[Admin] \in Nat /\ usdc'[Admin] \in Nat /\ InitialUsdc[Admin] \in Nat
  BY AddressAssumption DEF TypeOK, Addrs
<1>2. CASE BooksUntouched
  BY <1>2 DEF BooksUntouched, TreasuryBooksBalance
<1>3. ASSUME NEW x \in Nat, TakenIn(x)
      PROVE  TreasuryBooksBalance'
  <2>1. treasury.funds + usdc[Admin] = InitialUsdc[Admin] + (treasury.fees + treasury.slashes)
    BY <1>1 DEF TreasuryBooksBalance
  <2>2. /\ treasury'.funds = treasury.funds + x /\ usdc'[Admin] = usdc[Admin]
        /\ treasury'.fees + treasury'.slashes = treasury.fees + treasury.slashes + x
    BY <1>3 DEF TakenIn
  <2>3. (treasury.funds + x) + usdc[Admin]
          = InitialUsdc[Admin] + ((treasury.fees + treasury.slashes) + x)
    BY <1>1, <2>1
  <2>4. treasury'.funds + usdc'[Admin]
          = InitialUsdc[Admin] + (treasury'.fees + treasury'.slashes)
    BY <2>2, <2>3
  <2> QED
    BY <1>1, <2>4 DEF TreasuryBooksBalance
<1>4. ASSUME NEW x \in Nat, TakenOut(x)
      PROVE  TreasuryBooksBalance'
  BY <1>1, <1>4 DEF TakenOut, TreasuryBooksBalance
<1> QED
  BY <1>2, <1>3, <1>4 DEF BooksStep

(* A payment between others leaves the administrator's balance alone. *)
LEMMA OthersPaid ==
  ASSUME TypeOK
  PROVE  \A a \in Providers \cup Consumers : \A x : [usdc EXCEPT ![a] = x][Admin] = usdc[Admin]
BY AddressAssumption DEF TypeOK, Addrs

(* Providers stake, top up, withdraw and trade with their own dollars. *)
LEMMA ProviderBooks == TypeOK /\ ProviderStep => BooksStep
<1> SUFFICES ASSUME TypeOK, ProviderStep PROVE BooksUntouched
  BY DEF BooksStep
<1> USE DEF BooksUntouched
<1>1. ASSUME NEW p \in Providers, RegisterProvider(p)
      PROVE  BooksUntouched
  BY <1>1 DEF RegisterProvider, money
<1>2. ASSUME NEW p \in Providers, NEW s \in StakeIds, NEW b \in Bonds, NEW n \in Capacities,
             Stake(p, s, b, n)
      PROVE  BooksUntouched
  BY <1>2, OthersPaid DEF Stake
<1>3. ASSUME NEW s \in StakeIds, stakes[s] # NULL
      PROVE  stakes[s].provider \in Providers
  BY <1>3 DEF TypeOK, Stakes
<1>4. ASSUME NEW s \in StakeIds, NEW t \in TopUps, AddBond(s, t[1], t[2])
      PROVE  BooksUntouched
  BY <1>4, <1>3, OthersPaid DEF AddBond
<1>5. ASSUME NEW s \in StakeIds, NEW b \in Bonds, Unstake(s, b)
      PROVE  BooksUntouched
  BY <1>5, <1>3, OthersPaid DEF Unstake
<1>6. ASSUME NEW s \in StakeIds, NEW q \in Quantities, MintCredits(s, q)
      PROVE  BooksUntouched
  BY <1>6 DEF MintCredits, money
<1>7. ASSUME NEW s \in StakeIds, NEW a \in AskIds, NEW q \in Quantities, NEW u \in UnitPrices,
             PostAsk(s, a, q, u)
      PROVE  BooksUntouched
  BY <1>7 DEF PostAsk, money
<1>8. ASSUME NEW p \in Providers, NEW c \in Consumers, NEW q \in Quantities,
             NEW u \in UnitPrices, DeepBookMatch(p, c, q, u)
      PROVE  BooksUntouched
  <2>1. PICK x, y : usdc' = [[usdc EXCEPT ![c] = x] EXCEPT ![p] = y]
    BY <1>8 DEF DeepBookMatch, Moved
  <2>2. usdc'[Admin] = usdc[Admin]
    BY <2>1, AddressAssumption DEF TypeOK, Addrs
  <2> QED
    BY <1>8, <2>2 DEF DeepBookMatch
<1> QED
  BY <1>1, <1>2, <1>4, <1>5, <1>6, <1>7, <1>8 DEF ProviderStep

(* A job is paid for by its consumer (job.move). *)
LEMMA CreationBooks == TypeOK /\ CreationStep => BooksStep
<1> SUFFICES ASSUME TypeOK, CreationStep PROVE BooksUntouched
  BY DEF BooksStep
<1> USE DEF BooksUntouched
<1>1. ASSUME NEW s \in StakeIds, NEW j \in JobIds, NEW q \in Quantities, NEW u \in UnitPrices,
             CreateJob(s, j, q, q * u)
      PROVE  BooksUntouched
  <2>1. stakes[s].provider \in Providers
    BY <1>1 DEF CreateJob, TypeOK, Stakes
  <2> QED
    BY <1>1, <2>1, OthersPaid DEF CreateJob
<1>2. ASSUME NEW c \in Consumers, NEW a \in AskIds, NEW j \in JobIds, NEW q \in Quantities,
             NEW t \in Tips, CreateJobFromAsk(c, a, j, q, t)
      PROVE  BooksUntouched
  BY <1>2, OthersPaid DEF CreateJobFromAsk
<1>3. ASSUME NEW c \in Consumers, NEW p \in Providers, NEW j \in JobIds, NEW q \in Quantities,
             CreateJobFromFill(c, p, j, q)
      PROVE  BooksUntouched
  BY <1>3 DEF CreateJobFromFill, money
<1> QED
  BY <1>1, <1>2, <1>3 DEF CreationStep

(* Settling banks the fee (settlement.move settle). *)
LEMMA SettleBooks ==
  ASSUME TypeOK, NEW s \in StakeIds, NEW j \in JobIds, Settle(s, j)
  PROVE  BooksStep
<1> DEFINE fee == FeeOn(jobs[j].price)
<1>1. jobs[j].price \in Nat /\ jobs[j].provider \in Providers
  BY DEF Settle, Exists, TypeOK, Jobs
<1>2. fee \in Nat
  BY <1>1, FeeIsNat
<1>3. /\ treasury' = DepositFee(treasury, fee)
      /\ usdc' = [usdc EXCEPT ![jobs[j].provider] = @ + (jobs[j].escrow - fee)]
  BY DEF Settle
<1> HIDE DEF fee
<1>4. usdc'[Admin] = usdc[Admin]
  BY <1>1, <1>3, OthersPaid
<1>5. /\ treasury'.funds = treasury.funds + fee /\ treasury'.fees = treasury.fees + fee
      /\ treasury'.slashes = treasury.slashes
  BY <1>3 DEF DepositFee, TypeOK
<1>6. TakenIn(fee)
  <2>1. treasury.fees \in Nat /\ treasury.slashes \in Nat
    BY DEF TypeOK
  <2> QED
    BY <1>2, <1>4, <1>5, <2>1 DEF TakenIn
<1> QED
  BY <1>2, <1>6 DEF BooksStep

(* A slash banks what the consumer is not compensated with (settlement.move, decision D1). *)
LEMMA SlashBooks ==
  ASSUME TypeOK, NEW s \in StakeIds, NEW j \in JobIds, Exists(j), NEW fault \in Faults,
         NEW reason, RefundAndSlash(s, j, fault, reason)
  PROVE  BooksStep
<1> DEFINE penalty == SlashAmount(cfg.slash, stakes[s], jobs[j].qty, fault)
           comp    == Compensation(penalty, jobs[j].price)
           rest    == penalty - comp
<1>1. stakes[s] \in Stakes(Providers) /\ jobs[j] \in Jobs /\ cfg.slash \in SlashTerms
  BY DEF TypeOK, Exists, RefundAndSlash
<1>2. /\ jobs[j].qty \in Nat /\ jobs[j].price \in Nat /\ stakes[s].bond \in Nat
      /\ jobs[j].consumer \in Providers \cup Consumers
  BY <1>1 DEF Jobs, Stakes
<1>3. penalty \in Nat
  BY <1>1, <1>2, PenaltyWithinBond
<1>4. rest \in Nat
  <2> HIDE DEF penalty
  <2> QED
    BY <1>2, <1>3 DEF Compensation, AtMost
<1>5. /\ treasury' = DepositSlash(treasury, rest)
      /\ usdc' = [usdc EXCEPT ![jobs[j].consumer] = @ + jobs[j].escrow + comp]
  BY DEF RefundAndSlash
<1> HIDE DEF penalty, comp, rest
<1>6. usdc'[Admin] = usdc[Admin]
  BY <1>2, <1>5, OthersPaid
<1>7. /\ treasury'.funds = treasury.funds + rest /\ treasury'.fees = treasury.fees
      /\ treasury'.slashes = treasury.slashes + rest
  BY <1>5 DEF DepositSlash, TypeOK
<1>8. TakenIn(rest)
  <2>1. treasury.fees \in Nat /\ treasury.slashes \in Nat
    BY DEF TypeOK
  <2> QED
    BY <1>4, <1>6, <1>7, <2>1 DEF TakenIn
<1> QED
  BY <1>4, <1>8 DEF BooksStep

(* Every way a job ends keeps the books. *)
LEMMA SettlementBooks == TypeOK /\ SettlementStep => BooksStep
<1> SUFFICES ASSUME TypeOK, NEW s \in StakeIds, NEW j \in JobIds,
                    Resolve(s, j) \/ Cancel(s, j)
             PROVE  BooksStep
  BY DEF SettlementStep
<1>1. CASE Settle(s, j)
  BY <1>1, SettleBooks
<1>2. CASE SettleFill(s, j)
  BY <1>2 DEF SettleFill, money, BooksStep, BooksUntouched
<1>3. CASE ResolveAttested(s, j) \/ ResolveFill(s, j)
  BY <1>3, SlashBooks DEF ResolveAttested, ResolveFill, RefundOnVerdict, Faults
<1>4. CASE ExpireAndResolve(s, j)
  BY <1>4, ExpiryFaultType, SlashBooks DEF ExpireAndResolve
<1>5. CASE Cancel(s, j)
  <2>1. jobs[j].consumer \in Providers \cup Consumers
    BY <1>5 DEF Cancel, Exists, TypeOK, Jobs
  <2>2. BooksUntouched
    BY <1>5, <2>1, OthersPaid DEF Cancel, BooksUntouched
  <2> QED
    BY <2>2 DEF BooksStep
<1> QED
  BY <1>1, <1>2, <1>3, <1>4, <1>5 DEF Resolve

(* Of what governance does, only the withdrawal moves money (config.move). *)
LEMMA GovernanceBooks == TypeOK /\ GovernanceStep => BooksStep
<1> SUFFICES ASSUME TypeOK, GovernanceStep PROVE BooksStep
  OBVIOUS
<1>1. ASSUME NEW amount \in Withdrawals, WithdrawTreasury(amount)
      PROVE  BooksStep
  <2>1. amount \in Nat
    BY AmountsAreNat
  <2>2. usdc'[Admin] = usdc[Admin] + amount
    BY <1>1 DEF WithdrawTreasury, TypeOK, Addrs
  <2>3. /\ treasury'.funds = treasury.funds - amount
        /\ treasury'.fees = treasury.fees /\ treasury'.slashes = treasury.slashes
    BY <1>1 DEF WithdrawTreasury, TypeOK
  <2>4. TakenOut(amount)
    BY <2>1, <2>2, <2>3 DEF TakenOut
  <2> QED
    BY <2>1, <2>4 DEF BooksStep
<1>2. ASSUME NEW switch, NEW new, Configure(switch, new) \/ Remarket(switch, new)
      PROVE  BooksStep
  BY <1>2 DEF Configure, Remarket, money, BooksStep, BooksUntouched
<1>3. ASSUME NEW m \in Models, NEW b \in BOOLEAN, SetModelActive(m, b)
      PROVE  BooksStep
  BY <1>3 DEF SetModelActive, money, BooksStep, BooksUntouched
<1>4. ASSUME NEW m \in Models, NEW r \in Measurements,
             AddMeasurement(m, r) \/ RemoveMeasurement(m, r)
      PROVE  BooksStep
  BY <1>4 DEF AddMeasurement, RemoveMeasurement, money, BooksStep, BooksUntouched
<1> QED
  BY <1>1, <1>2, <1>3, <1>4
     DEF GovernanceStep, SetPause, SetIsLocalnet, SetProtocolFee, SetSlashTerms, SetMinStake,
         SetMarketActive, SetPool, SetSla, SetFeeTier

(* What the treasury took in is still there or went to the administrator, to the last unit: *)
(* every fee and every slash is booked as it is banked (treasury.move, settlement.move).    *)
THEOREM TreasuryBalances == Spec => []TreasuryBooksBalance
<1>1. Init => TreasuryBooksBalance
  BY AddressAssumption DEF Init, TreasuryBooksBalance, Addrs
<1>2. TypeOK /\ TreasuryBooksBalance /\ [Next]_vars => TreasuryBooksBalance'
  <2> SUFFICES ASSUME TypeOK, TreasuryBooksBalance, [Next]_vars
               PROVE  TreasuryBooksBalance'
    OBVIOUS
  <2>1. CASE WorkStep \/ Tick \/ UNCHANGED vars
    <3>1. BooksUntouched
      BY <2>1 DEF WorkStep, Ack, SubmitMockAttestation, SubmitSignedAttestation,
                  RecordAttestation, Tick, vars, money, BooksUntouched
    <3> QED
      BY <3>1 DEF BooksUntouched, TreasuryBooksBalance
  <2>2. CASE ProviderStep \/ CreationStep \/ SettlementStep \/ GovernanceStep
    BY <2>2, TypeInductive, BooksKept, ProviderBooks, CreationBooks, SettlementBooks,
       GovernanceBooks
  <2> QED
    BY <2>1, <2>2 DEF Next
<1> QED
  BY <1>1, <1>2, TypeCorrect, PTL DEF Spec

-----------------------------------------------------------------------------
(* The pause switch *)

(* No credit is minted, no job is created and no stake is opened. *)
NoNewExposure ==
  /\ supply' <= supply
  /\ \A j \in JobIds : jobs'[j] # NULL => Exists(j)
  /\ \A s \in StakeIds : stakes'[s] # NULL => stakes[s] # NULL

(* Replacing an object that is there brings none into being. *)
LEMMA NothingAppears ==
  ASSUME NEW K, NEW table, NEW k \in K, table[k] # NULL, NEW v, DOMAIN table = K
  PROVE  \A i \in K : [table EXCEPT ![k] = v][i] # NULL => table[i] # NULL
OBVIOUS

(* While the exchange is paused a step brings no new exposure, and what ends a job does not *)
(* look at the switch (staking.move, job.move, settlement.move).                            *)
LEMMA PausedStep == TypeOK /\ cfg.paused /\ Next => NoNewExposure
<1> SUFFICES ASSUME TypeOK, cfg.paused, Next PROVE NoNewExposure
  OBVIOUS
<1>1. supply \in Nat /\ DOMAIN jobs = JobIds /\ DOMAIN stakes = StakeIds
  BY DEF TypeOK
<1>2. CASE UNCHANGED <<supply, jobs, stakes>>
  BY <1>1, <1>2 DEF NoNewExposure, Exists
<1>3. CASE ProviderStep
  <2>1. CASE UNCHANGED <<supply, jobs, stakes>>
    BY <1>2, <2>1
  <2>2. ASSUME NEW s \in StakeIds, NEW t \in TopUps, AddBond(s, t[1], t[2])
        PROVE  NoNewExposure
    <3>1. \A i \in StakeIds : stakes'[i] # NULL => stakes[i] # NULL
      BY <1>1, <2>2, NothingAppears DEF AddBond
    <3> QED
      BY <1>1, <2>2, <3>1 DEF AddBond, NoNewExposure, Exists
  <2>3. ASSUME NEW s \in StakeIds, NEW b \in Bonds, Unstake(s, b)
        PROVE  NoNewExposure
    <3>1. \A i \in StakeIds : stakes'[i] # NULL => stakes[i] # NULL
      BY <1>1, <2>3, NothingAppears DEF Unstake
    <3> QED
      BY <1>1, <2>3, <3>1 DEF Unstake, NoNewExposure, Exists
  <2>4. ASSUME NEW p \in Providers, RegisterProvider(p)
        PROVE  UNCHANGED <<supply, jobs, stakes>>
    BY <2>4 DEF RegisterProvider
  <2>5. ASSUME NEW p \in Providers, NEW c \in Consumers, NEW q \in Quantities,
               NEW u \in UnitPrices, DeepBookMatch(p, c, q, u)
        PROVE  UNCHANGED <<supply, jobs, stakes>>
    BY <2>5 DEF DeepBookMatch
  <2> QED
    BY <1>3, <2>1, <2>2, <2>3, <2>4, <2>5
       DEF ProviderStep, Stake, MintCredits, PostAsk, MayMint
<1>4. CASE CreationStep
  BY <1>4 DEF CreationStep, CreateJob, CreateJobFromAsk, CreateJobFromFill, MayCreate
<1>5. CASE WorkStep
  <2>1. PICK j \in JobIds : /\ Exists(j) /\ UNCHANGED <<supply, stakes>>
                            /\ \E v : jobs' = [jobs EXCEPT ![j] = v]
    BY <1>5 DEF WorkStep, Ack, SubmitMockAttestation, SubmitSignedAttestation,
                RecordAttestation
  <2>2. \A i \in JobIds : jobs'[i] # NULL => jobs[i] # NULL
    BY <1>1, <2>1, NothingAppears DEF Exists
  <2> QED
    BY <1>1, <2>1, <2>2 DEF NoNewExposure, Exists
<1>6. CASE SettlementStep
  <2>1. PICK s \in StakeIds, j \in JobIds : Resolve(s, j) \/ Cancel(s, j)
    BY <1>6 DEF SettlementStep
  <2>2. /\ Exists(j) /\ stakes[s] # NULL
        /\ \E v : jobs' = [jobs EXCEPT ![j] = v]
        /\ \E w : stakes' = [stakes EXCEPT ![s] = w]
        /\ supply' = supply \/ supply' = supply - jobs[j].credits
    BY <2>1 DEF Resolve, Cancel, Settle, SettleFill, ResolveAttested, ResolveFill,
                ExpireAndResolve, RefundOnVerdict, RefundAndSlash, Retire
  <2>3. jobs[j].credits \in Nat
    BY <2>2 DEF TypeOK, Exists, Jobs
  <2>4. supply' <= supply
    BY <1>1, <2>2, <2>3
  <2>5. \A i \in JobIds : jobs'[i] # NULL => jobs[i] # NULL
    BY <1>1, <2>2, NothingAppears DEF Exists
  <2>6. \A i \in StakeIds : stakes'[i] # NULL => stakes[i] # NULL
    BY <1>1, <2>2, NothingAppears
  <2> QED
    BY <2>4, <2>5, <2>6 DEF NoNewExposure, Exists
<1>7. CASE GovernanceStep
  <2>1. UNCHANGED <<supply, jobs, stakes>>
    BY <1>7 DEF GovernanceStep, SetPause, SetIsLocalnet, SetProtocolFee, SetSlashTerms,
                SetMinStake, SetMarketActive, SetPool, SetSla, SetFeeTier, Configure, Remarket,
                SetModelActive, AddMeasurement, RemoveMeasurement, WithdrawTreasury
  <2> QED
    BY <1>2, <2>1
<1>8. CASE Tick
  BY <1>2, <1>8 DEF Tick
<1> QED
  BY <1>3, <1>4, <1>5, <1>6, <1>7, <1>8 DEF Next

(* Pausing stops new exposure, whatever jobs and stakes there are and whoever tries          *)
(* (sui-move-contracts.md: pause blocks the job path).                                      *)
THEOREM PauseHolds == Spec => PauseStopsNewExposure
<1>1. TypeOK /\ [Next]_vars =>
        [cfg.paused =>
           /\ supply' <= supply
           /\ \A j \in JobIds : jobs'[j] # NULL => Exists(j)
           /\ \A s \in StakeIds : stakes'[s] # NULL => stakes[s] # NULL]_vars
  BY PausedStep DEF NoNewExposure
<1> QED
  BY <1>1, TypeCorrect, PTL DEF Spec, PauseStopsNewExposure

=============================================================================
