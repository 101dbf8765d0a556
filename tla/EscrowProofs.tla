---------------------------- MODULE EscrowProofs ----------------------------
(***************************************************************************)
(* What happens to a job's escrow, credits and verdict over its life, for   *)
(* any number of jobs, stakes and participants.  JobStep lists everything a *)
(* step of the exchange can do to one job and JobStepLemma shows that       *)
(* nothing else happens to it.  The inductive invariant EscrowInv, the      *)
(* action properties and the refinement of EscrowPromise then follow from   *)
(* JobStep alone, without going through the thirty actions again.           *)
(***************************************************************************)
EXTENDS ExchangeProofs

-----------------------------------------------------------------------------
(* The life of one job *)

SameReceipt(j) == receipts'[j] = receipts[j]

JobUntouched(j) == jobs'[j] = jobs[j] /\ SameReceipt(j)

\* A job is for at least one SCU; a fill job has no escrow, any other its price.
JobCreated(j) ==
  \E k \in JobKinds, c \in Providers \cup Consumers, p \in Providers,
     q \in Nat, price \in Nat, e \in Nat :
    /\ jobs[j] = NULL
    /\ q > 0
    /\ e = IF k = "fill" THEN 0 ELSE price
    /\ jobs'[j] = NewJob(k, c, p, q, price, e)
    /\ SameReceipt(j)

JobAcked(j) ==
  /\ Exists(j) /\ jobs[j].state = "Dispatched"
  /\ jobs'[j] = Acked(jobs[j])
  /\ SameReceipt(j)

JobJudged(j) ==
  \E v \in {"valid", "sla", "invalid"} :
    /\ Exists(j) /\ jobs[j].state = "Executing"
    /\ jobs'[j] = Judged(jobs[j], v)
    /\ SameReceipt(j)

JobSettled(j) ==
  /\ Exists(j) /\ jobs[j].state = "Verified"
  /\ jobs'[j] = Closed(jobs[j], "Settled")
  /\ IF jobs[j].kind = "fill"
     THEN receipts'[j] = SettledReceipt(0, 0)
     ELSE \E payout \in Nat, fee \in Nat :
            payout + fee = jobs[j].escrow /\ receipts'[j] = SettledReceipt(payout, fee)

\* The four ways a job is refunded against a slash, each with its reason.
Blamed(j, reason) ==
  \/ jobs[j].state = "Attested" /\ jobs[j].verdict = "sla" /\ reason = "SlaBreach"
  \/ /\ jobs[j].state = "Attested" /\ jobs[j].verdict \notin {"none", "sla"}
     /\ reason = "InvalidAttestation"
  \/ /\ jobs[j].state \in {"Dispatched", "Executing"}
     /\ ExpiryFault(j) # <<>> /\ reason = ExpiryFault(j)[2]

JobSlashed(j) ==
  \E reason \in Reasons, penalty \in Nat :
    /\ Exists(j) /\ Blamed(j, reason)
    /\ jobs'[j] = ClosedBySlash(jobs[j])
    /\ receipts'[j] =
         RefundReceipt(jobs[j].escrow, penalty, Compensation(penalty, jobs[j].price), reason)

JobCancelled(j) ==
  /\ Exists(j) /\ jobs[j].state = "Dispatched"
  /\ jobs'[j] = Closed(jobs[j], "Refunded")
  /\ receipts'[j] = RefundReceipt(jobs[j].escrow, 0, 0, "Cancelled")

JobStep(j) ==
  \/ JobUntouched(j)
  \/ JobCreated(j)
  \/ JobAcked(j)
  \/ JobJudged(j)
  \/ JobSettled(j)
  \/ JobSlashed(j)
  \/ JobCancelled(j)

-----------------------------------------------------------------------------
(* Nothing else happens to a job *)

(* A step that leaves both tables alone touches no job. *)
LEMMA TablesUntouched ==
  ASSUME UNCHANGED <<jobs, receipts>>
  PROVE  \A j \in JobIds : JobStep(j)
BY DEF JobStep, JobUntouched, SameReceipt

(* Creating a job fills one empty slot and leaves every other job alone (job.move). *)
LEMMA CreationIsJobStep ==
  ASSUME TypeOK, CreationStep
  PROVE  \A i \in JobIds : JobStep(i)
<1>1. ASSUME NEW s \in StakeIds, NEW j \in JobIds, NEW q \in Quantities, NEW u \in UnitPrices,
             CreateJob(s, j, q, q * u), NEW i \in JobIds
      PROVE  JobStep(i)
  <2>1. q \in Nat /\ q * u \in Nat
    BY AmountsAreNat, ProductIsNat
  <2>2. stakes[s].provider \in Providers
    BY <1>1 DEF CreateJob, TypeOK, Stakes
  <2>3. jobs[j] = NULL /\ q > 0 /\ UNCHANGED receipts
    BY <1>1 DEF CreateJob, MayCreate
  <2>4. jobs' = [jobs EXCEPT ![j] = NewJob("owned", stakes[s].provider, stakes[s].provider,
                                           q, q * u, q * u)]
    BY <1>1 DEF CreateJob
  <2>5. jobs \in [JobIds -> Jobs \cup {NULL}]
    BY DEF TypeOK
  <2>6. CASE i # j
    BY <2>3, <2>4, <2>5, <2>6 DEF JobStep, JobUntouched, SameReceipt
  <2>7. CASE i = j
    <3>1. jobs'[i] = NewJob("owned", stakes[s].provider, stakes[s].provider, q, q * u, q * u)
      BY <2>4, <2>5, <2>7
    <3>2. JobCreated(i)
      BY <2>1, <2>2, <2>3, <2>7, <3>1 DEF JobCreated, SameReceipt, JobKinds
    <3> QED
      BY <3>2 DEF JobStep
  <2> QED
    BY <2>6, <2>7
<1>2. ASSUME NEW c \in Consumers, NEW a \in AskIds, NEW j \in JobIds, NEW q \in Quantities,
             NEW t \in Tips, CreateJobFromAsk(c, a, j, q, t), NEW i \in JobIds
      PROVE  JobStep(i)
  <2> DEFINE price == q * asks[a].price + t
             p == asks[a].provider
  <2>1. q \in Nat /\ price \in Nat /\ p \in Providers
    <3>1. q \in Nat /\ t \in Nat
      BY AmountsAreNat
    <3>2. asks[a].price \in Nat /\ p \in Providers
      BY <1>2 DEF CreateJobFromAsk, TypeOK, Asks
    <3>3. q * asks[a].price \in Nat
      BY <3>1, <3>2, ProductIsNat
    <3> QED
      BY <3>1, <3>2, <3>3
  <2>2. jobs[j] = NULL /\ q > 0 /\ UNCHANGED receipts
    BY <1>2 DEF CreateJobFromAsk, MayCreate
  <2>3. jobs' = [jobs EXCEPT ![j] = NewJob("ask", c, p, q, price, price)]
    BY <1>2 DEF CreateJobFromAsk
  <2>4. jobs \in [JobIds -> Jobs \cup {NULL}]
    BY DEF TypeOK
  <2> HIDE DEF price, p
  <2>5. CASE i # j
    BY <2>2, <2>3, <2>4, <2>5 DEF JobStep, JobUntouched, SameReceipt
  <2>6. CASE i = j
    <3>1. jobs'[i] = NewJob("ask", c, p, q, price, price)
      BY <2>3, <2>4, <2>6
    <3>2. JobCreated(i)
      BY <2>1, <2>2, <2>6, <3>1 DEF JobCreated, SameReceipt, JobKinds
    <3> QED
      BY <3>2 DEF JobStep
  <2> QED
    BY <2>5, <2>6
<1>3. ASSUME NEW c \in Consumers, NEW p \in Providers, NEW j \in JobIds, NEW q \in Quantities,
             CreateJobFromFill(c, p, j, q), NEW i \in JobIds
      PROVE  JobStep(i)
  <2>1. q \in Nat /\ q > 0 /\ jobs[j] = NULL /\ UNCHANGED receipts
    BY <1>3, AmountsAreNat DEF CreateJobFromFill, MayCreate, money
  <2>2. jobs' = [jobs EXCEPT ![j] = NewJob("fill", c, p, q, q, 0)]
    BY <1>3 DEF CreateJobFromFill
  <2>3. jobs \in [JobIds -> Jobs \cup {NULL}]
    BY DEF TypeOK
  <2>4. CASE i # j
    BY <2>1, <2>2, <2>3, <2>4 DEF JobStep, JobUntouched, SameReceipt
  <2>5. CASE i = j
    <3>1. jobs'[i] = NewJob("fill", c, p, q, q, 0)
      BY <2>2, <2>3, <2>5
    <3>2. JobCreated(i)
      BY <2>1, <2>5, <3>1 DEF JobCreated, SameReceipt, JobKinds
    <3> QED
      BY <3>2 DEF JobStep
  <2> QED
    BY <2>4, <2>5
<1> QED
  BY <1>1, <1>2, <1>3 DEF CreationStep

(* Acknowledging and attesting are the two steps of one job's work (job.move). *)
LEMMA WorkIsJobStep ==
  ASSUME TypeOK, WorkStep
  PROVE  \A i \in JobIds : JobStep(i)
<1>0. jobs \in [JobIds -> Jobs \cup {NULL}]
  BY DEF TypeOK
<1>1. ASSUME NEW j \in JobIds, Ack(j), NEW i \in JobIds
      PROVE  JobStep(i)
  <2>1. CASE i # j
    BY <1>0, <1>1, <2>1 DEF Ack, JobStep, JobUntouched, SameReceipt
  <2>2. CASE i = j
    <3>1. JobAcked(i)
      BY <1>0, <1>1, <2>2 DEF Ack, JobAcked, SameReceipt
    <3> QED
      BY <3>1 DEF JobStep
  <2> QED
    BY <2>1, <2>2
<1>2. ASSUME NEW j \in JobIds, NEW v \in {"valid", "sla", "invalid"},
             RecordAttestation(j, v), NEW i \in JobIds
      PROVE  JobStep(i)
  <2>1. CASE i # j
    BY <1>0, <1>2, <2>1 DEF RecordAttestation, JobStep, JobUntouched, SameReceipt
  <2>2. CASE i = j
    <3>1. JobJudged(i)
      BY <1>0, <1>2, <2>2 DEF RecordAttestation, JobJudged, SameReceipt
    <3> QED
      BY <3>1 DEF JobStep
  <2> QED
    BY <2>1, <2>2
<1> QED
  BY <1>1, <1>2, VerdictType DEF WorkStep, SubmitMockAttestation, SubmitSignedAttestation

(* Settling pays out the escrow in two parts, the payout and the fee. *)
LEMMA SettleIsJobStep ==
  ASSUME TypeOK, NEW s \in StakeIds, NEW j \in JobIds, Settle(s, j) \/ SettleFill(s, j),
         NEW i \in JobIds
  PROVE  JobStep(i)
<1>0. /\ jobs \in [JobIds -> Jobs \cup {NULL}]
      /\ receipts \in [JobIds -> Receipts]
      /\ jobs' = [jobs EXCEPT ![j] = Closed(jobs[j], "Settled")]
      /\ Exists(j) /\ jobs[j].state = "Verified"
  BY DEF TypeOK, Settle, SettleFill
<1>1. CASE Settle(s, j)
  <2> DEFINE fee == FeeOn(jobs[j].price)
             payout == jobs[j].escrow - fee
  <2>1. jobs[j].price \in Nat /\ jobs[j].escrow \in Nat
    BY <1>0 DEF Exists, Jobs
  <2>2. fee \in Nat
    BY <2>1, FeeIsNat
  <2>3. /\ jobs[j].kind # "fill"
        /\ jobs[j].escrow >= fee
        /\ receipts' = [receipts EXCEPT ![j] = SettledReceipt(payout, fee)]
    BY <1>1 DEF Settle
  <2> HIDE DEF fee
  <2>4. payout \in Nat /\ payout + fee = jobs[j].escrow
    BY <2>1, <2>2, <2>3
  <2> HIDE DEF payout
  <2>5. CASE i # j
    BY <1>0, <2>3, <2>5 DEF JobStep, JobUntouched, SameReceipt
  <2>6. CASE i = j
    <3>1. jobs'[i] = Closed(jobs[i], "Settled") /\ receipts'[i] = SettledReceipt(payout, fee)
      BY <1>0, <2>3, <2>6
    <3>2. JobSettled(i)
      BY <1>0, <2>2, <2>3, <2>4, <2>6, <3>1 DEF JobSettled
    <3> QED
      BY <3>2 DEF JobStep
  <2> QED
    BY <2>5, <2>6
<1>2. CASE SettleFill(s, j)
  <2>1. /\ receipts' = [receipts EXCEPT ![j] = SettledReceipt(0, 0)]
        /\ jobs[j].kind = "fill"
    BY <1>2 DEF SettleFill
  <2>2. CASE i # j
    BY <1>0, <2>1, <2>2 DEF JobStep, JobUntouched, SameReceipt
  <2>3. CASE i = j
    <3>1. JobSettled(i)
      BY <1>0, <2>1, <2>3 DEF JobSettled
    <3> QED
      BY <3>1 DEF JobStep
  <2> QED
    BY <2>2, <2>3
<1> QED
  BY <1>1, <1>2

(* A refund against a slash is one only for a job to blame, with the reason blamed. *)
LEMMA SlashIsJobStep ==
  ASSUME TypeOK, NEW s \in StakeIds, NEW j \in JobIds, NEW fault \in Faults,
         NEW reason \in Reasons, Exists(j), Blamed(j, reason),
         RefundAndSlash(s, j, fault, reason), NEW i \in JobIds
  PROVE  JobStep(i)
<1> DEFINE penalty == SlashAmount(cfg.slash, stakes[s], jobs[j].qty, fault)
           comp    == Compensation(penalty, jobs[j].price)
<1>1. /\ jobs \in [JobIds -> Jobs \cup {NULL}]
      /\ receipts \in [JobIds -> Receipts]
      /\ jobs' = [jobs EXCEPT ![j] = ClosedBySlash(jobs[j])]
      /\ receipts' = [receipts EXCEPT ![j] =
                        RefundReceipt(jobs[j].escrow, penalty, comp, reason)]
  BY DEF TypeOK, RefundAndSlash
<1>2. penalty \in Nat
  <2>1. stakes[s] \in Stakes(Providers) /\ jobs[j] \in Jobs /\ cfg.slash \in SlashTerms
    BY DEF TypeOK, Exists, RefundAndSlash
  <2>2. stakes[s].bond \in Nat /\ jobs[j].qty \in Nat
    BY <2>1 DEF Stakes, Jobs
  <2> QED
    BY <2>1, <2>2, PenaltyWithinBond
<1> HIDE DEF penalty
<1>3. CASE i # j
  BY <1>1, <1>3 DEF JobStep, JobUntouched, SameReceipt
<1>4. CASE i = j
  <2>1. /\ jobs'[i] = ClosedBySlash(jobs[i])
        /\ receipts'[i] = RefundReceipt(jobs[i].escrow, penalty, comp, reason)
    BY <1>1, <1>4
  <2>2. JobSlashed(i)
    BY <1>2, <1>4, <2>1 DEF JobSlashed
  <2> QED
    BY <2>2 DEF JobStep
<1> QED
  BY <1>3, <1>4

(* Every call of settlement.move ends one job in one of the ways of JobStep. *)
LEMMA SettlementIsJobStep ==
  ASSUME TypeOK, SettlementStep
  PROVE  \A i \in JobIds : JobStep(i)
<1> SUFFICES ASSUME NEW s \in StakeIds, NEW j \in JobIds, Resolve(s, j) \/ Cancel(s, j),
                    NEW i \in JobIds
             PROVE  JobStep(i)
  BY DEF SettlementStep
<1>1. ASSUME Exists(j), RefundOnVerdict(s, j)
      PROVE  JobStep(i)
  <2>1. CASE jobs[j].verdict = "sla"
    <3>1. Blamed(j, "SlaBreach") /\ "SlaBreach" \in Reasons /\ "sla" \in Faults
      BY <1>1, <2>1 DEF RefundOnVerdict, Blamed, Reasons, Faults
    <3> QED
      BY <1>1, <2>1, <3>1, SlashIsJobStep DEF RefundOnVerdict
  <2>2. CASE jobs[j].verdict # "sla"
    <3>1. /\ Blamed(j, "InvalidAttestation")
          /\ "InvalidAttestation" \in Reasons /\ "invalid" \in Faults
      BY <1>1, <2>2 DEF RefundOnVerdict, Blamed, Reasons, Faults
    <3> QED
      BY <1>1, <2>2, <3>1, SlashIsJobStep DEF RefundOnVerdict
  <2> QED
    BY <2>1, <2>2
<1>2. ASSUME ExpireAndResolve(s, j)
      PROVE  JobStep(i)
  <2>1. ExpiryFault(j)[1] \in Faults /\ ExpiryFault(j)[2] \in Reasons
    BY <1>2, ExpiryFaultType DEF ExpireAndResolve
  <2>2. Exists(j) /\ Blamed(j, ExpiryFault(j)[2])
    BY <1>2 DEF ExpireAndResolve, Blamed
  <2> QED
    BY <1>2, <2>1, <2>2, SlashIsJobStep DEF ExpireAndResolve
<1>3. ASSUME Cancel(s, j)
      PROVE  JobStep(i)
  <2>1. /\ jobs \in [JobIds -> Jobs \cup {NULL}]
        /\ receipts \in [JobIds -> Receipts]
        /\ Exists(j) /\ jobs[j].state = "Dispatched"
        /\ jobs' = [jobs EXCEPT ![j] = Closed(jobs[j], "Refunded")]
        /\ receipts' = [receipts EXCEPT ![j] =
                          RefundReceipt(jobs[j].escrow, 0, 0, "Cancelled")]
    BY <1>3 DEF Cancel, TypeOK
  <2>2. CASE i # j
    BY <2>1, <2>2 DEF JobStep, JobUntouched, SameReceipt
  <2>3. CASE i = j
    <3>1. JobCancelled(i)
      BY <2>1, <2>3 DEF JobCancelled
    <3> QED
      BY <3>1 DEF JobStep
  <2> QED
    BY <2>2, <2>3
<1> QED
  BY <1>1, <1>2, <1>3, SettleIsJobStep DEF Resolve, ResolveAttested, ResolveFill

(* Nothing else happens to a job, and the clock never runs backwards. *)
LEMMA JobStepLemma ==
  ASSUME TypeOK, [Next]_vars
  PROVE  (\A j \in JobIds : JobStep(j)) /\ clock' >= clock
<1>1. CASE ProviderStep
  BY <1>1, TablesUntouched
     DEF ProviderStep, RegisterProvider, Stake, AddBond, Unstake, MintCredits, PostAsk,
         DeepBookMatch, TypeOK
<1>2. CASE GovernanceStep
  BY <1>2, TablesUntouched
     DEF GovernanceStep, SetPause, SetIsLocalnet, SetProtocolFee, SetSlashTerms, SetMinStake,
         SetMarketActive, SetPool, SetSla, SetFeeTier, SetModelActive, AddMeasurement,
         RemoveMeasurement, WithdrawTreasury, Configure, Remarket, TypeOK
<1>3. CASE Tick
  BY <1>3, TablesUntouched DEF Tick, TypeOK
<1>4. CASE UNCHANGED vars
  BY <1>4, TablesUntouched DEF vars, TypeOK
<1>5. CASE CreationStep
  <2>1. clock' = clock
    BY <1>5 DEF CreationStep, CreateJob, CreateJobFromAsk, CreateJobFromFill
  <2> QED
    BY <1>5, <2>1, CreationIsJobStep DEF TypeOK
<1>6. CASE WorkStep
  <2>1. clock' = clock
    BY <1>6 DEF WorkStep, Ack, SubmitMockAttestation, SubmitSignedAttestation,
                RecordAttestation
  <2> QED
    BY <1>6, <2>1, WorkIsJobStep DEF TypeOK
<1>7. CASE SettlementStep
  <2>1. clock' = clock
    <3>1. PICK s \in StakeIds, j \in JobIds : Resolve(s, j) \/ Cancel(s, j)
      BY <1>7 DEF SettlementStep
    <3>2. ASSUME NEW fault, NEW reason, RefundAndSlash(s, j, fault, reason)
          PROVE  clock' = clock
      BY <3>2 DEF RefundAndSlash
    <3>3. ASSUME RefundOnVerdict(s, j) \/ ExpireAndResolve(s, j)
          PROVE  clock' = clock
      BY <3>2, <3>3 DEF RefundOnVerdict, ExpireAndResolve
    <3>4. ASSUME Settle(s, j) \/ SettleFill(s, j) \/ Cancel(s, j)
          PROVE  clock' = clock
      BY <3>4 DEF Settle, SettleFill, Cancel
    <3> QED
      BY <3>1, <3>3, <3>4 DEF Resolve, ResolveAttested, ResolveFill
  <2> QED
    BY <1>7, <2>1, SettlementIsJobStep DEF TypeOK
<1> QED
  BY <1>1, <1>2, <1>3, <1>4, <1>5, <1>6, <1>7 DEF Next

-----------------------------------------------------------------------------
(* The fields of a job after each of its steps *)

(* The terms of a job: what none of its steps may touch (job.move). *)
SameTerms(new, old) ==
  /\ new.kind = old.kind /\ new.consumer = old.consumer /\ new.provider = old.provider
  /\ new.qty = old.qty /\ new.price = old.price
  /\ new.ackBy = old.ackBy /\ new.execBy = old.execBy /\ new.attestBy = old.attestBy

(* Acknowledging changes the state and the flag of a job, and nothing else (job.move ack). *)
LEMMA AckedFields ==
  ASSUME NEW job \in Jobs
  PROVE  /\ SameTerms(Acked(job), job)
         /\ Acked(job).state = "Executing" /\ Acked(job).acked
         /\ Acked(job).escrow = job.escrow /\ Acked(job).credits = job.credits
         /\ Acked(job).verdict = job.verdict /\ Acked(job).slashed = job.slashed
         /\ Acked(job) # NULL
<1>1. Acked(job) # NULL
  BY JobOperatorsType, NullAssumption DEF Verdicts, JobStates, LiveStates
<1> QED
  BY <1>1 DEF Acked, Jobs, SameTerms

(* Attesting changes the verdict and the state of a job, and nothing else (job.move). *)
LEMMA JudgedFields ==
  ASSUME NEW job \in Jobs, NEW v \in {"valid", "sla", "invalid"}
  PROVE  /\ SameTerms(Judged(job, v), job)
         /\ Judged(job, v).state = IF v = "valid" THEN "Verified" ELSE "Attested"
         /\ Judged(job, v).verdict = v /\ Judged(job, v).acked = job.acked
         /\ Judged(job, v).escrow = job.escrow /\ Judged(job, v).credits = job.credits
         /\ Judged(job, v).slashed = job.slashed
         /\ Judged(job, v) # NULL
<1>1. Judged(job, v) # NULL
  BY JobOperatorsType, NullAssumption DEF Verdicts, JobStates, LiveStates
<1> QED
  BY <1>1 DEF Judged, AttestedState, Jobs, SameTerms

(* Closing empties the escrow and the credits of a job and keeps its terms (job.move). *)
LEMMA ClosedFields ==
  ASSUME NEW job \in Jobs, NEW o \in TerminalStates
  PROVE  /\ SameTerms(Closed(job, o), job)
         /\ Closed(job, o).state = o
         /\ Closed(job, o).escrow = 0 /\ Closed(job, o).credits = 0
         /\ Closed(job, o).verdict = job.verdict /\ Closed(job, o).acked = job.acked
         /\ Closed(job, o).slashed = job.slashed
         /\ Closed(job, o) # NULL
<1>1. Closed(job, o) # NULL
  BY JobOperatorsType, NullAssumption DEF Verdicts, JobStates
<1> QED
  BY <1>1 DEF Closed, Jobs, SameTerms

(* Closing against a slash refunds the job and marks it slashed (settlement.move). *)
LEMMA ClosedBySlashFields ==
  ASSUME NEW job \in Jobs
  PROVE  /\ SameTerms(ClosedBySlash(job), job)
         /\ ClosedBySlash(job).state = "Refunded"
         /\ ClosedBySlash(job).escrow = 0 /\ ClosedBySlash(job).credits = 0
         /\ ClosedBySlash(job).verdict = job.verdict /\ ClosedBySlash(job).acked = job.acked
         /\ ClosedBySlash(job).slashed
         /\ ClosedBySlash(job) # NULL
<1> DEFINE closed == Closed(job, "Refunded")
<1>1. ClosedBySlash(job) # NULL
  BY JobOperatorsType, NullAssumption DEF Verdicts, JobStates, LiveStates
<1>2. /\ closed \in Jobs
      /\ SameTerms(closed, job)
      /\ closed.state = "Refunded" /\ closed.escrow = 0 /\ closed.credits = 0
      /\ closed.verdict = job.verdict /\ closed.acked = job.acked
  BY JobOperatorsType, ClosedFields DEF JobStates, TerminalStates, Verdicts
<1>3. ClosedBySlash(job) = [closed EXCEPT !.slashed = TRUE]
  BY DEF ClosedBySlash
<1> HIDE DEF closed
<1>4. /\ SameTerms(ClosedBySlash(job), closed)
      /\ ClosedBySlash(job).state = closed.state
      /\ ClosedBySlash(job).escrow = closed.escrow
      /\ ClosedBySlash(job).credits = closed.credits
      /\ ClosedBySlash(job).verdict = closed.verdict
      /\ ClosedBySlash(job).acked = closed.acked
      /\ ClosedBySlash(job).slashed
  BY <1>2, <1>3 DEF Jobs, SameTerms
<1> QED
  BY <1>1, <1>2, <1>4 DEF SameTerms

(* A new job holds its escrow and its credits and has no verdict (build_and_share). *)
LEMMA NewJobFields ==
  ASSUME TypeOK, NEW k \in JobKinds, NEW c \in Providers \cup Consumers, NEW p \in Providers,
         NEW q \in Nat, NEW price \in Nat, NEW e \in Nat
  PROVE  LET job == NewJob(k, c, p, q, price, e) IN
           /\ job.kind = k /\ job.qty = q /\ job.price = price
           /\ job.escrow = e /\ job.credits = q
           /\ job.state = "Dispatched" /\ ~job.acked /\ job.verdict = "none" /\ ~job.slashed
           /\ job # NULL
<1>1. NewJob(k, c, p, q, price, e) # NULL
  BY NewJobType, NullAssumption
<1> QED
  BY <1>1 DEF NewJob

-----------------------------------------------------------------------------
(* The inductive invariant *)

\* None of the conjuncts is inductive alone: what a terminal job handed out follows from
\* what it held while live and from its receipt having been empty until then.
JobSafe(j) == JobCustody(j) /\ JobOutcome(j) /\ JobQuiet(j) /\ JobDisbursed(j) /\ JobBlame(j)

EscrowInv == TypeOK /\ \A j \in JobIds : JobSafe(j)

(* The deployed exchange has no jobs, so all of them are safe. *)
LEMMA InitEscrow == Init => EscrowInv
BY InitType DEF Init, EscrowInv, JobSafe, JobCustody, JobOutcome, JobQuiet, JobDisbursed,
                JobBlame, Live, Terminal, Exists

(* A job that is not terminal after a step, and whose receipt is empty, has nothing to show. *)
LEMMA LiveJobIsSafe ==
  ASSUME NEW j \in JobIds, Live(j), JobCustody(j), JobOutcome(j), JobQuiet(j)
  PROVE  JobSafe(j)
<1>1. ~Terminal(j) /\ Exists(j)
  BY DEF Live, Terminal, LiveStates, TerminalStates
<1>2. receipts[j].reason = "none" /\ receipts[j].penalty = 0
  BY <1>1 DEF JobQuiet, NoReceipt, SettledReceipt
<1> QED
  BY <1>1, <1>2 DEF JobSafe, JobDisbursed, JobBlame, JobQuiet

(* Whatever a step does to a job, the job stays safe. *)
LEMMA JobStepKeepsSafe ==
  ASSUME TypeOK, TypeOK', NEW j \in JobIds, JobSafe(j), JobStep(j), clock' >= clock
  PROVE  JobSafe(j)'
<1> USE DEF Live, Terminal, Exists, LiveStates, TerminalStates
<1>0. ASSUME Exists(j)
      PROVE  jobs[j] \in Jobs /\ jobs[j].price \in Nat /\ jobs[j].escrow \in Nat
             /\ jobs[j].state \in LiveStates \cup TerminalStates
  BY <1>0 DEF TypeOK, Jobs, JobStates
<1>1. CASE JobUntouched(j)
  <2>1. clock \in Nat /\ clock' \in Nat
    BY DEF TypeOK
  <2>2. Exists(j) => jobs[j].ackBy \in Nat /\ jobs[j].execBy \in Nat /\ jobs[j].attestBy \in Nat
    BY <1>0 DEF Jobs
  <2> QED
    BY <1>1, <2>1, <2>2
       DEF JobUntouched, SameReceipt, JobSafe, JobCustody, JobOutcome, JobQuiet, JobDisbursed,
           JobBlame
<1>2. CASE JobCreated(j)
  <2>1. PICK k \in JobKinds, c \in Providers \cup Consumers, p \in Providers,
             q \in Nat, price \in Nat, e \in Nat :
          /\ jobs[j] = NULL
          /\ e = IF k = "fill" THEN 0 ELSE price
          /\ jobs'[j] = NewJob(k, c, p, q, price, e)
          /\ SameReceipt(j)
    BY <1>2 DEF JobCreated
  <2>2. /\ jobs'[j].kind = k /\ jobs'[j].qty = q /\ jobs'[j].price = price
        /\ jobs'[j].escrow = e /\ jobs'[j].credits = q
        /\ jobs'[j].state = "Dispatched" /\ ~jobs'[j].acked /\ jobs'[j].verdict = "none"
        /\ ~jobs'[j].slashed /\ jobs'[j] # NULL
    BY <2>1, NewJobFields
  <2>3. receipts'[j] = NoReceipt
    BY <2>1 DEF SameReceipt, JobSafe, JobQuiet
  <2>4. Live(j)' /\ JobCustody(j)' /\ JobOutcome(j)' /\ JobQuiet(j)'
    BY <2>1, <2>2, <2>3 DEF JobCustody, JobOutcome, JobQuiet
  <2> QED
    BY <2>4, LiveJobIsSafe, PTL
<1>3. CASE JobAcked(j)
  <2>1. /\ jobs[j] \in Jobs /\ jobs[j].state = "Dispatched" /\ jobs[j] # NULL
        /\ jobs'[j] = Acked(jobs[j]) /\ receipts'[j] = NoReceipt
    BY <1>0, <1>3 DEF JobAcked, SameReceipt, JobSafe, JobQuiet
  <2>2. /\ jobs'[j].kind = jobs[j].kind /\ jobs'[j].qty = jobs[j].qty
        /\ jobs'[j].price = jobs[j].price /\ jobs'[j].escrow = jobs[j].escrow
        /\ jobs'[j].credits = jobs[j].credits /\ jobs'[j].state = "Executing"
        /\ jobs'[j].acked /\ jobs'[j].verdict = jobs[j].verdict
        /\ jobs'[j].slashed = jobs[j].slashed /\ jobs'[j] # NULL
    BY <2>1, AckedFields DEF SameTerms
  <2>3. Live(j)' /\ JobCustody(j)' /\ JobOutcome(j)' /\ JobQuiet(j)'
    BY <2>1, <2>2 DEF JobSafe, JobCustody, JobOutcome, JobQuiet
  <2> QED
    BY <2>3, LiveJobIsSafe, PTL
<1>4. CASE JobJudged(j)
  <2>1. PICK v \in {"valid", "sla", "invalid"} :
          /\ jobs[j] \in Jobs /\ jobs[j].state = "Executing" /\ jobs[j] # NULL
          /\ jobs'[j] = Judged(jobs[j], v) /\ receipts'[j] = NoReceipt
    BY <1>0, <1>4 DEF JobJudged, SameReceipt, JobSafe, JobQuiet
  <2>2. /\ jobs'[j].kind = jobs[j].kind /\ jobs'[j].qty = jobs[j].qty
        /\ jobs'[j].price = jobs[j].price /\ jobs'[j].escrow = jobs[j].escrow
        /\ jobs'[j].credits = jobs[j].credits
        /\ jobs'[j].state = IF v = "valid" THEN "Verified" ELSE "Attested"
        /\ jobs'[j].acked = jobs[j].acked /\ jobs'[j].verdict = v
        /\ jobs'[j].slashed = jobs[j].slashed /\ jobs'[j] # NULL
    BY <2>1, JudgedFields DEF SameTerms
  <2>3. Live(j)' /\ JobCustody(j)' /\ JobOutcome(j)' /\ JobQuiet(j)'
    BY <2>1, <2>2 DEF JobSafe, JobCustody, JobOutcome, JobQuiet
  <2> QED
    BY <2>3, LiveJobIsSafe, PTL
<1>5. CASE JobSettled(j)
  <2>1. /\ jobs[j] \in Jobs /\ jobs[j].state = "Verified" /\ jobs[j] # NULL
        /\ jobs[j].price \in Nat /\ receipts[j] = NoReceipt
        /\ jobs'[j] = Closed(jobs[j], "Settled")
    BY <1>0, <1>5 DEF JobSettled, JobSafe, JobQuiet
  <2>2. /\ jobs'[j].kind = jobs[j].kind /\ jobs'[j].qty = jobs[j].qty
        /\ jobs'[j].price = jobs[j].price /\ jobs'[j].escrow = 0 /\ jobs'[j].credits = 0
        /\ jobs'[j].state = "Settled" /\ jobs'[j].acked = jobs[j].acked
        /\ jobs'[j].verdict = jobs[j].verdict
        /\ jobs'[j].slashed = jobs[j].slashed /\ jobs'[j] # NULL
    BY <2>1, ClosedFields DEF SameTerms
  <2>3. jobs[j].escrow = IF jobs[j].kind = "fill" THEN 0 ELSE jobs[j].price
    BY <2>1 DEF JobSafe, JobCustody
  <2>4. \E payout \in Nat, fee \in Nat :
          payout + fee = jobs[j].escrow /\ receipts'[j] = SettledReceipt(payout, fee)
    <3>1. CASE jobs[j].kind = "fill"
      <4>1. receipts'[j] = SettledReceipt(0, 0)
        BY <1>5, <2>1, <3>1 DEF JobSettled
      <4> QED
        BY <2>3, <3>1, <4>1
    <3>2. CASE jobs[j].kind # "fill"
      BY <1>5, <3>2 DEF JobSettled
    <3> QED
      BY <3>1, <3>2
  <2>5. PICK payout \in Nat, fee \in Nat :
          payout + fee = jobs[j].escrow /\ receipts'[j] = SettledReceipt(payout, fee)
    BY <2>4
  <2>6. /\ receipts'[j].payout = payout /\ receipts'[j].fee = fee /\ receipts'[j].refund = 0
        /\ receipts'[j].penalty = 0 /\ receipts'[j].comp = 0 /\ receipts'[j].reason = "none"
    BY <2>5 DEF SettledReceipt
  <2>7. JobCustody(j)' /\ JobQuiet(j)'
    BY <2>2 DEF JobCustody, JobQuiet
  <2>8. JobOutcome(j)'
    BY <2>1, <2>2 DEF JobSafe, JobOutcome
  <2>9. JobDisbursed(j)'
    BY <2>1, <2>2, <2>3, <2>5, <2>6 DEF JobDisbursed, AtMost
  <2>10. JobBlame(j)'
    BY <2>1, <2>2, <2>6 DEF JobBlame, JobSafe, JobQuiet
  <2> QED
    BY <2>7, <2>8, <2>9, <2>10 DEF JobSafe
<1>6. CASE JobSlashed(j)
  <2>1. PICK reason \in Reasons, penalty \in Nat :
          /\ jobs[j] \in Jobs /\ jobs[j] # NULL /\ jobs[j].price \in Nat /\ Blamed(j, reason)
          /\ jobs'[j] = ClosedBySlash(jobs[j])
          /\ receipts'[j] = RefundReceipt(jobs[j].escrow, penalty,
                                          Compensation(penalty, jobs[j].price), reason)
    BY <1>0, <1>6 DEF JobSlashed
  <2>2. /\ jobs'[j].kind = jobs[j].kind /\ jobs'[j].qty = jobs[j].qty
        /\ jobs'[j].price = jobs[j].price /\ jobs'[j].escrow = 0 /\ jobs'[j].credits = 0
        /\ jobs'[j].ackBy = jobs[j].ackBy /\ jobs'[j].execBy = jobs[j].execBy
        /\ jobs'[j].attestBy = jobs[j].attestBy
        /\ jobs'[j].state = "Refunded" /\ jobs'[j].acked = jobs[j].acked
        /\ jobs'[j].verdict = jobs[j].verdict
        /\ jobs'[j].slashed /\ jobs'[j] # NULL
    BY <2>1, ClosedBySlashFields DEF SameTerms
  <2>3. /\ receipts'[j].payout = 0 /\ receipts'[j].fee = 0
        /\ receipts'[j].refund = jobs[j].escrow /\ receipts'[j].penalty = penalty
        /\ receipts'[j].comp = AtMost(penalty, jobs[j].price)
        /\ receipts'[j].reason = reason
    BY <2>1 DEF RefundReceipt, Compensation
  <2>4. jobs[j].state \in {"Dispatched", "Executing", "Attested"}
    BY <2>1 DEF Blamed
  <2>5. jobs[j].escrow = IF jobs[j].kind = "fill" THEN 0 ELSE jobs[j].price
    BY <2>1, <2>4 DEF JobSafe, JobCustody
  <2>6. JobCustody(j)' /\ JobQuiet(j)'
    BY <2>2 DEF JobCustody, JobQuiet
  <2>7. JobOutcome(j)'
    BY <2>1, <2>2, <2>4 DEF JobSafe, JobOutcome
  <2>8. JobDisbursed(j)'
    BY <2>1, <2>2, <2>3, <2>5 DEF JobDisbursed
  <2>9. JobBlame(j)'
    <3>1. clock \in Nat /\ clock' \in Nat
          /\ jobs[j].ackBy \in Nat /\ jobs[j].execBy \in Nat /\ jobs[j].attestBy \in Nat
      BY <2>1 DEF TypeOK, Jobs
    <3>2. CASE jobs[j].state = "Attested"
      BY <2>1, <2>2, <2>3, <3>2 DEF Blamed, JobBlame, JobSafe, JobOutcome
    <3>3. CASE jobs[j].state # "Attested"
      BY <2>1, <2>2, <2>3, <2>4, <3>1, <3>3
         DEF Blamed, ExpiryFault, JobBlame, JobSafe, JobOutcome
    <3> QED
      BY <3>2, <3>3
  <2> QED
    BY <2>6, <2>7, <2>8, <2>9 DEF JobSafe
<1>7. CASE JobCancelled(j)
  <2>1. /\ jobs[j] \in Jobs /\ jobs[j].state = "Dispatched" /\ jobs[j] # NULL
        /\ jobs[j].price \in Nat
        /\ jobs'[j] = Closed(jobs[j], "Refunded")
        /\ receipts'[j] = RefundReceipt(jobs[j].escrow, 0, 0, "Cancelled")
    BY <1>0, <1>7 DEF JobCancelled
  <2>2. /\ jobs'[j].kind = jobs[j].kind /\ jobs'[j].qty = jobs[j].qty
        /\ jobs'[j].price = jobs[j].price /\ jobs'[j].escrow = 0 /\ jobs'[j].credits = 0
        /\ jobs'[j].state = "Refunded" /\ jobs'[j].acked = jobs[j].acked
        /\ jobs'[j].verdict = jobs[j].verdict
        /\ jobs'[j].slashed = jobs[j].slashed /\ jobs'[j] # NULL
    BY <2>1, ClosedFields DEF SameTerms
  <2>3. /\ receipts'[j].payout = 0 /\ receipts'[j].fee = 0
        /\ receipts'[j].refund = jobs[j].escrow /\ receipts'[j].penalty = 0
        /\ receipts'[j].comp = 0 /\ receipts'[j].reason = "Cancelled"
    BY <2>1 DEF RefundReceipt
  <2>4. jobs[j].escrow = IF jobs[j].kind = "fill" THEN 0 ELSE jobs[j].price
    BY <2>1 DEF JobSafe, JobCustody
  <2>5. JobCustody(j)' /\ JobQuiet(j)'
    BY <2>2 DEF JobCustody, JobQuiet
  <2>6. JobOutcome(j)'
    BY <2>1, <2>2 DEF JobSafe, JobOutcome
  <2>7. JobDisbursed(j)'
    BY <2>1, <2>2, <2>3, <2>4 DEF JobDisbursed, AtMost
  <2>8. JobBlame(j)'
    BY <2>1, <2>2, <2>3 DEF JobBlame, JobSafe, JobQuiet
  <2> QED
    BY <2>5, <2>6, <2>7, <2>8 DEF JobSafe
<1> QED
  BY <1>1, <1>2, <1>3, <1>4, <1>5, <1>6, <1>7 DEF JobStep

(* The invariant is inductive: each step treats each job in one of the ways of JobStep. *)
LEMMA EscrowInductive == EscrowInv /\ [Next]_vars => EscrowInv'
<1> SUFFICES ASSUME EscrowInv, [Next]_vars PROVE EscrowInv'
  OBVIOUS
<1>1. TypeOK /\ TypeOK'
  BY TypeInductive DEF EscrowInv
<1>2. (\A j \in JobIds : JobStep(j)) /\ clock' >= clock
  BY <1>1, JobStepLemma
<1>3. ASSUME NEW j \in JobIds
      PROVE  JobSafe(j)'
  BY <1>1, <1>2, JobStepKeepsSafe DEF EscrowInv
<1> QED
  BY <1>1, <1>3 DEF EscrowInv

(* Every job is safe at all times: its custody, outcome, silence, payout and blame *)
(* agree, whatever the other jobs, the stakes and governance do (job.move, settlement.move). *)
THEOREM EscrowInvariant == Spec => []EscrowInv
BY InitEscrow, EscrowInductive, PTL DEF Spec

(* A job holds its whole escrow and all its credits until its end, and nothing after it. *)
THEOREM CustodyKept == Spec => []CustodyIntact
<1>1. EscrowInv => CustodyIntact
  BY DEF EscrowInv, JobSafe, CustodyIntact
<1> QED
  BY <1>1, EscrowInvariant, PTL

(* No payout without Verified, no refund of verified work. *)
THEOREM OutcomeCorrect == Spec => []OutcomeFollowsVerdict
<1>1. EscrowInv => OutcomeFollowsVerdict
  BY DEF EscrowInv, JobSafe, OutcomeFollowsVerdict
<1> QED
  BY <1>1, EscrowInvariant, PTL

(* Nothing is reported for a job before its terminal state. *)
THEOREM QuietUntilTheEnd == Spec => []NothingReportedEarly
<1>1. EscrowInv => NothingReportedEarly
  BY DEF EscrowInv, JobSafe, NothingReportedEarly
<1> QED
  BY <1>1, EscrowInvariant, PTL

(* A terminal job handed out exactly what it held, to the right side. *)
THEOREM EscrowDisbursed == Spec => []EscrowFullyDisbursed
<1>1. EscrowInv => EscrowFullyDisbursed
  BY DEF EscrowInv, JobSafe, EscrowFullyDisbursed
<1> QED
  BY <1>1, EscrowInvariant, PTL

(* No slash without a fault of the provider. *)
THEOREM SlashJustified == Spec => []NoSlashWithoutFault
<1>1. EscrowInv => NoSlashWithoutFault
  BY DEF EscrowInv, JobSafe, NoSlashWithoutFault
<1> QED
  BY <1>1, EscrowInvariant, PTL

(* Exactly once: nothing changes in a terminal job or in what it reported. *)
THEOREM FinalStays == Spec => TerminalIsFinal
<1>1. TypeOK /\ [Next]_vars =>
        [\A j \in JobIds : Terminal(j) => jobs'[j] = jobs[j] /\ receipts'[j] = receipts[j]]_vars
  <2> SUFFICES ASSUME TypeOK, [Next]_vars, NEW j \in JobIds, Terminal(j)
               PROVE  jobs'[j] = jobs[j] /\ receipts'[j] = receipts[j]
    OBVIOUS
  <2>1. JobStep(j)
    BY JobStepLemma
  <2> QED
    BY <2>1 DEF JobStep, JobUntouched, JobCreated, JobAcked, JobJudged, JobSettled, JobSlashed,
                JobCancelled, Blamed, SameReceipt, Terminal, Exists, TerminalStates
<1> QED
  BY <1>1, TypeCorrect, PTL DEF Spec, TerminalIsFinal

(* The terms a job is created with are the ones it is closed on. *)
THEOREM TermsStay == Spec => TermsFixedAtCreation
<1>1. TypeOK /\ [Next]_vars =>
        [\A j \in JobIds : Exists(j) => Terms(jobs'[j]) = Terms(jobs[j])]_vars
  <2> SUFFICES ASSUME TypeOK, [Next]_vars, NEW j \in JobIds, Exists(j)
               PROVE  Terms(jobs'[j]) = Terms(jobs[j])
    OBVIOUS
  <2>0. JobStep(j)
    BY JobStepLemma
  <2>1. jobs[j] \in Jobs
    BY DEF TypeOK, Exists
  <2>2. CASE JobUntouched(j)
    BY <2>2 DEF JobUntouched
  <2>3. CASE JobAcked(j)
    BY <2>1, <2>3, AckedFields DEF JobAcked, SameTerms, Terms
  <2>4. CASE JobJudged(j)
    <3>1. PICK v \in {"valid", "sla", "invalid"} : jobs'[j] = Judged(jobs[j], v)
      BY <2>4 DEF JobJudged
    <3> QED
      BY <2>1, <3>1, JudgedFields DEF SameTerms, Terms
  <2>5. CASE JobSettled(j)
    BY <2>1, <2>5, ClosedFields DEF JobSettled, SameTerms, Terms, TerminalStates
  <2>6. CASE JobSlashed(j)
    BY <2>1, <2>6, ClosedBySlashFields DEF JobSlashed, SameTerms, Terms
  <2>7. CASE JobCancelled(j)
    BY <2>1, <2>7, ClosedFields DEF JobCancelled, SameTerms, Terms, TerminalStates
  <2> QED
    BY <2>0, <2>2, <2>3, <2>4, <2>5, <2>6, <2>7 DEF JobStep, JobCreated, Exists
<1> QED
  BY <1>1, TypeCorrect, PTL DEF Spec, TermsFixedAtCreation

-----------------------------------------------------------------------------
(* A step changes at most one job *)

OnlyJob(j) == \A k \in JobIds \ {j} : JobUntouched(k)

(* A step that writes one slot of each table touches one job. *)
LEMMA OneSlot ==
  ASSUME TypeOK, NEW j \in JobIds,
         \E job : jobs' = [jobs EXCEPT ![j] = job],
         receipts' = receipts \/ \E r : receipts' = [receipts EXCEPT ![j] = r]
  PROVE  OnlyJob(j)
BY DEF TypeOK, OnlyJob, JobUntouched, SameReceipt

(* Whatever happens, at most one job is affected. *)
LEMMA OneJobLemma ==
  ASSUME TypeOK, [Next]_vars
  PROVE  UNCHANGED <<jobs, receipts>> \/ \E j \in JobIds : OnlyJob(j)
<1>1. CASE ProviderStep \/ GovernanceStep \/ Tick \/ UNCHANGED vars
  BY <1>1
     DEF ProviderStep, RegisterProvider, Stake, AddBond, Unstake, MintCredits, PostAsk,
         DeepBookMatch, GovernanceStep, SetPause, SetIsLocalnet, SetProtocolFee, SetSlashTerms,
         SetMinStake, SetMarketActive, SetPool, SetSla, SetFeeTier, SetModelActive,
         AddMeasurement, RemoveMeasurement, WithdrawTreasury, Configure, Remarket, Tick, vars
<1>2. CASE CreationStep
  <2>1. \E j \in JobIds : (\E job : jobs' = [jobs EXCEPT ![j] = job]) /\ receipts' = receipts
    BY <1>2 DEF CreationStep, CreateJob, CreateJobFromAsk, CreateJobFromFill
  <2> QED
    BY <2>1, OneSlot
<1>3. CASE WorkStep
  <2>1. \E j \in JobIds : (\E job : jobs' = [jobs EXCEPT ![j] = job]) /\ receipts' = receipts
    BY <1>3 DEF WorkStep, Ack, SubmitMockAttestation, SubmitSignedAttestation, RecordAttestation
  <2> QED
    BY <2>1, OneSlot
<1>4. CASE SettlementStep
  <2>1. PICK s \in StakeIds, j \in JobIds : Resolve(s, j) \/ Cancel(s, j)
    BY <1>4 DEF SettlementStep
  <2>2. ASSUME NEW fault, NEW reason, RefundAndSlash(s, j, fault, reason)
        PROVE  /\ \E job : jobs' = [jobs EXCEPT ![j] = job]
               /\ \E r : receipts' = [receipts EXCEPT ![j] = r]
    BY <2>2 DEF RefundAndSlash
  <2>3. ASSUME RefundOnVerdict(s, j) \/ ExpireAndResolve(s, j)
        PROVE  /\ \E job : jobs' = [jobs EXCEPT ![j] = job]
               /\ \E r : receipts' = [receipts EXCEPT ![j] = r]
    BY <2>2, <2>3 DEF RefundOnVerdict, ExpireAndResolve
  <2>4. ASSUME Settle(s, j) \/ SettleFill(s, j) \/ Cancel(s, j)
        PROVE  /\ \E job : jobs' = [jobs EXCEPT ![j] = job]
               /\ \E r : receipts' = [receipts EXCEPT ![j] = r]
    BY <2>4 DEF Settle, SettleFill, Cancel
  <2>5. /\ \E job : jobs' = [jobs EXCEPT ![j] = job]
        /\ \E r : receipts' = [receipts EXCEPT ![j] = r]
    BY <2>1, <2>3, <2>4 DEF Resolve, ResolveAttested, ResolveFill
  <2> QED
    BY <2>5, OneSlot
<1> QED
  BY <1>1, <1>2, <1>3, <1>4 DEF Next

-----------------------------------------------------------------------------
(* One job's deposit *)

Deposit(j)  == IF jobs[j] = NULL THEN 0 ELSE jobs[j].escrow
PaidOut(j)  == receipts[j].payout + receipts[j].fee
PaidBack(j) == receipts[j].refund

(* A job that is not touched leaves its deposit as it is. *)
LEMMA UntouchedDeposit ==
  ASSUME NEW j \in JobIds, JobUntouched(j)
  PROVE  /\ Phase(j)' = Phase(j) /\ Deposit(j)' = Deposit(j)
         /\ PaidOut(j)' = PaidOut(j) /\ PaidBack(j)' = PaidBack(j)
BY DEF JobUntouched, SameReceipt, Phase, Deposit, PaidOut, PaidBack

Untouched(j) == Phase(j)' = Phase(j) /\ Deposit(j)' = Deposit(j)
SamePaid(j) == PaidOut(j)' = PaidOut(j) /\ PaidBack(j)' = PaidBack(j)

\* What the promise allows to happen to one deposit.
Kept(j) ==
  \/ Untouched(j) /\ SamePaid(j)
  \/ Phase(j) = "none" /\ Phase(j)' = "held" /\ Deposit(j)' \in Nat /\ SamePaid(j)
  \/ /\ Phase(j) = "held" /\ Phase(j)' \in {"accepted", "rejected"}
     /\ Deposit(j)' = Deposit(j) /\ SamePaid(j)
  \/ /\ Phase(j) = "accepted" /\ Phase(j)' = "released" /\ Deposit(j)' = 0
     /\ PaidOut(j)' = Deposit(j) /\ PaidBack(j)' = PaidBack(j)
  \/ /\ Phase(j) \in {"held", "rejected"} /\ Phase(j)' = "returned" /\ Deposit(j)' = 0
     /\ PaidBack(j)' = Deposit(j) /\ PaidOut(j)' = PaidOut(j)

(* Each of the ways of JobStep is something the promise allows, because a live job holds its *)
(* whole escrow and has reported nothing yet.                                                *)
LEMMA JobStepKeepsPromise ==
  ASSUME TypeOK, NEW j \in JobIds, JobSafe(j), JobStep(j)
  PROVE  Kept(j)
<1> USE DEF Exists
<1>0. ASSUME Exists(j)
      PROVE  /\ jobs[j] \in Jobs /\ jobs[j] # NULL
             /\ Deposit(j) = jobs[j].escrow /\ jobs[j].escrow \in Nat
  BY <1>0 DEF TypeOK, Jobs, Deposit
<1>1. ASSUME Exists(j), jobs[j].state \in LiveStates
      PROVE  /\ receipts[j] = NoReceipt /\ PaidOut(j) = 0 /\ PaidBack(j) = 0
             /\ jobs[j].kind = "fill" => jobs[j].escrow = 0
  <2>1. receipts[j] = NoReceipt
    BY <1>1 DEF JobSafe, JobQuiet, Terminal, LiveStates, TerminalStates
  <2>2. jobs[j].kind = "fill" => jobs[j].escrow = 0
    BY <1>1 DEF JobSafe, JobCustody, Live
  <2> QED
    BY <2>1, <2>2 DEF PaidOut, PaidBack, NoReceipt, SettledReceipt
<1>2. CASE JobUntouched(j)
  BY <1>2, UntouchedDeposit DEF Kept, Untouched, SamePaid
<1>3. CASE JobCreated(j)
  <2>1. PICK k \in JobKinds, c \in Providers \cup Consumers, p \in Providers,
             q \in Nat, price \in Nat, e \in Nat :
          /\ jobs[j] = NULL
          /\ jobs'[j] = NewJob(k, c, p, q, price, e)
          /\ SameReceipt(j)
    BY <1>3 DEF JobCreated
  <2>2. jobs'[j].escrow = e /\ jobs'[j].state = "Dispatched" /\ jobs'[j] # NULL
    BY <2>1, NewJobFields
  <2>3. Phase(j) = "none" /\ Phase(j)' = "held" /\ Deposit(j)' = e
    BY <2>1, <2>2 DEF Phase, Deposit
  <2>4. SamePaid(j)
    BY <2>1 DEF SameReceipt, SamePaid, PaidOut, PaidBack
  <2> QED
    BY <2>1, <2>3, <2>4 DEF Kept
<1>4. CASE JobAcked(j)
  <2>1. /\ Exists(j) /\ jobs[j].state = "Dispatched" /\ jobs'[j] = Acked(jobs[j])
        /\ SameReceipt(j)
    BY <1>4 DEF JobAcked
  <2>2. jobs'[j].state = "Executing" /\ jobs'[j].escrow = jobs[j].escrow /\ jobs'[j] # NULL
    BY <1>0, <2>1, AckedFields
  <2>3. Untouched(j)
    BY <2>1, <2>2 DEF Untouched, Phase, Deposit
  <2>4. SamePaid(j)
    BY <2>1 DEF SameReceipt, SamePaid, PaidOut, PaidBack
  <2> QED
    BY <2>3, <2>4 DEF Kept
<1>5. CASE JobJudged(j)
  <2>1. PICK v \in {"valid", "sla", "invalid"} :
          /\ Exists(j) /\ jobs[j].state = "Executing"
          /\ jobs'[j] = Judged(jobs[j], v) /\ SameReceipt(j)
    BY <1>5 DEF JobJudged
  <2>2. /\ jobs'[j].state \in {"Verified", "Attested"} /\ jobs'[j].escrow = jobs[j].escrow
        /\ jobs'[j] # NULL
    BY <1>0, <2>1, JudgedFields DEF AttestedState
  <2>3. Phase(j) = "held" /\ Phase(j)' \in {"accepted", "rejected"} /\ Deposit(j)' = Deposit(j)
    BY <2>1, <2>2 DEF Phase, Deposit
  <2>4. SamePaid(j)
    BY <2>1 DEF SameReceipt, SamePaid, PaidOut, PaidBack
  <2> QED
    BY <2>3, <2>4 DEF Kept
<1>6. CASE JobSettled(j)
  <2>1. /\ Exists(j) /\ jobs[j].state = "Verified" /\ jobs'[j] = Closed(jobs[j], "Settled")
    BY <1>6 DEF JobSettled
  <2>2. jobs'[j].state = "Settled" /\ jobs'[j].escrow = 0 /\ jobs'[j] # NULL
    BY <1>0, <2>1, ClosedFields DEF TerminalStates
  <2>3. Phase(j) = "accepted" /\ Phase(j)' = "released" /\ Deposit(j)' = 0
    BY <2>1, <2>2 DEF Phase, Deposit
  <2>4. PaidBack(j) = 0 /\ (jobs[j].kind = "fill" => jobs[j].escrow = 0)
    BY <1>1, <2>1 DEF LiveStates
  <2>5. PICK payout \in Nat, fee \in Nat :
          payout + fee = jobs[j].escrow /\ receipts'[j] = SettledReceipt(payout, fee)
    <3>1. CASE jobs[j].kind = "fill"
      <4>1. 0 + 0 = jobs[j].escrow /\ receipts'[j] = SettledReceipt(0, 0)
        BY <1>6, <2>4, <3>1 DEF JobSettled
      <4> QED
        BY <4>1
    <3>2. CASE jobs[j].kind # "fill"
      BY <1>6, <3>2 DEF JobSettled
    <3> QED
      BY <3>1, <3>2
  <2>6. PaidOut(j)' = Deposit(j) /\ PaidBack(j)' = 0
    BY <1>0, <2>1, <2>5 DEF PaidOut, PaidBack, SettledReceipt
  <2> QED
    BY <2>3, <2>4, <2>6 DEF Kept
<1>7. ASSUME Exists(j), jobs[j].state \in {"Dispatched", "Executing", "Attested"},
             jobs'[j].state = "Refunded", jobs'[j].escrow = 0, jobs'[j] # NULL,
             NEW penalty, NEW comp, NEW reason,
             receipts'[j] = RefundReceipt(jobs[j].escrow, penalty, comp, reason)
      PROVE  Kept(j)
  <2>1. Phase(j) \in {"held", "rejected"} /\ Phase(j)' = "returned" /\ Deposit(j)' = 0
    BY <1>7 DEF Phase, Deposit
  <2>2. PaidOut(j) = 0
    BY <1>1, <1>7 DEF LiveStates
  <2>3. PaidOut(j)' = 0 /\ PaidBack(j)' = Deposit(j)
    BY <1>0, <1>7 DEF PaidOut, PaidBack, RefundReceipt
  <2> QED
    BY <2>1, <2>2, <2>3 DEF Kept
<1>8. CASE JobSlashed(j)
  <2>1. PICK reason \in Reasons, penalty \in Nat :
          /\ Exists(j) /\ Blamed(j, reason) /\ jobs'[j] = ClosedBySlash(jobs[j])
          /\ receipts'[j] =
               RefundReceipt(jobs[j].escrow, penalty, Compensation(penalty, jobs[j].price), reason)
    BY <1>8 DEF JobSlashed
  <2>2. jobs'[j].state = "Refunded" /\ jobs'[j].escrow = 0 /\ jobs'[j] # NULL
    BY <1>0, <2>1, ClosedBySlashFields
  <2>3. jobs[j].state \in {"Dispatched", "Executing", "Attested"}
    BY <2>1 DEF Blamed
  <2> QED
    BY <1>7, <2>1, <2>2, <2>3
<1>9. CASE JobCancelled(j)
  <2>1. /\ Exists(j) /\ jobs[j].state = "Dispatched" /\ jobs'[j] = Closed(jobs[j], "Refunded")
        /\ receipts'[j] = RefundReceipt(jobs[j].escrow, 0, 0, "Cancelled")
    BY <1>9 DEF JobCancelled
  <2>2. jobs'[j].state = "Refunded" /\ jobs'[j].escrow = 0 /\ jobs'[j] # NULL
    BY <1>0, <2>1, ClosedFields DEF TerminalStates
  <2> QED
    BY <1>7, <2>1, <2>2
<1> QED
  BY <1>2, <1>3, <1>4, <1>5, <1>6, <1>8, <1>9 DEF JobStep

-----------------------------------------------------------------------------
(* The refinement *)

(* The deployed exchange owes nothing. *)
LEMMA PromiseInit == Init => Promise!Init
BY DEF Init, Promise!Init, Phase, NoReceipt, SettledReceipt

(* What the promise allows for one deposit, and nothing for the others, is a step of it. *)
LEMMA PromiseStep ==
  ASSUME NEW j \in JobIds, Kept(j), \A k \in JobIds \ {j} : Untouched(k) /\ SamePaid(k)
  PROVE  [Promise!Next]_Promise!pvars
<1> DEFINE ph == [k \in JobIds |-> Phase(k)]
           de == [k \in JobIds |-> IF jobs[k] = NULL THEN 0 ELSE jobs[k].escrow]
           out == [k \in JobIds |-> receipts[k].payout + receipts[k].fee]
           back == [k \in JobIds |-> receipts[k].refund]
<1>1. /\ ph' = [ph EXCEPT ![j] = Phase(j)'] /\ de' = [de EXCEPT ![j] = Deposit(j)']
      /\ out' = [out EXCEPT ![j] = PaidOut(j)'] /\ back' = [back EXCEPT ![j] = PaidBack(j)']
  BY DEF Untouched, SamePaid, Deposit, PaidOut, PaidBack
<1>2. /\ ph[j] = Phase(j) /\ de[j] = Deposit(j) /\ de'[j] = Deposit(j)'
      /\ out[j] = PaidOut(j) /\ back[j] = PaidBack(j)
  BY DEF Deposit, PaidOut, PaidBack
<1> HIDE DEF ph, de, out, back
<1>3. CASE Untouched(j) /\ SamePaid(j)
  <2>1. \A k \in JobIds : Phase(k)' = Phase(k) /\ Deposit(k)' = Deposit(k)
    BY <1>3 DEF Untouched
  <2>2. ph' = ph
    BY <2>1 DEF ph
  <2>3. de' = de
    BY <2>1 DEF de, Deposit
  <2>4. out' = out /\ back' = back
    BY <1>1, <1>2, <1>3 DEF SamePaid, out, back
  <2> QED
    BY <2>2, <2>3, <2>4 DEF Promise!pvars, ph, de, out, back
<1>4. CASE Phase(j) = "none" /\ Phase(j)' = "held" /\ Deposit(j)' \in Nat /\ SamePaid(j)
  <2>1. out' = out /\ back' = back
    BY <1>1, <1>2, <1>4 DEF SamePaid, out, back
  <2>2. Promise!Move(j, {"none"}, "held")
    BY <1>1, <1>2, <1>4 DEF Promise!Move, ph
  <2>3. Promise!Hold(j)
    BY <1>1, <1>2, <1>4, <2>1, <2>2 DEF Promise!Hold, de, out, back
  <2> QED
    BY <2>3 DEF Promise!Next
<1>5. CASE /\ Phase(j) = "held" /\ Phase(j)' \in {"accepted", "rejected"}
           /\ Deposit(j)' = Deposit(j) /\ SamePaid(j)
  <2>1. \A k \in JobIds : Deposit(k)' = Deposit(k)
    BY <1>5 DEF Untouched
  <2>2. de' = de
    BY <2>1 DEF de, Deposit
  <2>3. out' = out /\ back' = back
    BY <1>1, <1>2, <1>5 DEF SamePaid, out, back
  <2>4. Promise!Move(j, {"held"}, "accepted") \/ Promise!Move(j, {"held"}, "rejected")
    BY <1>1, <1>2, <1>5 DEF Promise!Move, ph
  <2>5. Promise!Judge(j)
    BY <2>2, <2>3, <2>4 DEF Promise!Judge, de, out, back
  <2> QED
    BY <2>5 DEF Promise!Next
<1>6. CASE /\ Phase(j) = "accepted" /\ Phase(j)' = "released" /\ Deposit(j)' = 0
           /\ PaidOut(j)' = Deposit(j) /\ PaidBack(j)' = PaidBack(j)
  <2>1. back' = back
    BY <1>1, <1>2, <1>6 DEF back
  <2>2. Promise!Move(j, {"accepted"}, "released")
    BY <1>1, <1>2, <1>6 DEF Promise!Move, ph
  <2>3. Promise!Release(j)
    BY <1>1, <1>2, <1>6, <2>1, <2>2 DEF Promise!Release, de, out, back
  <2> QED
    BY <2>3 DEF Promise!Next
<1>7. CASE /\ Phase(j) \in {"held", "rejected"} /\ Phase(j)' = "returned" /\ Deposit(j)' = 0
           /\ PaidBack(j)' = Deposit(j) /\ PaidOut(j)' = PaidOut(j)
  <2>1. out' = out
    BY <1>1, <1>2, <1>7 DEF out
  <2>2. Promise!Move(j, {"held", "rejected"}, "returned")
    BY <1>1, <1>2, <1>7 DEF Promise!Move, ph
  <2>3. Promise!Return(j)
    BY <1>1, <1>2, <1>7, <2>1, <2>2 DEF Promise!Return, de, out, back
  <2> QED
    BY <2>3 DEF Promise!Next
<1> QED
  BY <1>3, <1>4, <1>5, <1>6, <1>7 DEF Kept

(* The exchange implements the promise: whatever the jobs, the stakes and governance do, each *)
(* deposit is held, judged, and released or returned whole and once (escrow.move, job.move,   *)
(* settlement.move).                                                                          *)
THEOREM ExchangeKeepsPromise == Spec => EscrowPromiseKept
<1>1. EscrowInv /\ [Next]_vars => [Promise!Next]_Promise!pvars
  <2> SUFFICES ASSUME EscrowInv, [Next]_vars PROVE [Promise!Next]_Promise!pvars
    OBVIOUS
  <2>1. TypeOK /\ \A j \in JobIds : JobSafe(j) /\ JobStep(j)
    BY JobStepLemma DEF EscrowInv
  <2>2. CASE UNCHANGED <<jobs, receipts>>
    BY <2>2 DEF Promise!pvars, Phase
  <2>3. CASE \E j \in JobIds : OnlyJob(j)
    <3>1. PICK j \in JobIds : OnlyJob(j)
      BY <2>3
    <3>2. Kept(j)
      BY <2>1, JobStepKeepsPromise
    <3>3. \A k \in JobIds \ {j} : Untouched(k) /\ SamePaid(k)
      BY <3>1, UntouchedDeposit DEF OnlyJob, Untouched, SamePaid
    <3> QED
      BY <3>2, <3>3, PromiseStep
  <2> QED
    BY <2>1, <2>2, <2>3, OneJobLemma
<1> QED
  BY <1>1, PromiseInit, EscrowInvariant, PTL DEF Spec, EscrowPromiseKept, Promise!Spec

=============================================================================
