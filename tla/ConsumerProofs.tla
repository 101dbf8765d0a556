--------------------------- MODULE ConsumerProofs ---------------------------
(***************************************************************************)
(* What a consumer pays and what it is told, for any number of concurrent   *)
(* tasks, asks and dollars, whoever the provider is and whatever is lost.   *)
(* Fits relates one task to its job; every step of a client moves one task  *)
(* to a record that fits its job again, and every step of the world one job *)
(* to a record its task fits.  The money follows from counting.             *)
(***************************************************************************)
EXTENDS ConsumerTask, FiniteSetTheorems, SequenceTheorems, TLAPS

-----------------------------------------------------------------------------
(* The inductive invariant *)

\* The events a job can have, by its phase: two at most, and none that was not earned.
History(phase) ==
  CASE phase \in {"none", "open"}         -> {<<>>}
    [] phase \in {"verified", "faulted"}  -> {<<"AttestationSubmitted">>}
    [] phase = "settled"                  -> {<<"AttestationSubmitted", "Settled">>}
    [] OTHER -> {<<"Refunded">>, <<"AttestationSubmitted", "Refunded">>}

\* Where a task stands once its purchase was sent.
AfterPurchase == {"spin", "await", "blob", "result", "proof", "answered", "failed"}

Attested(job) == \E i \in DOMAIN job.events : job.events[i] = "AttestationSubmitted"

\* A task is past its purchase if it has a job, and knows of it only what is true of it.
Fits(job, task) ==
  /\ job.phase # "none" => task.step \in AfterPurchase
  /\ task.step = "idle" => ~task.funded
  /\ task.seen => Attested(job)
  /\ task.term = "Settled" \/ task.paid => job.phase = "settled"
  /\ task.term = "Refunded" => job.phase = "refunded"
  /\ task.term = "Attested" => Attested(job)
  /\ task.step = "answered" /\ task.verified /\ task.seen => task.output = "attested"

\* The types without the bound on the balance, which only the count of the jobs gives.
Shape ==
  /\ package \in Packages
  /\ asks \in Seq(0 .. Stock) /\ Len(asks) <= MaxAsks
  /\ usdc \in Nat
  /\ jobs \in [Requests -> Jobs] /\ tasks \in [Requests -> Tasks]
  /\ \A r \in Requests : jobs[r].buried <= Len(jobs[r].events)

ConsumerInv ==
  /\ Shape /\ PaysPerJob
  /\ \A r \in Requests : jobs[r].events \in History(jobs[r].phase) /\ Fits(jobs[r], tasks[r])


-----------------------------------------------------------------------------
(* Records *)

\* What a step of the client leaves alone in the task it moves.
SameOrigin(u, t) == u.client = t.client /\ u.path = t.path /\ u.funded = t.funded

\* What it knows of the job, and of the output.
SameKnowledge(u, t) ==
  /\ u.seen = t.seen /\ u.term = t.term /\ u.paid = t.paid
  /\ u.output = t.output /\ u.verified = t.verified

(* A task that goes to another await keeps everything else. *)
LEMMA StepTo ==
  ASSUME NEW t \in Tasks, NEW s \in Steps
  PROVE  /\ [t EXCEPT !.step = s] \in Tasks
         /\ [t EXCEPT !.step = s].step = s
         /\ SameOrigin([t EXCEPT !.step = s], t)
         /\ SameKnowledge([t EXCEPT !.step = s], t)
BY DEF Tasks, SameOrigin, SameKnowledge

(* A task at another await fits its job, if the await comes after the purchase or there is  *)
(* no job, and it is neither the first nor an answer.                                       *)
LEMMA FitsAt ==
  ASSUME NEW job, NEW t \in Tasks, NEW u, Fits(job, t), SameOrigin(u, t), SameKnowledge(u, t),
         u.step \notin {"idle", "answered"}, job.phase # "none" => u.step \in AfterPurchase
  PROVE  Fits(job, u)
BY DEF Fits, SameOrigin, SameKnowledge

(* What the events of a job say, its phase says too. *)
LEMMA HistoryTells ==
  ASSUME NEW job \in Jobs, job.events \in History(job.phase)
  PROVE  /\ \A i \in DOMAIN job.events :
              /\ job.events[i] = "Settled" => job.phase = "settled"
              /\ job.events[i] = "Refunded" => job.phase = "refunded"
         /\ job.phase \in {"verified", "faulted", "settled"} => Attested(job)
         /\ job.phase = "verified" => job.events = <<"AttestationSubmitted">>
         /\ job.phase = "open" => job.events = <<>>
         /\ job.phase = "faulted" => job.events = <<"AttestationSubmitted">>
         /\ Len(job.events) <= 2
<1>0. /\ DOMAIN <<>> = {} /\ Len(<<>>) = 0
      /\ \A a : DOMAIN <<a>> = {1} /\ <<a>>[1] = a /\ Len(<<a>>) = 1
      /\ \A a, b : /\ DOMAIN <<a, b>> = {1, 2} /\ <<a, b>>[1] = a /\ <<a, b>>[2] = b
                  /\ Len(<<a, b>>) = 2
  OBVIOUS
<1>1. CASE job.phase \in {"none", "open"}
  <2>1. job.events = <<>>
    BY <1>1 DEF History
  <2> QED
    BY <1>0, <1>1, <2>1
<1>2. CASE job.phase \in {"verified", "faulted"}
  <2>1. job.events = <<"AttestationSubmitted">>
    BY <1>2 DEF History
  <2> QED
    BY <1>0, <1>2, <2>1 DEF Attested
<1>3. CASE job.phase = "settled"
  <2>1. job.events = <<"AttestationSubmitted", "Settled">>
    BY <1>3 DEF History
  <2> QED
    BY <1>0, <1>3, <2>1 DEF Attested
<1>4. CASE job.phase = "refunded"
  <2>1. \/ job.events = <<"Refunded">>
        \/ job.events = <<"AttestationSubmitted", "Refunded">>
    BY <1>4 DEF History
  <2>2. CASE job.events = <<"Refunded">>
    BY <1>0, <1>4, <2>2
  <2>3. CASE job.events = <<"AttestationSubmitted", "Refunded">>
    BY <1>0, <1>4, <2>3
  <2> QED
    BY <2>1, <2>2, <2>3
<1> QED
  BY <1>1, <1>2, <1>3, <1>4 DEF Jobs

-----------------------------------------------------------------------------
(* The money *)

Spenders == {r \in Requests : Spent(r)}
Funders  == {r \in Requests : tasks[r].funded}

(* Finitely many tasks have paid, and finitely many were given dollars. *)
LEMMA CountsAreNat ==
  /\ IsFiniteSet(Spenders) /\ IsFiniteSet(Funders) /\ IsFiniteSet(Requests)
  /\ Cardinality(Spenders) \in Nat /\ Cardinality(Funders) \in Nat
  /\ Cardinality(Requests) \in Nat /\ Cardinality(Funders) <= Cardinality(Requests)
  /\ Budget \in Nat
<1>1. IsFiniteSet(Requests) /\ Spenders \subseteq Requests /\ Funders \subseteq Requests
  BY ConsumerAssumption DEF Spenders, Funders
<1>2. /\ IsFiniteSet(Spenders) /\ IsFiniteSet(Funders)
      /\ Cardinality(Funders) <= Cardinality(Requests)
  BY <1>1, FS_Subset
<1> QED
  BY <1>1, <1>2, FS_CardinalityType, ConsumerAssumption

(* The wallet never holds more than it started with and what the tasks were given. *)
LEMMA BalanceBounded == usdc \in Nat /\ PaysPerJob => usdc \in 0 .. Limit
BY CountsAreNat DEF PaysPerJob, Limit, Spenders, Funders

(* And after a step too. *)
LEMMA BalanceStaysBounded == usdc' \in Nat /\ PaysPerJob' => usdc' \in 0 .. Limit
<1>1. (usdc \in Nat /\ PaysPerJob => usdc \in 0 .. Limit)'
  BY BalanceBounded, PTL
<1> QED
  BY <1>1 DEF Limit

(* A step that moves no money. *)
LEMMA NoMoney ==
  ASSUME PaysPerJob, usdc' = usdc,
         \A q \in Requests : (Spent(q)' <=> Spent(q)) /\ tasks'[q].funded = tasks[q].funded
  PROVE  PaysPerJob'
<1>1. Spenders' = Spenders /\ Funders' = Funders
  BY DEF Spenders, Funders
<1> QED
  BY <1>1 DEF PaysPerJob, Spenders, Funders

(* A purchase takes one dollar, for one more job. *)
LEMMA Purchase ==
  ASSUME PaysPerJob, usdc \in Nat, NEW r \in Requests, usdc >= 1, usdc' = usdc - 1,
         ~Spent(r), Spent(r)', \A q \in Requests \ {r} : Spent(q)' <=> Spent(q),
         \A q \in Requests : tasks'[q].funded = tasks[q].funded
  PROVE  PaysPerJob'
<1>1. Spenders' = Spenders \cup {r} /\ r \notin Spenders /\ Funders' = Funders
  BY DEF Spenders, Funders
<1>2. Cardinality(Spenders') = Cardinality(Spenders) + 1
  BY <1>1, CountsAreNat, FS_AddElement
<1>3. usdc + Cardinality(Spenders) = Budget + Cardinality(Funders)
  BY DEF PaysPerJob, Spenders, Funders
<1>4. usdc' + Cardinality(Spenders') = Budget + Cardinality(Funders')
  BY <1>1, <1>2, <1>3, CountsAreNat
<1> QED
  BY <1>4 DEF PaysPerJob, Spenders, Funders

(* A refund gives it back. *)
LEMMA GivenBack ==
  ASSUME PaysPerJob, usdc \in Nat, NEW r \in Requests, usdc' = usdc + 1,
         Spent(r), ~Spent(r)', \A q \in Requests \ {r} : Spent(q)' <=> Spent(q),
         \A q \in Requests : tasks'[q].funded = tasks[q].funded
  PROVE  PaysPerJob'
<1>1. Spenders' = Spenders \ {r} /\ r \in Spenders /\ Funders' = Funders
  BY DEF Spenders, Funders
<1>2. Cardinality(Spenders') = Cardinality(Spenders) - 1
  BY <1>1, CountsAreNat, FS_RemoveElement
<1>3. usdc + Cardinality(Spenders) = Budget + Cardinality(Funders)
  BY DEF PaysPerJob, Spenders, Funders
<1>4. usdc' + Cardinality(Spenders') = Budget + Cardinality(Funders')
  BY <1>1, <1>2, <1>3, CountsAreNat
<1> QED
  BY <1>4 DEF PaysPerJob, Spenders, Funders

(* A mint of test dollars is counted with the task it was for. *)
LEMMA Given ==
  ASSUME PaysPerJob, usdc \in Nat, NEW r \in Requests, usdc' = usdc + 1,
         ~tasks[r].funded, tasks'[r].funded,
         \A q \in Requests \ {r} : tasks'[q].funded = tasks[q].funded,
         \A q \in Requests : Spent(q)' <=> Spent(q)
  PROVE  PaysPerJob'
<1>1. Funders' = Funders \cup {r} /\ r \notin Funders /\ Spenders' = Spenders
  BY DEF Spenders, Funders
<1>2. Cardinality(Funders') = Cardinality(Funders) + 1
  BY <1>1, CountsAreNat, FS_AddElement
<1>3. usdc + Cardinality(Spenders) = Budget + Cardinality(Funders)
  BY DEF PaysPerJob, Spenders, Funders
<1>4. usdc' + Cardinality(Spenders') = Budget + Cardinality(Funders')
  BY <1>1, <1>2, <1>3, CountsAreNat
<1> QED
  BY <1>4 DEF PaysPerJob, Spenders, Funders

-----------------------------------------------------------------------------
(* One task moves *)

(* A step that moves one task, and neither the money nor the chain. *)
LEMMA OneTask ==
  ASSUME ConsumerInv, NEW r \in Requests, NEW u \in Tasks, Move(r, u),
         SameOrigin(u, tasks[r]), Fits(jobs[r], u)
  PROVE  ConsumerInv'
<1>1. /\ UNCHANGED <<package, asks, usdc, jobs>>
      /\ tasks' \in [Requests -> Tasks] /\ tasks'[r] = u
      /\ \A q \in Requests \ {r} : tasks'[q] = tasks[q]
  BY DEF ConsumerInv, Shape, Move, chain
<1>2. Shape'
  BY <1>1 DEF ConsumerInv, Shape
<1>3. \A q \in Requests : (Spent(q)' <=> Spent(q)) /\ tasks'[q].funded = tasks[q].funded
  BY <1>1 DEF Spent, Exists, SameOrigin
<1>4. PaysPerJob'
  BY <1>1, <1>3, NoMoney DEF ConsumerInv
<1>5. \A q \in Requests : jobs'[q].events \in History(jobs'[q].phase) /\ Fits(jobs'[q], tasks'[q])
  BY <1>1 DEF ConsumerInv
<1> QED
  BY <1>2, <1>4, <1>5 DEF ConsumerInv

(* A task that only goes to another await. *)
LEMMA Going ==
  ASSUME ConsumerInv, NEW r \in Requests, NEW s \in Steps \ {"idle", "answered"}, Go(r, s),
         Exists(r) => s \in AfterPurchase
  PROVE  ConsumerInv'
<1> DEFINE u == [tasks[r] EXCEPT !.step = s]
<1>1. tasks[r] \in Tasks /\ Fits(jobs[r], tasks[r])
  BY DEF ConsumerInv, Shape
<1>2. u \in Tasks /\ u.step = s /\ SameOrigin(u, tasks[r]) /\ SameKnowledge(u, tasks[r])
  BY <1>1, StepTo
<1>3. Move(r, u)
  BY DEF Go
<1> HIDE DEF u
<1>4. Fits(jobs[r], u)
  BY <1>1, <1>2, FitsAt DEF Exists
<1> QED
  BY <1>2, <1>3, <1>4, OneTask

(* A task that has not sent its purchase has no job. *)
LEMMA NoJobYet ==
  ASSUME ConsumerInv, NEW r \in Requests, tasks[r].step \notin AfterPurchase
  PROVE  jobs[r].phase = "none" /\ ~Exists(r)
BY DEF ConsumerInv, Fits, Exists

(* Up to the purchase a task waits for an answer, finds its ask and its price, or fails. *)
LEMMA PrepareStep ==
  ASSUME ConsumerInv, NEW r \in Requests, Prepare(r)
  PROVE  ConsumerInv'
<1>0. MaxAsks \in Nat /\ MaxAsks # 0
  BY ConsumerAssumption
<1>1. ASSUME NEW s \in {"build", "price", "failed"}, Go(r, s),
             tasks[r].step \notin AfterPurchase
      PROVE  ConsumerInv'
  BY <1>1, NoJobYet, Going DEF Steps
<1>2. CASE SubmitInput(r) \/ CliSubmitInput(r) \/ UploadInput(r)
  BY <1>1, <1>2 DEF SubmitInput, CliSubmitInput, UploadInput, Stand, Call, AfterPurchase
<1>3. ASSUME NEW a \in 0 .. MaxAsks, tasks[r].step \in {"find", "price"},
             Move(r, [tasks[r] EXCEPT !.ask = a, !.step = "build"])
      PROVE  ConsumerInv'
  <2> DEFINE u == [tasks[r] EXCEPT !.ask = a, !.step = "build"]
  <2>1. tasks[r] \in Tasks /\ Fits(jobs[r], tasks[r])
    BY DEF ConsumerInv, Shape
  <2>2. /\ u \in Tasks /\ u.step = "build"
        /\ SameOrigin(u, tasks[r]) /\ SameKnowledge(u, tasks[r])
    BY <2>1 DEF Tasks, Steps, SameOrigin, SameKnowledge
  <2>3. Move(r, u)
    BY <1>3
  <2> HIDE DEF u
  <2>4. Fits(jobs[r], u)
    BY <1>3, <2>1, <2>2, NoJobYet, FitsAt DEF AfterPurchase
  <2> QED
    BY <2>2, <2>3, <2>4, OneTask
<1>4. CASE FindLatestAsk(r)
  <2>1. Len(asks) <= MaxAsks /\ asks \in Seq(0 .. Stock)
    BY DEF ConsumerInv, Shape
  <2>2. \A a \in LiveAsks : a \in 0 .. MaxAsks
    BY <1>0, <2>1 DEF LiveAsks
  <2> QED
    BY <1>1, <1>3, <1>4, <2>2 DEF FindLatestAsk, Stand, AfterPurchase
<1>5. CASE ReadAsk(r)
  <2>1. 1 \in 0 .. MaxAsks
    BY <1>0
  <2> QED
    BY <1>1, <1>3, <1>5, <2>1 DEF ReadAsk, Stand, AfterPurchase
<1>6. CASE SizeFill(r)
  BY <1>1, <1>6 DEF SizeFill, Stand, AfterPurchase
<1> QED
  BY <1>2, <1>4, <1>5, <1>6 DEF Prepare

(* What a query shows is in the job's history. *)
LEMMA QueryIsPast ==
  ASSUME ConsumerInv, NEW r \in Requests, NEW e \in QueryJobEvents(r)
  PROVE  \E i \in DOMAIN jobs[r].events : jobs[r].events[i] = e
<1>1. jobs[r].buried \in Nat /\ jobs[r].events \in Seq(Events)
  BY DEF ConsumerInv, Shape, Jobs
<1>2. (jobs[r].buried + 1) .. Len(jobs[r].events) \subseteq DOMAIN jobs[r].events
  BY <1>1
<1> QED
  BY <1>2 DEF QueryJobEvents

(* What a poll concludes from the window it sees is true of the job: whatever was buried.  *)
LEMMA OutcomeIsTrue ==
  ASSUME ConsumerInv, NEW r \in Requests, tasks[r].step \notin {"idle", "answered"}
  PROVE  LET u == Outcome(tasks[r], QueryJobEvents(r))
         IN  /\ u \in Tasks /\ u.step = tasks[r].step /\ SameOrigin(u, tasks[r])
             /\ Fits(jobs[r], u)
<1> DEFINE events == QueryJobEvents(r)
           t == tasks[r]
           u == Outcome(t, events)
<1>1. /\ t \in Tasks /\ Fits(jobs[r], t) /\ jobs[r] \in Jobs
      /\ jobs[r].events \in History(jobs[r].phase)
  BY DEF ConsumerInv, Shape
<1>2. /\ "AttestationSubmitted" \in events => Attested(jobs[r])
      /\ "Settled" \in events => jobs[r].phase = "settled" /\ Attested(jobs[r])
      /\ "Refunded" \in events => jobs[r].phase = "refunded"
  BY <1>1, QueryIsPast, HistoryTells DEF Attested
<1> HIDE DEF events, t
<1>3. u \in Tasks /\ u.step = t.step /\ SameOrigin(u, t)
  BY <1>1 DEF Outcome, Observed, Tasks, SameOrigin
<1>4. Fits(jobs[r], u)
  <2>1. t.step \notin {"idle", "answered"}
    BY DEF t
  <2>2. CASE "Settled" \in events
    <3>1. u = [t EXCEPT !.term = "Settled", !.seen = TRUE, !.paid = TRUE]
      BY <2>2 DEF Outcome
    <3>2. /\ u.term = "Settled" /\ u.step = t.step
      BY <1>1, <3>1 DEF Tasks
    <3> HIDE DEF u
    <3> QED
      BY <1>1, <1>2, <2>1, <2>2, <3>2 DEF Fits
  <2>3. CASE "Settled" \notin events /\ "Refunded" \in events
    <3>1. u = [Observed(t, events) EXCEPT !.term = "Refunded"]
      BY <2>3 DEF Outcome
    <3>2. /\ u.term = "Refunded" /\ u.step = t.step /\ u.paid = t.paid
          /\ u.seen = (t.seen \/ "AttestationSubmitted" \in events)
      BY <1>1, <3>1 DEF Tasks, Observed
    <3> HIDE DEF u
    <3> QED
      BY <1>1, <1>2, <2>1, <2>3, <3>2 DEF Fits
  <2>4. CASE "Settled" \notin events /\ "Refunded" \notin events
    <3>1. u = Observed(t, events)
      BY <2>4 DEF Outcome
    <3>2. /\ u.term = t.term /\ u.step = t.step /\ u.paid = t.paid
          /\ u.seen = (t.seen \/ "AttestationSubmitted" \in events)
      BY <1>1, <3>1 DEF Tasks, Observed
    <3> HIDE DEF u
    <3> QED
      BY <1>1, <1>2, <2>1, <3>2 DEF Fits
  <2> QED
    BY <2>2, <2>3, <2>4
<1> QED
  BY <1>3, <1>4 DEF t, events

(* A poll goes on, or ends with an outcome that is true. *)
LEMMA PollStep ==
  ASSUME ConsumerInv, NEW r \in Requests, NEW next \in {"result", "blob"},
         tasks[r].step = "await", Poll(r, next)
  PROVE  ConsumerInv'
<1> DEFINE u == Outcome(tasks[r], QueryJobEvents(r))
<1>1. u \in Tasks /\ u.step = "await" /\ SameOrigin(u, tasks[r]) /\ Fits(jobs[r], u)
  BY OutcomeIsTrue
<1>2. Move(r, IF u.term = "" THEN u ELSE [u EXCEPT !.step = next])
  BY DEF Poll
<1> HIDE DEF u
<1> DEFINE v == [u EXCEPT !.step = next]
<1>3. v \in Tasks /\ v.step = next /\ SameOrigin(v, u) /\ SameKnowledge(v, u)
  <2>1. next \in Steps
    BY DEF Steps
  <2> HIDE DEF v
  <2> QED
    BY <1>1, <2>1, StepTo DEF v
<1>4. CASE Move(r, u)
  BY <1>1, <1>4, OneTask
<1>5. CASE Move(r, v)
  <2> HIDE DEF v
  <2>1. Fits(jobs[r], v)
    BY <1>1, <1>3, FitsAt DEF AfterPurchase
  <2>2. SameOrigin(v, tasks[r])
    BY <1>1, <1>3 DEF SameOrigin
  <2> QED
    BY <1>3, <1>5, <2>1, <2>2, OneTask
<1> QED
  BY <1>2, <1>4, <1>5

(* The deadline passes: what was seen attested is reported as that. *)
LEMMA ExpireStep ==
  ASSUME ConsumerInv, NEW r \in Requests, NEW next \in {"result", "blob"},
         tasks[r].step = "await", Expire(r, next, "failed")
  PROVE  ConsumerInv'
<1> DEFINE t == tasks[r]
           u == [t EXCEPT !.term = "Attested", !.step = next]
<1>1. t \in Tasks /\ Fits(jobs[r], t)
  BY DEF ConsumerInv, Shape
<1>2. CASE t.seen
  <2>1. Move(r, u)
    BY <1>2 DEF Expire
  <2>2. /\ u \in Tasks /\ u.step = next /\ u.term = "Attested" /\ SameOrigin(u, t)
        /\ u.seen = t.seen /\ u.paid = t.paid
    BY <1>1 DEF Tasks, Steps, SameOrigin
  <2> HIDE DEF u
  <2>3. Fits(jobs[r], u)
    BY <1>1, <1>2, <2>2 DEF Fits, AfterPurchase
  <2> QED
    BY <2>1, <2>2, <2>3, OneTask
<1>3. CASE ~t.seen
  <2>1. Go(r, "failed")
    BY <1>3 DEF Expire, Go
  <2> QED
    BY <2>1, Going DEF Steps, AfterPurchase
<1> QED
  BY <1>2, <1>3

(* Waiting for the end of the job: in turn the SDK's polls, the deadlines, the demo. *)
LEMMA WaitStep ==
  ASSUME ConsumerInv, NEW r \in Requests, Wait(r) \/ SettleTimeout(r)
  PROVE  ConsumerInv'
<1>1. CASE Go(r, "failed")
  BY <1>1, Going DEF Steps, AfterPurchase
<1>2. CASE Go(r, "result")
  BY <1>2, Going DEF Steps, AfterPurchase
<1> QED
  BY <1>1, <1>2, PollStep, ExpireStep
     DEF Wait, AwaitSettlement, CliAwaitSettlement, ReadJobState, SettleTimeout, Stand

(* An answer is verified only against the attested hash once that was seen. *)
LEMMA AnswerFits ==
  ASSUME NEW job, NEW t \in Tasks, Fits(job, t), NEW u \in Tasks, SameOrigin(u, t),
         u.step = "answered", u.seen = t.seen, u.term = t.term, u.paid = t.paid,
         u.verified => VerifyOutput(u.output, Expected(u.seen, u.output))
  PROVE  Fits(job, u)
BY DEF Fits, VerifyOutput, Expected, AfterPurchase

(* The gateway and the command line client answer with what was served or downloaded. *)
LEMMA AnsweredStep ==
  ASSUME ConsumerInv, NEW r \in Requests, NEW o \in Outputs, Answered(r, o)
  PROVE  ConsumerInv'
<1> DEFINE t == tasks[r]
           ok == VerifyOutput(o, Expected(t.seen, o))
           u == [t EXCEPT !.step = "answered", !.output = o, !.verified = ok]
<1>1. t \in Tasks /\ Fits(jobs[r], t)
  BY DEF ConsumerInv, Shape
<1>2. ok \in BOOLEAN
  BY DEF VerifyOutput
<1>3. Move(r, u)
  BY DEF Answered
<1> HIDE DEF t
<1>4. /\ u.step = "answered" /\ u.seen = t.seen /\ u.term = t.term /\ u.paid = t.paid
      /\ u.output = o /\ (u.verified <=> ok) /\ SameOrigin(u, t)
  BY <1>1 DEF Tasks, SameOrigin
<1>5. u \in Tasks
  <2> HIDE DEF ok
  <2> QED
    BY <1>1, <1>2 DEF Tasks, Steps
<1>6. u.verified => VerifyOutput(u.output, Expected(u.seen, u.output))
  BY <1>4
<1> HIDE DEF u, ok
<1>7. Fits(jobs[r], u)
  BY <1>1, <1>4, <1>5, <1>6, AnswerFits
<1> QED
  BY <1>3, <1>4, <1>5, <1>7, OneTask DEF t

(* The demo verifies after it has the output, against the hash it can still find. *)
LEMMA DemoProofStep ==
  ASSUME ConsumerInv, NEW r \in Requests, DemoProof(r)
  PROVE  ConsumerInv'
<1> DEFINE u == Outcome(tasks[r], QueryJobEvents(r))
           w == [tasks[r] EXCEPT !.seen = FALSE]
           Done(t, others) ==
             [t EXCEPT !.step = "answered",
                       !.verified = others /\ VerifyOutput(t.output, Expected(t.seen, t.output))]
<1>1. /\ tasks[r].step = "proof"
      /\ \E others \in BOOLEAN :
           \/ Move(r, IF u.term = "" THEN u ELSE Done(u, others))
           \/ Move(r, Done(w, others))
  BY DEF DemoProof, Stand, OtherProofs
<1>2. u \in Tasks /\ SameOrigin(u, tasks[r]) /\ Fits(jobs[r], u)
  BY <1>1, OutcomeIsTrue
<1>3. w \in Tasks /\ SameOrigin(w, tasks[r]) /\ Fits(jobs[r], w)
  <2>1. tasks[r] \in Tasks /\ Fits(jobs[r], tasks[r])
    BY DEF ConsumerInv, Shape
  <2>2. /\ w \in Tasks /\ SameOrigin(w, tasks[r])
        /\ w.step = tasks[r].step /\ w.term = tasks[r].term /\ w.paid = tasks[r].paid
        /\ ~w.seen
    BY <2>1 DEF Tasks, SameOrigin
  <2> HIDE DEF w
  <2> QED
    BY <1>1, <2>1, <2>2 DEF Fits
<1>4. ASSUME NEW t \in Tasks, SameOrigin(t, tasks[r]), Fits(jobs[r], t),
             NEW others \in BOOLEAN, Move(r, Done(t, others))
      PROVE  ConsumerInv'
  <2> DEFINE ok == others /\ VerifyOutput(t.output, Expected(t.seen, t.output))
             d  == [t EXCEPT !.step = "answered", !.verified = ok]
  <2>1. Move(r, d)
    BY <1>4
  <2>2. /\ d.step = "answered" /\ d.seen = t.seen /\ d.term = t.term /\ d.paid = t.paid
        /\ d.output = t.output /\ (d.verified <=> ok) /\ SameOrigin(d, t)
    BY DEF Tasks, SameOrigin
  <2>3. ok \in BOOLEAN
    BY DEF VerifyOutput
  <2>4. d \in Tasks
    <3> HIDE DEF ok
    <3> QED
      BY <2>3 DEF Tasks, Steps
  <2>5. d.verified => VerifyOutput(d.output, Expected(d.seen, d.output))
    BY <2>2
  <2> HIDE DEF d, ok
  <2>6. Fits(jobs[r], d)
    BY <1>4, <2>2, <2>4, <2>5, AnswerFits
  <2>7. SameOrigin(d, tasks[r])
    BY <1>4, <2>2 DEF SameOrigin
  <2> QED
    BY <2>1, <2>4, <2>6, <2>7, OneTask
<1> HIDE DEF u, w, Done
<1> QED
  BY <1>1, <1>2, <1>3, <1>4, OneTask

(* The result comes from the provider, or from the blob the attested job names. *)
LEMMA FinishStep ==
  ASSUME ConsumerInv, NEW r \in Requests, Finish(r) \/ ResultTimeout(r)
  PROVE  ConsumerInv'
<1>1. jobs[r].served \in Outputs /\ "attested" \in Outputs
  BY DEF ConsumerInv, Shape, Jobs, Outputs
<1>2. CASE AwaitResult(r) \/ CliAwaitResult(r)
  BY <1>1, <1>2, AnsweredStep DEF AwaitResult, CliAwaitResult
<1>3. CASE DemoAwaitResult(r)
  <2> DEFINE t == tasks[r]
             u == [t EXCEPT !.output = jobs[r].served, !.step = "proof"]
  <2>1. t \in Tasks /\ Fits(jobs[r], t) /\ Move(r, u)
    BY <1>3 DEF ConsumerInv, Shape, DemoAwaitResult
  <2>2. /\ u \in Tasks /\ u.step = "proof" /\ SameOrigin(u, t)
        /\ u.seen = t.seen /\ u.term = t.term /\ u.paid = t.paid
    BY <1>1, <2>1 DEF Tasks, Steps, SameOrigin
  <2> HIDE DEF u
  <2>3. Fits(jobs[r], u)
    BY <2>1, <2>2 DEF Fits, AfterPurchase
  <2> QED
    BY <2>1, <2>2, <2>3, OneTask
<1>4. CASE OutputFromWalrus(r)
  BY <1>1, <1>4, AnsweredStep, Going
     DEF OutputFromWalrus, DownloadAndVerify, JobOutputBlobId, Steps, AfterPurchase
<1>5. CASE DemoProof(r)
  BY <1>5, DemoProofStep
<1>6. CASE ResultTimeout(r)
  BY <1>6, Going DEF ResultTimeout, Steps, AfterPurchase
<1> QED
  BY <1>2, <1>3, <1>4, <1>5, <1>6 DEF Finish

-----------------------------------------------------------------------------
(* The purchase *)

(* Other tasks only learn that what they built is stale. *)
LEMMA StaledTasks ==
  ASSUME Shape, NEW r \in Requests, NEW u \in Tasks
  PROVE  /\ Staled(r, u) \in [Requests -> Tasks] /\ Staled(r, u)[r] = u
         /\ \A q \in Requests \ {r} :
              /\ SameOrigin(Staled(r, u)[q], tasks[q])
              /\ \A job : Fits(job, tasks[q]) => Fits(job, Staled(r, u)[q])
<1>1. ASSUME NEW q \in Requests
      PROVE  LET v == [tasks[q] EXCEPT !.stale = TRUE]
             IN  /\ v \in Tasks /\ SameOrigin(v, tasks[q])
                 /\ \A job : Fits(job, tasks[q]) => Fits(job, v)
  <2> DEFINE v == [tasks[q] EXCEPT !.stale = TRUE]
  <2>1. tasks[q] \in Tasks
    BY DEF Shape
  <2>2. /\ v \in Tasks /\ SameOrigin(v, tasks[q]) /\ SameKnowledge(v, tasks[q])
        /\ v.step = tasks[q].step
    BY <2>1 DEF Tasks, SameOrigin, SameKnowledge
  <2> HIDE DEF v
  <2>3. \A job : Fits(job, tasks[q]) => Fits(job, v)
    BY <2>2 DEF Fits, SameOrigin, SameKnowledge
  <2> QED
    BY <2>2, <2>3 DEF v
<1>2. \A q \in Requests : tasks[q] \in Tasks /\ SameOrigin(tasks[q], tasks[q])
  BY DEF Shape, SameOrigin
<1>3. ASSUME NEW q \in Requests \ {r}
      PROVE  \/ Staled(r, u)[q] = tasks[q]
             \/ Staled(r, u)[q] = [tasks[q] EXCEPT !.stale = TRUE]
  BY DEF Staled
<1>4. Staled(r, u)[r] = u
  BY DEF Staled
<1>5. ASSUME NEW q \in Requests \ {r}
      PROVE  /\ Staled(r, u)[q] \in Tasks
             /\ SameOrigin(Staled(r, u)[q], tasks[q])
             /\ \A job : Fits(job, tasks[q]) => Fits(job, Staled(r, u)[q])
  BY <1>1, <1>2, <1>3
<1>6. Staled(r, u) \in [Requests -> Tasks]
  <2>1. \A q \in Requests : Staled(r, u)[q] \in Tasks
    BY <1>4, <1>5
  <2> QED
    BY <2>1 DEF Staled
<1> QED
  BY <1>4, <1>5, <1>6

(* A transaction that fails on the chain changes nothing but the tasks. *)
LEMMA FailedExecution ==
  ASSUME ConsumerInv, NEW r \in Requests, tasks[r].step = "sign", UNCHANGED chain,
         tasks' = Staled(r, [tasks[r] EXCEPT !.step = "failed"])
  PROVE  ConsumerInv'
<1> DEFINE u == [tasks[r] EXCEPT !.step = "failed"]
<1>1. tasks[r] \in Tasks /\ Fits(jobs[r], tasks[r]) /\ Shape
  BY DEF ConsumerInv, Shape
<1>2. u \in Tasks /\ u.step = "failed" /\ SameOrigin(u, tasks[r]) /\ SameKnowledge(u, tasks[r])
  BY <1>1, StepTo DEF Steps
<1>3. tasks' = Staled(r, u) /\ UNCHANGED <<package, asks, usdc, jobs>>
  BY DEF chain
<1> HIDE DEF u
<1>4. Fits(jobs[r], u)
  BY <1>1, <1>2, FitsAt DEF AfterPurchase
<1>5. /\ tasks' \in [Requests -> Tasks] /\ tasks'[r] = u
      /\ \A q \in Requests \ {r} :
           /\ SameOrigin(tasks'[q], tasks[q])
           /\ Fits(jobs[q], tasks[q]) => Fits(jobs[q], tasks'[q])
  BY <1>1, <1>2, <1>3, StaledTasks
<1>6. Shape'
  BY <1>3, <1>5 DEF ConsumerInv, Shape
<1>7. \A q \in Requests : (Spent(q)' <=> Spent(q)) /\ tasks'[q].funded = tasks[q].funded
  BY <1>2, <1>3, <1>5 DEF Spent, Exists, SameOrigin
<1>8. PaysPerJob'
  BY <1>3, <1>7, NoMoney DEF ConsumerInv
<1>9. \A q \in Requests : jobs'[q].events \in History(jobs'[q].phase) /\ Fits(jobs'[q], tasks'[q])
  BY <1>3, <1>4, <1>5 DEF ConsumerInv
<1> QED
  BY <1>6, <1>8, <1>9 DEF ConsumerInv

(* Drawing on an ask leaves a sequence of asks, even if there were no such ask. *)
LEMMA DrawKeepsAsks ==
  ASSUME NEW s \in Seq(0 .. Stock), NEW a, s[a] >= 1
  PROVE  /\ [s EXCEPT ![a] = s[a] - 1] \in Seq(0 .. Stock)
         /\ Len([s EXCEPT ![a] = s[a] - 1]) = Len(s)
<1> DEFINE d == [s EXCEPT ![a] = s[a] - 1]
<1>0. Stock \in Nat
  BY ConsumerAssumption
<1>1. Len(s) \in Nat /\ s \in [1 .. Len(s) -> 0 .. Stock] /\ Stock \in Nat
  BY <1>0
<1>2. ASSUME NEW i \in 1 .. Len(s)
      PROVE  d[i] \in 0 .. Stock
  <2>1. s[i] \in 0 .. Stock /\ s[i] \in Int
    BY <1>1, <1>2
  <2>2. d[i] = IF i = a THEN s[a] - 1 ELSE s[i]
    BY <1>1, <1>2
  <2> HIDE DEF d
  <2> QED
    BY <1>1, <2>1, <2>2
<1>3. DOMAIN d = 1 .. Len(s) /\ d = [i \in 1 .. Len(s) |-> d[i]]
  BY <1>1
<1> HIDE DEF d
<1>4. d \in [1 .. Len(s) -> 0 .. Stock]
  BY <1>2, <1>3
<1>5. d \in Seq(0 .. Stock) /\ Len(d) = Len(s)
  <2>1. ASSUME NEW n \in Nat, NEW T, NEW e \in [1 .. n -> T]
        PROVE  e \in Seq(T) /\ Len(e) = n
    OBVIOUS
  <2> QED
    BY <1>1, <1>4, <2>1
<1> QED
  BY <1>5 DEF d

(* One that succeeds makes the job and takes its price, whether or not the reply arrives. *)
LEMMA CreatedExecution ==
  ASSUME ConsumerInv, NEW r \in Requests, tasks[r].step = "sign", Executes(tasks[r]),
         Created(r), package' = package, NEW s \in {"await", "spin", "failed"},
         tasks' = Staled(r, [tasks[r] EXCEPT !.step = s])
  PROVE  ConsumerInv'
<1> DEFINE u == [tasks[r] EXCEPT !.step = s]
           job == [jobs[r] EXCEPT !.phase = "open"]
<1>1. /\ tasks[r] \in Tasks /\ Fits(jobs[r], tasks[r]) /\ Shape /\ jobs[r] \in Jobs
      /\ jobs[r].events \in History(jobs[r].phase) /\ jobs[r].phase = "none" /\ ~Exists(r)
  BY NoJobYet DEF ConsumerInv, Shape, AfterPurchase
<1>2. u \in Tasks /\ u.step = s /\ SameOrigin(u, tasks[r]) /\ SameKnowledge(u, tasks[r])
  <2>1. s \in Steps
    BY DEF Steps
  <2> QED
    BY <1>1, <2>1, StepTo
<1>3. usdc \in Nat /\ usdc >= 1 /\ usdc' = usdc - 1
  BY <1>1 DEF Shape, Executes, Pays, DeepbookSwap, SplitEscrowCoin, Created
<1>4. /\ jobs' = [jobs EXCEPT ![r] = job]
      /\ job \in Jobs /\ job.phase = "open" /\ job.events = jobs[r].events
      /\ job.buried = jobs[r].buried
  <2>1. jobs' = [jobs EXCEPT ![r].phase = "open"]
    BY DEF Created
  <2> QED
    BY <1>1, <2>1 DEF Jobs
<1>5. tasks' = Staled(r, u)
  OBVIOUS
<1> HIDE DEF u, job
<1>6. /\ jobs' \in [Requests -> Jobs] /\ jobs'[r] = job
      /\ \A q \in Requests \ {r} : jobs'[q] = jobs[q]
  BY <1>1, <1>4 DEF Shape
<1>7. /\ tasks' \in [Requests -> Tasks] /\ tasks'[r] = u
      /\ \A q \in Requests \ {r} :
           /\ SameOrigin(tasks'[q], tasks[q])
           /\ Fits(jobs[q], tasks[q]) => Fits(jobs[q], tasks'[q])
  BY <1>1, <1>2, <1>5, StaledTasks
<1>8. asks' \in Seq(0 .. Stock) /\ Len(asks') <= MaxAsks
  <2>1. asks \in Seq(0 .. Stock) /\ Len(asks) <= MaxAsks
    BY <1>1 DEF Shape
  <2>2. CASE tasks[r].path # "ask"
    BY <2>1, <2>2 DEF Created
  <2>3. CASE tasks[r].path = "ask"
    <3> DEFINE a == tasks[r].ask
    <3>1. asks[a] >= 1 /\ asks' = [asks EXCEPT ![a] = asks[a] - 1]
      BY <2>3 DEF Executes, AskCovers, Created
    <3> HIDE DEF a
    <3> QED
      BY <2>1, <3>1, DrawKeepsAsks
  <2> QED
    BY <2>2, <2>3
<1>9. Shape'
  <2>1. usdc' \in Nat
    BY <1>3
  <2>2. \A q \in Requests : jobs'[q].buried <= Len(jobs'[q].events)
    BY <1>1, <1>4, <1>6 DEF Shape
  <2>3. package' \in Packages
    BY <1>1 DEF Shape
  <2> QED
    BY <1>6, <1>7, <1>8, <2>1, <2>2, <2>3 DEF Shape
<1>10. PaysPerJob'
  <2>1. ~Spent(r) /\ Spent(r)'
    BY <1>1, <1>4, <1>6 DEF Spent, Exists
  <2>2. /\ \A q \in Requests \ {r} : Spent(q)' <=> Spent(q)
        /\ \A q \in Requests : tasks'[q].funded = tasks[q].funded
    BY <1>2, <1>6, <1>7 DEF Spent, Exists, SameOrigin
  <2> QED
    BY <1>3, <2>1, <2>2, Purchase DEF ConsumerInv
<1>11. job.events \in History(job.phase)
  BY <1>1, <1>4 DEF History
<1>12. Fits(job, u)
  BY <1>1, <1>2, <1>4 DEF Fits, SameKnowledge, AfterPurchase, Attested
<1>13. \A q \in Requests : jobs'[q].events \in History(jobs'[q].phase) /\ Fits(jobs'[q], tasks'[q])
  BY <1>6, <1>7, <1>11, <1>12 DEF ConsumerInv
<1> QED
  BY <1>9, <1>10, <1>13 DEF ConsumerInv

(* A client builds its transaction and signs it. *)
LEMMA BuyStep ==
  ASSUME ConsumerInv, NEW r \in Requests, Buy(r)
  PROVE  ConsumerInv'
<1>1. ASSUME NEW client, Build(r, client)
      PROVE  ConsumerInv'
  <2> DEFINE u == [tasks[r] EXCEPT !.step = "sign", !.stale = FALSE]
  <2>1. tasks[r].step = "build" /\ tasks[r] \in Tasks /\ Fits(jobs[r], tasks[r])
    BY <1>1 DEF Build, Stand, ConsumerInv, Shape
  <2>2. /\ u \in Tasks /\ u.step = "sign"
        /\ SameOrigin(u, tasks[r]) /\ SameKnowledge(u, tasks[r])
    BY <2>1 DEF Tasks, Steps, SameOrigin, SameKnowledge
  <2>3. CASE Go(r, "failed")
    BY <2>3, Going DEF Steps, AfterPurchase
  <2>4. CASE Move(r, u)
    <3> HIDE DEF u
    <3>1. Fits(jobs[r], u)
      BY <2>1, <2>2, NoJobYet, FitsAt DEF AfterPurchase
    <3> QED
      BY <2>2, <2>4, <3>1, OneTask
  <2> QED
    BY <1>1, <2>3, <2>4 DEF Build
<1>2. ASSUME NEW client, NEW next \in {"await", "spin"}, Execute(r, client, next)
      PROVE  ConsumerInv'
  <2>1. CASE Go(r, "failed")
    BY <2>1, Going DEF Steps, AfterPurchase
  <2> QED
    BY <1>2, <2>1, FailedExecution, CreatedExecution DEF Execute, Stand
<1> QED
  BY <1>1, <1>2
     DEF Buy, CreateJob, CreateJobFromFill, DemoBuy, CliJobFromAsk, CliJobFromFill, CliBuy

-----------------------------------------------------------------------------
(* Starting *)

(* A fresh task fits the job it does not have yet. *)
LEMMA FreshFits ==
  ASSUME NEW job, job.phase = "none", NEW u, u.step \notin {"idle", "answered"},
         ~u.seen, ~u.paid, u.term = ""
  PROVE  Fits(job, u)
BY DEF Fits

(* The gateway and the demo start a task for nothing. *)
LEMMA BeginStep ==
  ASSUME ConsumerInv, NEW r \in Requests, tasks[r].step = "idle", UNCHANGED chain,
         NEW client \in AllClients, NEW path \in {"escrow", "ask", "fill"},
         NEW s \in {"input", "upload", "find", "refused"}, Begin(r, client, path, s)
  PROVE  ConsumerInv'
<1> DEFINE u == [NoTask EXCEPT !.client = client, !.path = path, !.step = s, !.funds = usdc]
<1>1. jobs[r].phase = "none" /\ ~Exists(r) /\ ~tasks[r].funded
  BY NoJobYet DEF AfterPurchase, ConsumerInv, Fits
<1>2. usdc \in 0 .. Limit /\ 0 \in 0 .. MaxAsks
  <2>1. MaxAsks \in Nat
    BY ConsumerAssumption
  <2> QED
    BY <2>1, BalanceBounded DEF ConsumerInv, Shape
<1>3. u \in Tasks
  BY <1>2 DEF NoTask, Tasks, Steps, Outputs
<1>4. u.step = s /\ ~u.seen /\ ~u.paid /\ u.term = "" /\ ~u.funded
  BY DEF NoTask
<1>5. /\ UNCHANGED <<package, asks, usdc, jobs>>
      /\ tasks' = [tasks EXCEPT ![r] = u]
  BY DEF Begin, chain
<1> HIDE DEF u
<1>6. /\ tasks' \in [Requests -> Tasks] /\ tasks'[r] = u
      /\ \A q \in Requests \ {r} : tasks'[q] = tasks[q]
  BY <1>3, <1>5 DEF ConsumerInv, Shape
<1>7. Shape'
  BY <1>5, <1>6 DEF ConsumerInv, Shape
<1>8. tasks'[r].funded = tasks[r].funded
  <2>1. tasks[r] \in Tasks
    BY DEF ConsumerInv, Shape
  <2> QED
    BY <1>1, <1>3, <1>4, <1>6, <2>1 DEF Tasks
<1>9. \A q \in Requests : (Spent(q)' <=> Spent(q)) /\ tasks'[q].funded = tasks[q].funded
  BY <1>1, <1>5, <1>6, <1>8 DEF Spent, Exists
<1>10. PaysPerJob'
  BY <1>5, <1>9, NoMoney DEF ConsumerInv
<1>11. Fits(jobs[r], u)
  BY <1>1, <1>4, FreshFits
<1>12. \A q \in Requests : jobs'[q].events \in History(jobs'[q].phase) /\ Fits(jobs'[q], tasks'[q])
  BY <1>5, <1>6, <1>11 DEF ConsumerInv
<1> QED
  BY <1>7, <1>10, <1>12 DEF ConsumerInv

(* The command line client may be given dollars before it starts. *)
LEMMA CliStartStep ==
  ASSUME ConsumerInv, NEW r \in Requests, NEW cfg \in Configs, CliStart(r, cfg)
  PROVE  ConsumerInv'
<1>1. PICK funded \in BOOLEAN, s \in {"input", "refused"} :
        /\ usdc' = usdc + (IF funded THEN 1 ELSE 0)
        /\ tasks' = [tasks EXCEPT ![r] =
             [NoTask EXCEPT !.client = "cli", !.path = BuyPath(cfg), !.funds = usdc',
                            !.funded = funded, !.step = s]]
  BY DEF CliStart, FundUsdc
<1> DEFINE u == [NoTask EXCEPT !.client = "cli", !.path = BuyPath(cfg), !.funds = usdc',
                               !.funded = funded, !.step = s]
<1>2. tasks[r].step = "idle" /\ UNCHANGED <<package, asks, jobs>>
  BY DEF CliStart
<1>3. jobs[r].phase = "none" /\ ~Exists(r) /\ ~tasks[r].funded /\ tasks[r] \in Tasks
  BY <1>2, NoJobYet DEF AfterPurchase, ConsumerInv, Shape, Fits
<1>4. u.step = s /\ ~u.seen /\ ~u.paid /\ u.term = "" /\ u.funded = funded
  BY DEF NoTask
<1>5. tasks' = [tasks EXCEPT ![r] = u]
  BY <1>1
<1>6. usdc \in Nat /\ usdc' \in Nat
  BY <1>1 DEF ConsumerInv, Shape
<1> HIDE DEF u
<1>7. tasks'[r] = u /\ \A q \in Requests \ {r} : tasks'[q] = tasks[q]
  BY <1>5 DEF ConsumerInv, Shape
<1>8. \A q \in Requests : Spent(q)' <=> Spent(q)
  BY <1>2, <1>3, <1>7 DEF Spent, Exists
<1>9. PaysPerJob'
  <2>1. CASE funded
    <3>1. usdc' = usdc + 1 /\ tasks'[r].funded
      BY <1>1, <1>4, <1>7, <2>1
    <3> QED
      BY <1>3, <1>6, <1>7, <1>8, <3>1, Given DEF ConsumerInv
  <2>2. CASE ~funded
    <3>1. usdc' = usdc /\ tasks'[r].funded = tasks[r].funded
      <4>1. usdc' = usdc
        BY <1>1, <1>6, <2>2
      <4>2. u.funded = tasks[r].funded
        <5>1. tasks[r].funded \in BOOLEAN
          BY <1>3 DEF Tasks
        <5> QED
          BY <1>3, <1>4, <2>2, <5>1
      <4> QED
        BY <1>7, <4>1, <4>2
    <3>2. \A q \in Requests : tasks'[q].funded = tasks[q].funded
      BY <1>7, <3>1
    <3> QED
      BY <1>8, <3>1, <3>2, NoMoney DEF ConsumerInv
  <2> QED
    BY <2>1, <2>2
<1>10. usdc' \in 0 .. Limit
  BY <1>6, <1>9, BalanceStaysBounded
<1>11. u \in Tasks
  <2>1. 0 \in 0 .. MaxAsks
    <3>1. MaxAsks \in Nat
      BY ConsumerAssumption
    <3> QED
      BY <3>1
  <2>2. BuyPath(cfg) \in {"ask", "fill"}
    <3>1. cfg.path \in {"", "ask", "fill"}
      BY ConsumerAssumption
    <3> QED
      BY <3>1 DEF BuyPath
  <2> QED
    BY <1>10, <2>1, <2>2 DEF u, NoTask, Tasks, Steps, Outputs, AllClients
<1>12. Shape'
  BY <1>2, <1>5, <1>6, <1>11 DEF ConsumerInv, Shape
<1>13. Fits(jobs[r], u)
  BY <1>3, <1>4, FreshFits
<1>14. \A q \in Requests : jobs'[q].events \in History(jobs'[q].phase) /\ Fits(jobs'[q], tasks'[q])
  BY <1>2, <1>7, <1>13 DEF ConsumerInv
<1> QED
  BY <1>9, <1>12, <1>14 DEF ConsumerInv

(* Whoever starts it, a task starts without a job. *)
LEMMA StartStep ==
  ASSUME ConsumerInv, NEW r \in Requests, Start(r)
  PROVE  ConsumerInv'
<1>1. ASSUME NEW body \in Bodies, ChatCompletions(r, body)
      PROVE  ConsumerInv'
  <2>1. PICK client \in {"localnet", "testnet"} :
          LET run == RunTask(client)
          IN  Begin(r, client, run.path,
                    IF ParsedBody(body) /\ ModelResolves(body) THEN run.step ELSE "refused")
    BY <1>1 DEF ChatCompletions
  <2>2. \E path \in {"escrow", "fill"}, s \in {"input", "upload", "refused"} :
          Begin(r, client, path, s)
    BY <2>1 DEF RunTask
  <2> QED
    BY <1>1, <2>2, BeginStep DEF ChatCompletions, AllClients
<1>2. ASSUME DemoStart(r)
      PROVE  ConsumerInv'
  BY <1>2, BeginStep DEF DemoStart, AllClients
<1> QED
  BY <1>1, <1>2, CliStartStep DEF Start

-----------------------------------------------------------------------------
(* The world *)

(* One job moves on: its task still fits it. *)
LEMMA OneJobMoves ==
  ASSUME ConsumerInv, NEW r \in Requests, NEW job \in Jobs, World(r, job), usdc' \in Nat,
         job.buried <= Len(job.events), job.events \in History(job.phase),
         Fits(job, tasks[r]), PaysPerJob'
  PROVE  ConsumerInv'
<1>1. /\ UNCHANGED <<package, asks, tasks>>
      /\ jobs' \in [Requests -> Jobs] /\ jobs'[r] = job
      /\ \A q \in Requests \ {r} : jobs'[q] = jobs[q]
  BY DEF World, ConsumerInv, Shape
<1>2. Shape'
  BY <1>1 DEF ConsumerInv, Shape
<1>3. \A q \in Requests : jobs'[q].events \in History(jobs'[q].phase) /\ Fits(jobs'[q], tasks'[q])
  BY <1>1 DEF ConsumerInv
<1> QED
  BY <1>2, <1>3 DEF ConsumerInv

(* While its phase is no refund, a job's progress costs nothing more. *)
LEMMA JobMovesUnpaid ==
  ASSUME ConsumerInv, NEW r \in Requests, NEW job, World(r, job), usdc' = usdc,
         \/ job.phase = jobs[r].phase
         \/ job.phase \notin {"none", "refunded"} /\ jobs[r].phase \notin {"none", "refunded"}
  PROVE  PaysPerJob' /\ usdc' \in Nat
<1>1. /\ tasks' = tasks /\ jobs'[r] = job
      /\ \A q \in Requests \ {r} : jobs'[q] = jobs[q]
  BY DEF World, ConsumerInv, Shape
<1>2. \A q \in Requests : (Spent(q)' <=> Spent(q)) /\ tasks'[q].funded = tasks[q].funded
  BY <1>1 DEF Spent, Exists
<1> QED
  BY <1>2, NoMoney DEF ConsumerInv, Shape

\* The phases a job enters with an event.
Reported == {"verified", "faulted", "settled", "refunded"}

(* A job whose history grows by an event. *)
LEMMA EventAppended ==
  ASSUME NEW job \in Jobs, job.buried <= Len(job.events), NEW e \in Events,
         NEW phase \in Reported
  PROVE  LET new == [job EXCEPT !.phase = phase, !.events = Append(@, e)]
         IN  /\ new \in Jobs /\ new.phase = phase /\ new.events = Append(job.events, e)
             /\ new.buried <= Len(new.events)
<1>1. /\ job.events \in Seq(Events) /\ Append(job.events, e) \in Seq(Events)
      /\ Len(Append(job.events, e)) = Len(job.events) + 1
      /\ Len(job.events) \in Nat /\ job.buried \in Nat
  BY DEF Jobs
<1> DEFINE events == Append(job.events, e)
           new == [job EXCEPT !.phase = phase, !.events = events]
<1>2. events \in Seq(Events)
  BY <1>1
<1> HIDE DEF events
<1>3. /\ new.phase = phase /\ new.events = events
      /\ new.buried = job.buried /\ new.served = job.served
  BY DEF Jobs
<1>4. new \in Jobs
  BY <1>2 DEF Jobs, Reported
<1> HIDE DEF new
<1>5. new.buried <= Len(new.events)
  BY <1>1, <1>3 DEF events
<1> QED
  BY <1>3, <1>4, <1>5 DEF new, events

(* Appending to the empty history and to a history of one event. *)
LEMMA ShortHistories ==
  ASSUME NEW a, NEW b
  PROVE  Append(<<>>, a) = <<a>> /\ Append(<<a>>, b) = <<a, b>>
<1>1. Append(<<a>>, b) = <<a, b>>
  <2> DEFINE s == Append(<<a>>, b)
             t == <<a, b>>
  <2>1. <<a>> \in Seq({a, b}) /\ Len(<<a>>) = 1 /\ <<a>>[1] = a
    OBVIOUS
  <2>2. s \in Seq({a, b}) /\ Len(s) = 2 /\ s[1] = a /\ s[2] = b
    BY <2>1, AppendProperties
  <2>3. t \in Seq({a, b}) /\ Len(t) = 2 /\ t[1] = a /\ t[2] = b
    OBVIOUS
  <2> HIDE DEF s, t
  <2>4. Len(s) = Len(t) /\ \A i \in 1 .. Len(s) : s[i] = t[i]
    BY <2>2, <2>3
  <2>5. s = t
    BY <2>2, <2>3, <2>4, SeqEqual
  <2> QED
    BY <2>5 DEF s, t
<1>2. Append(<<>>, a) = <<a>>
  OBVIOUS
<1> QED
  BY <1>1, <1>2

(* An attestation of an open job is its first event. *)
LEMMA AttestStep ==
  ASSUME ConsumerInv, NEW r \in Requests, Attest(r)
  PROVE  ConsumerInv'
<1>1. /\ jobs[r] \in Jobs /\ jobs[r].events \in History(jobs[r].phase)
      /\ Fits(jobs[r], tasks[r]) /\ jobs[r].buried <= Len(jobs[r].events)
  BY DEF ConsumerInv, Shape
<1>2. PICK phase \in {"verified", "faulted"} :
        World(r, [jobs[r] EXCEPT !.phase = phase, !.events = Append(@, "AttestationSubmitted")])
  BY DEF Attest
<1> DEFINE job == [jobs[r] EXCEPT !.phase = phase, !.events = Append(@, "AttestationSubmitted")]
<1>3. jobs[r].phase = "open" /\ jobs[r].events = <<>> /\ usdc' = usdc
  BY <1>1, HistoryTells DEF Attest
<1>4. /\ job \in Jobs /\ job.phase = phase
      /\ job.events = Append(jobs[r].events, "AttestationSubmitted")
      /\ job.buried <= Len(job.events)
  <2>1. "AttestationSubmitted" \in Events /\ phase \in Reported
    BY DEF Events, Reported
  <2>2. jobs[r] \in Jobs /\ jobs[r].buried <= Len(jobs[r].events)
    BY <1>1
  <2>3. ASSUME NEW e \in Events, NEW p \in Reported
        PROVE  LET new == [jobs[r] EXCEPT !.phase = p, !.events = Append(@, e)]
               IN  /\ new \in Jobs /\ new.phase = p /\ new.events = Append(jobs[r].events, e)
                   /\ new.buried <= Len(new.events)
    BY <2>2, EventAppended
  <2> QED
    BY <2>1, <2>3
<1>5. World(r, job)
  BY <1>2
<1> HIDE DEF job
<1>6. job.events = <<"AttestationSubmitted">>
  BY <1>3, <1>4, ShortHistories
<1>7. job.events \in History(job.phase)
  BY <1>4, <1>6 DEF History
<1>8. Attested(job)
  BY <1>4, <1>7, HistoryTells
<1>9. Fits(job, tasks[r])
  BY <1>1, <1>3, <1>4, <1>8 DEF Fits
<1>10. PaysPerJob' /\ usdc' \in Nat
  BY <1>3, <1>4, <1>5, JobMovesUnpaid
<1> QED
  BY <1>4, <1>5, <1>7, <1>9, <1>10, OneJobMoves

(* A verified job is settled; its task could not have heard of an end before. *)
LEMMA SettleStep ==
  ASSUME ConsumerInv, NEW r \in Requests, Settle(r)
  PROVE  ConsumerInv'
<1> DEFINE job == [jobs[r] EXCEPT !.phase = "settled", !.events = Append(@, "Settled")]
<1>1. /\ jobs[r] \in Jobs /\ jobs[r].events \in History(jobs[r].phase)
      /\ Fits(jobs[r], tasks[r]) /\ jobs[r].buried <= Len(jobs[r].events)
  BY DEF ConsumerInv, Shape
<1>2. /\ jobs[r].phase = "verified" /\ jobs[r].events = <<"AttestationSubmitted">>
      /\ usdc' = usdc
  BY <1>1, HistoryTells DEF Settle
<1>3. /\ job \in Jobs /\ job.phase = "settled"
      /\ job.events = Append(jobs[r].events, "Settled") /\ job.buried <= Len(job.events)
  BY <1>1, EventAppended DEF Events, Reported
<1>4. World(r, job)
  BY DEF Settle
<1> HIDE DEF job
<1>5. job.events = <<"AttestationSubmitted", "Settled">>
  BY <1>2, <1>3, ShortHistories
<1>6. job.events \in History(job.phase)
  BY <1>3, <1>5 DEF History
<1>7. Attested(job)
  BY <1>3, <1>6, HistoryTells
<1>8. Fits(job, tasks[r])
  BY <1>1, <1>2, <1>3, <1>7 DEF Fits
<1>9. PaysPerJob' /\ usdc' \in Nat
  BY <1>2, <1>3, <1>4, JobMovesUnpaid
<1> QED
  BY <1>3, <1>4, <1>6, <1>8, <1>9, OneJobMoves

(* A refund gives the escrow back, once; a fill's job had none. *)
LEMMA RefundStep ==
  ASSUME ConsumerInv, NEW r \in Requests, Refund(r)
  PROVE  ConsumerInv'
<1> DEFINE job == [jobs[r] EXCEPT !.phase = "refunded", !.events = Append(@, "Refunded")]
<1>1. /\ jobs[r] \in Jobs /\ jobs[r].events \in History(jobs[r].phase)
      /\ Fits(jobs[r], tasks[r]) /\ jobs[r].buried <= Len(jobs[r].events)
      /\ usdc \in Nat /\ PaysPerJob
  BY DEF ConsumerInv, Shape
<1>2. /\ jobs[r].phase \in {"open", "faulted"}
      /\ usdc' = IF tasks[r].path = "fill" THEN usdc ELSE usdc + 1
  BY DEF Refund
<1>3. /\ job \in Jobs /\ job.phase = "refunded"
      /\ job.events = Append(jobs[r].events, "Refunded") /\ job.buried <= Len(job.events)
  BY <1>1, EventAppended DEF Events, Reported
<1>4. World(r, job)
  BY DEF Refund
<1> HIDE DEF job
<1>5. /\ job.events \in {<<"Refunded">>, <<"AttestationSubmitted", "Refunded">>}
      /\ Attested(jobs[r]) => Attested(job)
  <2>1. CASE jobs[r].phase = "open"
    <3>1. jobs[r].events = <<>>
      BY <1>1, <2>1, HistoryTells
    <3> QED
      BY <1>3, <3>1, ShortHistories DEF Attested
  <2>2. CASE jobs[r].phase = "faulted"
    <3>1. jobs[r].events = <<"AttestationSubmitted">>
      BY <1>1, <2>2, HistoryTells
    <3>2. job.events = <<"AttestationSubmitted", "Refunded">>
      BY <1>3, <3>1, ShortHistories
    <3> QED
      BY <3>2 DEF Attested
  <2> QED
    BY <1>2, <2>1, <2>2
<1>6. job.events \in History(job.phase)
  BY <1>3, <1>5 DEF History
<1>7. Fits(job, tasks[r])
  BY <1>1, <1>2, <1>3, <1>5 DEF Fits
<1>8. /\ tasks' = tasks /\ jobs'[r] = job
      /\ \A q \in Requests \ {r} : jobs'[q] = jobs[q]
  BY <1>4 DEF World, ConsumerInv, Shape
<1>9. PaysPerJob' /\ usdc' \in Nat
  <2>1. \A q \in Requests \ {r} : Spent(q)' <=> Spent(q)
    BY <1>8 DEF Spent, Exists
  <2>2. Spent(r)
    BY <1>2 DEF Spent, Exists
  <2>3. CASE tasks[r].path = "fill"
    <3>1. Spent(r)'
      BY <1>3, <1>8, <2>3 DEF Spent, Exists
    <3>2. usdc' = usdc
      BY <1>2, <2>3
    <3> QED
      BY <1>1, <1>8, <2>1, <2>2, <3>1, <3>2, NoMoney
  <2>4. CASE tasks[r].path # "fill"
    <3>1. ~Spent(r)'
      BY <1>3, <1>8, <2>4 DEF Spent, Exists
    <3>2. usdc' = usdc + 1 /\ usdc' \in Nat
      BY <1>1, <1>2, <2>4
    <3> QED
      BY <1>1, <1>8, <2>1, <2>2, <3>1, <3>2, GivenBack
  <2> QED
    BY <2>3, <2>4
<1> QED
  BY <1>3, <1>4, <1>6, <1>7, <1>9, OneJobMoves

(* Events are buried and results served without the job's phase or history changing. *)
LEMMA WindowStep ==
  ASSUME ConsumerInv, NEW r \in Requests, Bury(r) \/ Serve(r)
  PROVE  ConsumerInv'
<1>1. /\ jobs[r] \in Jobs /\ jobs[r].events \in History(jobs[r].phase)
      /\ Fits(jobs[r], tasks[r]) /\ jobs[r].buried <= Len(jobs[r].events)
  BY DEF ConsumerInv, Shape
<1>2. PICK b \in 0 .. 2, o \in Outputs :
        /\ b <= Len(jobs[r].events)
        /\ World(r, [jobs[r] EXCEPT !.buried = b]) \/ World(r, [jobs[r] EXCEPT !.served = o])
  <2>1. CASE Bury(r)
    <3>1. Len(jobs[r].events) \in Nat /\ Len(jobs[r].events) <= 2 /\ jobs[r].buried \in Nat
      BY <1>1, HistoryTells DEF Jobs
    <3>2. jobs[r].buried + 1 \in 0 .. 2 /\ jobs[r].buried + 1 <= Len(jobs[r].events)
      BY <2>1, <3>1 DEF Bury
    <3>3. World(r, [jobs[r] EXCEPT !.buried = jobs[r].buried + 1])
      BY <2>1 DEF Bury
    <3> QED
      BY <3>2, <3>3 DEF Outputs
  <2>2. CASE Serve(r)
    <3>1. PICK o \in Outputs : World(r, [jobs[r] EXCEPT !.served = o])
      BY <2>2 DEF Serve, Outputs
    <3>2. jobs[r].buried \in 0 .. 2
      BY <1>1 DEF Jobs
    <3> QED
      BY <1>1, <3>1, <3>2
  <2> QED
    BY <2>1, <2>2
<1>3. ASSUME NEW job \in Jobs, World(r, job), job.phase = jobs[r].phase,
             job.events = jobs[r].events, job.buried <= Len(job.events)
      PROVE  ConsumerInv'
  <2>1. usdc' = usdc
    BY DEF Bury, Serve
  <2>2. Fits(job, tasks[r]) /\ job.events \in History(job.phase)
    BY <1>1, <1>3 DEF Fits, Attested
  <2>3. PaysPerJob' /\ usdc' \in Nat
    BY <1>3, <2>1, JobMovesUnpaid
  <2> QED
    BY <1>3, <2>2, <2>3, OneJobMoves
<1>4. CASE World(r, [jobs[r] EXCEPT !.buried = b])
  <2> DEFINE job == [jobs[r] EXCEPT !.buried = b]
  <2>1. /\ job \in Jobs /\ job.phase = jobs[r].phase /\ job.events = jobs[r].events
        /\ job.buried = b
    BY <1>1 DEF Jobs
  <2>2. World(r, job)
    BY <1>4
  <2> HIDE DEF job
  <2> QED
    BY <1>2, <1>3, <2>1, <2>2
<1>5. CASE World(r, [jobs[r] EXCEPT !.served = o])
  <2> DEFINE job == [jobs[r] EXCEPT !.served = o]
  <2>1. /\ job \in Jobs /\ job.phase = jobs[r].phase /\ job.events = jobs[r].events
        /\ job.buried = jobs[r].buried
    BY <1>1 DEF Jobs
  <2>2. World(r, job)
    BY <1>5
  <2> HIDE DEF job
  <2> QED
    BY <1>1, <1>3, <2>1, <2>2
<1> QED
  BY <1>2, <1>4, <1>5

(* Other traders post asks and draw on them. *)
LEMMA TradersStep ==
  ASSUME ConsumerInv, PostAsk \/ \E a \in DOMAIN asks : DrawElsewhere(a)
  PROVE  ConsumerInv'
<1>1. UNCHANGED <<package, usdc, jobs, tasks>>
  BY DEF PostAsk, DrawElsewhere
<1>2. asks' \in Seq(0 .. Stock) /\ Len(asks') <= MaxAsks
  <2>0. MaxAsks \in Nat /\ Stock \in Nat
    <3>1. MaxAsks \in Nat
      BY ConsumerAssumption
    <3>2. Stock \in Nat
      BY ConsumerAssumption
    <3> QED
      BY <3>1, <3>2
  <2>1. asks \in Seq(0 .. Stock) /\ Len(asks) <= MaxAsks /\ Len(asks) \in Nat
    BY DEF ConsumerInv, Shape
  <2>2. CASE PostAsk
    <3>1. Stock \in 0 .. Stock /\ Len(asks) < MaxAsks /\ asks' = Append(asks, Stock)
      BY <2>0, <2>2 DEF PostAsk
    <3> QED
      BY <2>0, <2>1, <3>1
  <2>3. ASSUME NEW a \in DOMAIN asks, DrawElsewhere(a)
        PROVE  asks' \in Seq(0 .. Stock) /\ Len(asks') <= MaxAsks
    <3>1. asks' = [asks EXCEPT ![a] = asks[a] - 1] /\ asks[a] > 0
      BY <2>3 DEF DrawElsewhere
    <3>2. asks[a] >= 1
      <4>1. asks[a] \in 0 .. Stock
        <5>1. DOMAIN asks = 1 .. Len(asks)
          BY <2>1
        <5>2. a \in 1 .. Len(asks)
          BY <5>1
        <5> QED
          BY <2>1, <5>2, ElementOfSeq
      <4> QED
        BY <2>0, <3>1, <4>1
    <3> QED
      BY <2>1, <3>1, <3>2, DrawKeepsAsks
  <2> QED
    BY <2>2, <2>3
<1>3. \A q \in Requests : (Spent(q)' <=> Spent(q)) /\ tasks'[q].funded = tasks[q].funded
  BY <1>1 DEF Spent, Exists
<1>4. PaysPerJob'
  BY <1>1, <1>3, NoMoney DEF ConsumerInv
<1> QED
  BY <1>1, <1>2, <1>4 DEF ConsumerInv, Shape

-----------------------------------------------------------------------------
(* The theorems *)

(* Nobody has started anything, so there is nothing to fit. *)
LEMMA InitConsumer == Init => ConsumerInv
<1> SUFFICES ASSUME Init PROVE ConsumerInv
  OBVIOUS
<1>0. Stock \in Nat /\ Budget \in Nat
  BY ConsumerAssumption
<1>1. MaxAsks \in Nat /\ MaxAsks # 0
  BY ConsumerAssumption
<1>2. /\ asks \in Seq(0 .. Stock) /\ Len(asks) <= MaxAsks /\ usdc \in Nat /\ package \in Packages
  BY <1>0, <1>1 DEF Init
<1>3. /\ jobs \in [Requests -> Jobs]
      /\ \A r \in Requests : jobs[r].phase = "none" /\ jobs[r].events = <<>> /\ jobs[r].buried = 0
  BY DEF Init, Jobs, Outputs
<1>4. /\ tasks \in [Requests -> Tasks]
      /\ \A r \in Requests : /\ tasks[r].step = "idle" /\ ~tasks[r].funded /\ ~tasks[r].seen
                             /\ tasks[r].term = "" /\ ~tasks[r].paid
  <2>1. 0 \in 0 .. MaxAsks /\ 0 \in 0 .. Limit
    BY <1>0, <1>1, CountsAreNat DEF Limit
  <2>2. NoTask \in Tasks
    BY <2>1 DEF NoTask, Tasks, AllClients, Steps, Outputs
  <2>3. /\ NoTask.step = "idle" /\ ~NoTask.funded /\ ~NoTask.seen
        /\ NoTask.term = "" /\ ~NoTask.paid
    BY DEF NoTask
  <2> QED
    BY <2>2, <2>3 DEF Init
<1>5. Shape
  <2>1. Len(<<>>) = 0
    OBVIOUS
  <2>2. \A r \in Requests : jobs[r].buried <= Len(jobs[r].events)
    BY <1>3, <2>1
  <2> QED
    BY <1>2, <1>3, <1>4, <2>2 DEF Shape
<1>6. PaysPerJob
  <2>1. Spenders = {} /\ Funders = {}
    BY <1>3, <1>4 DEF Spenders, Funders, Spent, Exists
  <2>2. Cardinality({}) = 0
    BY FS_EmptySet
  <2> QED
    BY <1>0, <2>1, <2>2 DEF PaysPerJob, Spenders, Funders, Init
<1>7. \A r \in Requests : jobs[r].events \in History(jobs[r].phase) /\ Fits(jobs[r], tasks[r])
  <2>1. <<>> \in History("none")
    BY DEF History
  <2> QED
    BY <1>3, <1>4, <2>1 DEF Fits
<1> QED
  BY <1>5, <1>6, <1>7 DEF ConsumerInv

(* Every task goes on fitting its job, and every dollar is accounted for. *)
LEMMA ConsumerInductive == ConsumerInv /\ [Next]_vars => ConsumerInv'
<1> SUFFICES ASSUME ConsumerInv, [Next]_vars PROVE ConsumerInv'
  OBVIOUS
<1>1. CASE WorldStep
  BY <1>1, TradersStep, AttestStep, SettleStep, RefundStep, WindowStep DEF WorldStep
<1>2. ASSUME NEW r \in Requests, Start(r) \/ Step(r)
      PROVE  ConsumerInv'
  BY <1>2, StartStep, PrepareStep, BuyStep, WaitStep, FinishStep DEF Step, Deadline
<1>3. CASE UNCHANGED vars
  BY <1>3 DEF vars, ConsumerInv, Shape, PaysPerJob, Spent, Exists
<1> QED
  BY <1>1, <1>2, <1>3 DEF Next

LEMMA ConsumerInvariant == Spec => []ConsumerInv
BY InitConsumer, ConsumerInductive, PTL DEF Spec

(* Every variable has its type: a wallet never holds more than it was given, a query never  *)
(* hides more events than there are.                                                        *)
THEOREM ConsumerTypeCorrect == Spec => []TypeOK
<1>1. ConsumerInv => TypeOK
  BY BalanceBounded DEF ConsumerInv, Shape, TypeOK
<1> QED
  BY <1>1, ConsumerInvariant, PTL

(* A task pays for its job exactly once, whatever is lost and however many tasks share the  *)
(* wallet (sdk runTask, examples buy paths).                                                *)
THEOREM TasksPayOnce == Spec => []PaysPerJob
<1>1. ConsumerInv => PaysPerJob
  BY DEF ConsumerInv
<1> QED
  BY <1>1, ConsumerInvariant, PTL

(* A client reports of its job only what the chain says of it (sdk awaitSettlement).        *)
THEOREM ReportsAreTrue == Spec => []TerminalIsTrue
<1>1. ConsumerInv => TerminalIsTrue
  BY DEF ConsumerInv, Fits, TerminalIsTrue, WasAttested, Attested, Cost
<1> QED
  BY <1>1, ConsumerInvariant, PTL

(* Once the attested hash came by, no other output is reported as verified (sdk verify).    *)
THEOREM TamperingShows == Spec => []TamperingDetected
<1>1. ConsumerInv => TamperingDetected
  <2> SUFFICES ASSUME ConsumerInv, NEW r \in Requests, tasks[r].seen, Success(tasks[r])
               PROVE  WasAttested(r) /\ tasks[r].output = "attested"
    BY DEF TamperingDetected
  <2>1. tasks[r].step = "answered" /\ tasks[r].verified
    BY DEF Success, ChatStatus, ExitCode
  <2> QED
    BY <2>1 DEF ConsumerInv, Fits, WasAttested, Attested
<1> QED
  BY <1>1, ConsumerInvariant, PTL

=============================================================================
