---------------------------- MODULE ConsumerTask ----------------------------
(***************************************************************************)
(* Buying one inference: the SDK (sdk/src) behind the OpenAI gateway        *)
(* (services/gateway), the no-GPU command line client and the SDK demo      *)
(* (examples).  A task is a program counter that stands at the task's next  *)
(* await; a step is what the client does up to the following one.  Tasks    *)
(* run at the same time and sign with one wallet, as the gateway's do:      *)
(* every purchase merges all its USDC coins, so a transaction built before  *)
(* another one landed is rejected.                                          *)
(*                                                                          *)
(* Of the chain there are the asks, each job as its creator can observe it, *)
(* and the event log as a window: a query returns the newest 200 events,    *)
(* older ones are buried.  The provider's HTTP server is not trusted: what  *)
(* /result serves may differ from what was attested.  The price is one unit *)
(* per SCU, a task buys one SCU; task r's job has the name r.               *)
(*                                                                          *)
(* Bounds: Requests, MaxAsks, Stock, Budget.                                *)
(***************************************************************************)
EXTENDS Naturals, Sequences, FiniteSets

CONSTANTS
  Requests,          \* the tasks
  Clients,           \* the programs that may start each of them
  Packages,          \* the Move packages the deployment may name
  Configs,           \* the configurations the command line client is run with
  MaxAsks, Stock,    \* asks posted, SCU behind each
  Budget,            \* USDC the wallet starts with
  OwnsStake,         \* does the wallet own the provider's stake and credits?
  Faulty             \* may an RPC, an HTTP call or a transaction's reply be lost?

AllClients == {"localnet", "testnet", "cli", "demo"}
Keys == {"providerUrl", "askId", "deepbookPoolId", "providerRecordId"}

ASSUME ConsumerAssumption ==
  /\ Clients \in [Requests -> SUBSET AllClients]
  /\ Packages \subseteq {"documented", "generic"}
  /\ Configs \subseteq [network : {"localnet", "testnet"}, path : {"", "ask", "fill"},
                        given : SUBSET Keys, fund : BOOLEAN, prompt : BOOLEAN]
  /\ IsFiniteSet(Requests) /\ MaxAsks \in Nat \ {0} /\ {Stock, Budget} \subseteq Nat
  /\ {OwnsStake, Faulty} \subseteq BOOLEAN

VARIABLES
  package,   \* the package behind deployment.packageId
  asks,      \* SCU remaining in each ask, in the order they were posted
  usdc,      \* the wallet's balance
  jobs,      \* the Job objects, their events and what is served for them
  tasks

vars  == <<package, asks, usdc, jobs, tasks>>
chain == <<package, asks, usdc, jobs>>

Outputs == {"attested", "other", "none"}
Events  == {"AttestationSubmitted", "Settled", "Refunded"}

\* events: the job's own, oldest first; buried: how many of them left the query window.
Jobs ==
  [phase : {"none", "open", "verified", "faulted", "settled", "refunded"},
   events : Seq(Events), buried : 0 .. 2, served : Outputs]

Steps == {"idle", "input", "upload", "find", "price", "build", "sign", "spin", "await",
          "blob", "result", "proof", "answered", "failed", "refused"}

Limit == Budget + Cardinality(Requests)

\* funds: the balance as read at the start; funded (history): did --fund mint; seen: was
\* an attestation's hash observed; term: the TerminalOutcome's state; paid: was a payout.
Tasks ==
  [client : AllClients, path : {"escrow", "ask", "fill"}, step : Steps, stale : BOOLEAN,
   ask : 0 .. MaxAsks, funds : 0 .. Limit, funded : BOOLEAN, seen : BOOLEAN,
   term : {"", "Settled", "Refunded", "Attested"}, paid : BOOLEAN, output : Outputs,
   verified : BOOLEAN]

NoTask ==
  [client |-> "demo", path |-> "ask", step |-> "idle", stale |-> FALSE, ask |-> 0, funds |-> 0,
   funded |-> FALSE, seen |-> FALSE, term |-> "", paid |-> FALSE, output |-> "none", verified |-> FALSE]

TypeOK ==
  /\ package \in Packages
  /\ asks \in Seq(0 .. Stock) /\ Len(asks) <= MaxAsks
  /\ usdc \in 0 .. Limit
  /\ jobs \in [Requests -> Jobs] /\ tasks \in [Requests -> Tasks]
  /\ \A r \in Requests : jobs[r].buried <= Len(jobs[r].events)

Init ==
  /\ package \in Packages /\ asks = <<Stock>> /\ usdc = Budget
  /\ jobs = [r \in Requests |-> [phase |-> "none", events |-> <<>>, buried |-> 0, served |-> "none"]]
  /\ tasks = [r \in Requests |-> NoTask]

Started(r) == tasks[r].step # "idle"
Ended(r)   == tasks[r].step \in {"answered", "failed", "refused"}
Exists(r)  == jobs[r].phase # "none"
Closed(r)  == jobs[r].phase \in {"settled", "refunded"}
WasAttested(r) == \E i \in DOMAIN jobs[r].events : jobs[r].events[i] = "AttestationSubmitted"

-----------------------------------------------------------------------------
(* The world: the provider, the settlement, other traders.  Bound: each part of it      *)
(* moves only while a task is about to read it; a refund, which moves money, always.    *)

Looking(r) == tasks[r].step \in {"find", "price", "build", "sign"}
Waiting(r) == tasks[r].step \in {"await", "spin"}

PostAsk ==
  /\ Len(asks) < MaxAsks /\ \E r \in Requests : tasks[r].step = "find"
  /\ asks' = Append(asks, Stock)
  /\ UNCHANGED <<package, usdc, jobs, tasks>>

DrawElsewhere(a) ==
  /\ asks[a] > 0 /\ \E r \in Requests : Looking(r) /\ tasks[r].path = "ask"
  /\ asks' = [asks EXCEPT ![a] = @ - 1]
  /\ UNCHANGED <<package, usdc, jobs, tasks>>

World(r, job) == jobs' = [jobs EXCEPT ![r] = job] /\ UNCHANGED <<package, asks, tasks>>

\* Found valid or at fault.
Attest(r) ==
  /\ jobs[r].phase = "open" /\ Waiting(r)
  /\ \E phase \in {"verified", "faulted"} :
       World(r, [jobs[r] EXCEPT !.phase = phase, !.events = Append(@, "AttestationSubmitted")])
  /\ UNCHANGED usdc

Settle(r) ==
  /\ jobs[r].phase = "verified" /\ Waiting(r)
  /\ World(r, [jobs[r] EXCEPT !.phase = "settled", !.events = Append(@, "Settled")])
  /\ UNCHANGED usdc

\* On a verdict of fault, or because nothing was attested in time; a job made by a fill
\* holds no escrow to give back.
Refund(r) ==
  /\ jobs[r].phase \in {"open", "faulted"}
  /\ World(r, [jobs[r] EXCEPT !.phase = "refunded", !.events = Append(@, "Refunded")])
  /\ usdc' = IF tasks[r].path = "fill" THEN usdc ELSE usdc + 1

\* Newer events of the package push the job's oldest visible one out of the window.
Bury(r) ==
  /\ jobs[r].buried < Len(jobs[r].events) /\ tasks[r].step \in {"await", "proof"}
  /\ World(r, [jobs[r] EXCEPT !.buried = @ + 1])
  /\ UNCHANGED usdc

\* The provider keeps a result once the inference is done, and loses it with the process.
Serve(r) ==
  /\ tasks[r].step = "result"
  /\ \E o \in (IF Faulty THEN Outputs ELSE {"attested"}) \ {jobs[r].served} :
       World(r, [jobs[r] EXCEPT !.served = o])
  /\ UNCHANGED usdc

-----------------------------------------------------------------------------
(* Starting a task *)

Begin(r, client, path, step) ==
  tasks' = [tasks EXCEPT ![r] = [NoTask EXCEPT !.client = client, !.path = path,
                                               !.step = step, !.funds = usdc]]

\* What a chat request can be: a body that does not parse, is too long, has no text in
\* its messages or asks for streaming; one that names a market of the deployment, or none.
Bodies == {"unreadable", "invalid", "unknown model", "default model", "market"}

\* messagesToPrompt needs one message with text, parseChatRequest refuses streams.
ParsedBody(body) == body \notin {"unreadable", "invalid"}

ModelResolves(body) == body # "unknown model"

\* GixClient.runTask: network-switched.
RunTask(client) ==
  IF client = "testnet" THEN [path |-> "fill", step |-> "upload"] ELSE [path |-> "escrow", step |-> "input"]

\* POST /v1/chat/completions: 400, or runTask with the gateway's own wallet.
ChatCompletions(r, body) ==
  /\ tasks[r].step = "idle"
  /\ \E client \in Clients[r] \cap {"localnet", "testnet"} :
       LET run == RunTask(client)
       IN Begin(r, client, run.path, IF ParsedBody(body) /\ ModelResolves(body) THEN run.step ELSE "refused")
  /\ UNCHANGED chain

\* The layers deployment.json, config.json, environment and flags; the path defaults to
\* the DeepBook fill on testnet.
BuyPath(cfg) ==
  IF cfg.path # "" THEN cfg.path ELSE IF cfg.network = "testnet" THEN "fill" ELSE "ask"

RequiredFor(cfg) ==
  {"providerUrl"} \cup
  (IF BuyPath(cfg) = "fill" THEN {"deepbookPoolId", "providerRecordId"} ELSE {"askId"})

MissingRequired(cfg) == RequiredFor(cfg) \ cfg.given

\* --fund mints before the balance is read; a mint that fails is reported, and ignored.
FundUsdc(cfg) == IF cfg.fund THEN BOOLEAN ELSE {FALSE}

\* The command line client up to its first POST: balances are read once, here.
CliStart(r, cfg) ==
  /\ tasks[r].step = "idle" /\ "cli" \in Clients[r]
  /\ \E funded \in FundUsdc(cfg) :
       /\ usdc' = usdc + (IF funded THEN 1 ELSE 0)
       /\ tasks' = [tasks EXCEPT ![r] =
            [NoTask EXCEPT !.client = "cli", !.path = BuyPath(cfg), !.funds = usdc', !.funded = funded,
                           !.step = IF ~cfg.prompt \/ MissingRequired(cfg) # {} THEN "refused" ELSE "input"]]
  /\ UNCHANGED <<package, asks, jobs>>

\* The demo reads balances and health, then looks for an ask.
DemoStart(r) ==
  /\ tasks[r].step = "idle" /\ "demo" \in Clients[r]
  /\ Begin(r, "demo", "ask", "find")
  /\ UNCHANGED chain

-----------------------------------------------------------------------------
(* Up to the purchase *)

Stand(r, client, step) == tasks[r].step = step /\ tasks[r].client = client
Move(r, task)  == tasks' = [tasks EXCEPT ![r] = task] /\ UNCHANGED chain
Go(r, step)    == Move(r, [tasks[r] EXCEPT !.step = step])

\* An HTTP or RPC call answers, or throws and ends the task.
Call(r, step) == \E s \in {step} \cup (IF Faulty THEN {"failed"} ELSE {}) : Go(r, s)

\* POST /inputs; a hash that differs from the local one is only warned about.
SubmitInput(r) == Stand(r, "localnet", "input") /\ Call(r, "build")

\* The client uses its own hash of the prompt whatever /inputs answers.
CliSubmitInput(r) == Stand(r, "cli", "input") /\ Call(r, "price")

UploadInput(r) == Stand(r, "testnet", "upload") /\ Call(r, "build")

\* The newest ask of the market that has SCU remaining.
LiveAsks == {a \in DOMAIN asks : asks[a] > 0}
FindLatestAsk(r) ==
  /\ Stand(r, "demo", "find")
  /\ IF LiveAsks = {}
     THEN Go(r, "failed")
     ELSE \E a \in LiveAsks :
            /\ \A b \in LiveAsks : b <= a
            /\ Move(r, [tasks[r] EXCEPT !.ask = a, !.step = "build"])

\* The configured ask's price and what remains of it; then the balance read at the start.
ReadAsk(r) ==
  /\ Stand(r, "cli", "price") /\ tasks[r].path = "ask"
  /\ IF asks[1] >= 1 /\ tasks[r].funds >= 1
     THEN Move(r, [tasks[r] EXCEPT !.ask = 1, !.step = "build"])
     ELSE Go(r, "failed")

\* With no mid price (the read failed, the book is empty) the whole balance is the cap.
DeepbookMidPrice == {0, 1}
SizeFill(r) ==
  /\ Stand(r, "cli", "price") /\ tasks[r].path = "fill"
  /\ \E mid \in DeepbookMidPrice :
       Go(r, IF mid > 0 /\ tasks[r].funds < 1 THEN "failed" ELSE "build")

-----------------------------------------------------------------------------
(* The purchase: one transaction *)

\* Type parameters and inline input of the entry functions, in the package of
\* contracts/sources and in the one contracts/README.md documents.
Entry(fn) ==
  [types |-> IF package = "generic" THEN 2 ELSE 1,
   input |-> fn = "create_job_from_ask" /\ package = "generic"]

\* What each client builds.
CreateJobPlan     == [fn |-> "create_job", types |-> 1, input |-> FALSE]
FillJobPlan       == [fn |-> "create_job_from_fill", types |-> 1, input |-> FALSE]
CreateJobFromAsk  == [fn |-> "create_job_from_ask", types |-> 2, input |-> TRUE]
CliJobFromAskPlan == [fn |-> "create_job_from_ask", types |-> 1, input |-> FALSE]
CliFillPlan       == [fn |-> "create_job_from_fill", types |-> 1, input |-> FALSE]

PlanOf(task) ==
  CASE task.client = "localnet" -> CreateJobPlan
    [] task.client = "testnet"  -> FillJobPlan
    [] task.client = "demo"     -> CreateJobFromAsk
    [] task.client = "cli" /\ task.path = "ask"  -> CliJobFromAskPlan
    [] task.client = "cli" /\ task.path = "fill" -> CliFillPlan

Matches(plan) == plan.types = Entry(plan.fn).types /\ plan.input = Entry(plan.fn).input

\* create_job takes the provider's stake and credit coin, which it looks up by owner.
ProviderObjectsUsable(task) == task.path = "escrow" => OwnsStake

\* Mutant: a balance below the price is not noticed.
SplitUnchecked == TRUE

\* The USDC is merged and the price split off: it must be there when the split runs.
SplitEscrowCoin == usdc >= 1

\* A fill spends its USDC in the pool's swap, in the same transaction.
DeepbookSwap == usdc >= 1

Pays(task) == IF task.path = "fill" THEN DeepbookSwap ELSE SplitEscrowCoin

AskCovers(task) == task.path = "ask" => asks[task.ask] >= 1

Executes(task) ==
  /\ Matches(PlanOf(task)) /\ ProviderObjectsUsable(task) /\ Pays(task) /\ AskCovers(task)

\* Building resolves the coins and runs the transaction dry.
Build(r, client) ==
  /\ Stand(r, client, "build")
  /\ IF Executes(tasks[r])
     THEN Move(r, [tasks[r] EXCEPT !.step = "sign", !.stale = FALSE])
     ELSE Go(r, "failed")

\* Another task's transaction changed the coins this one was built from.
Staled(r, task) ==
  [q \in Requests |-> IF q = r THEN task
                      ELSE IF tasks[q].step = "sign" THEN [tasks[q] EXCEPT !.stale = TRUE]
                      ELSE tasks[q]]

\* Mutant: the escrow is not split from the wallet's coins.
CreatedUnpaid(r) ==
  /\ jobs' = [jobs EXCEPT ![r].phase = "open"]
  /\ usdc' = usdc
  /\ asks' = IF tasks[r].path = "ask" THEN [asks EXCEPT ![tasks[r].ask] = @ - 1] ELSE asks

\* The job exists and the USDC has left the wallet, in one step.
Created(r) ==
  /\ jobs' = [jobs EXCEPT ![r].phase = "open"]
  /\ usdc' = usdc - 1
  /\ asks' = IF tasks[r].path = "ask" THEN [asks EXCEPT ![tasks[r].ask] = @ - 1] ELSE asks

\* Executed: the reply names the Job, or is lost and the client reports a failure.
Execute(r, client, next) ==
  /\ Stand(r, client, "sign")
  /\ UNCHANGED package
  /\ IF tasks[r].stale
     THEN Go(r, "failed")
     ELSE IF ~Executes(tasks[r])
     THEN tasks' = Staled(r, [tasks[r] EXCEPT !.step = "failed"]) /\ UNCHANGED chain
     ELSE /\ Created(r)
          /\ \E s \in {next} \cup (IF Faulty THEN {"failed"} ELSE {}) :
               tasks' = Staled(r, [tasks[r] EXCEPT !.step = s])

CreateJob(r)         == Build(r, "localnet") \/ Execute(r, "localnet", "await")
CreateJobFromFill(r) == Build(r, "testnet") \/ Execute(r, "testnet", "await")
DemoBuy(r)           == Build(r, "demo") \/ Execute(r, "demo", "spin")
CliBuy(r)            == Build(r, "cli") \/ Execute(r, "cli", "await")
CliJobFromAsk(r)     == tasks[r].path = "ask" /\ CliBuy(r)
CliJobFromFill(r)    == tasks[r].path = "fill" /\ CliBuy(r)

-----------------------------------------------------------------------------
(* Waiting for the end of the job *)

\* Mutant: the job id of an event is not compared.
QueryUnfiltered(r) == UNION {{jobs[q].events[i] : i \in DOMAIN jobs[q].events} : q \in Requests}

\* The newest 200 events of the package, filtered by the job's id.
QueryJobEvents(r) ==
  {jobs[r].events[i] : i \in (jobs[r].buried + 1) .. Len(jobs[r].events)}

Observed(task, events) == [task EXCEPT !.seen = @ \/ "AttestationSubmitted" \in events]

\* Settled before Refunded; Settled carries the output hash and the payout itself.
Outcome(task, events) ==
  IF "Settled" \in events THEN [task EXCEPT !.term = "Settled", !.seen = TRUE, !.paid = TRUE]
  ELSE IF "Refunded" \in events THEN [Observed(task, events) EXCEPT !.term = "Refunded"]
  ELSE Observed(task, events)

\* One poll: the terminal outcome, or what was attested is remembered and polling goes on.
Poll(r, next) ==
  LET task == Outcome(tasks[r], QueryJobEvents(r))
  IN Move(r, IF task.term = "" THEN task ELSE [task EXCEPT !.step = next])

\* Mutant: the deadline only counts once an attestation was seen.
ExpireNever(r, next, otherwise) ==
  Move(r, IF tasks[r].seen THEN [tasks[r] EXCEPT !.term = "Attested", !.step = next] ELSE tasks[r])

\* The deadline passes: an attestation that was seen is the outcome, otherwise it throws.
Expire(r, next, otherwise) ==
  Move(r, IF tasks[r].seen THEN [tasks[r] EXCEPT !.term = "Attested", !.step = next]
          ELSE [tasks[r] EXCEPT !.step = otherwise])

AwaitSettlement(r) ==
  \/ Stand(r, "localnet", "await") /\ (Poll(r, "result") \/ (Faulty /\ Go(r, "failed")))
  \/ Stand(r, "testnet", "await") /\ (Poll(r, "blob") \/ (Faulty /\ Go(r, "failed")))
CliAwaitSettlement(r) == Stand(r, "cli", "await") /\ (Poll(r, "result") \/ (Faulty /\ Go(r, "failed")))

SettleTimeout(r) ==
  \/ Stand(r, "localnet", "await") /\ Expire(r, "result", "failed")
  \/ Stand(r, "testnet", "await") /\ Expire(r, "blob", "failed")
  \/ Stand(r, "cli", "await") /\ Expire(r, "result", "failed")

\* The demo polls the Job's state with no deadline.
ReadJobState(r) ==
  /\ Stand(r, "demo", "spin")
  /\ \/ Closed(r) /\ Go(r, "result")
     \/ Faulty /\ Go(r, "failed")

-----------------------------------------------------------------------------
(* The result and its verification *)

\* sha2_256(output) against the hash at hand.
VerifyOutput(output, hash) == output = hash

\* Mutant: the provider's hash always wins.
ExpectedOfProvider(seen, output) == output

\* The hash the outcome carries, or else the one the provider states next to the output.
Expected(seen, output) == IF seen THEN "attested" ELSE output

Answered(r, output) ==
  Move(r, [tasks[r] EXCEPT !.step = "answered", !.output = output,
                           !.verified = VerifyOutput(output, Expected(tasks[r].seen, output))])

\* GET /result/:jobId until it answers; what is served is taken as it is.
AwaitResult(r) ==
  /\ tasks[r].client \in {"localnet", "testnet"} /\ tasks[r].step = "result"
  /\ jobs[r].served # "none" /\ Answered(r, jobs[r].served)

CliAwaitResult(r) ==
  Stand(r, "cli", "result") /\ jobs[r].served # "none" /\ Answered(r, jobs[r].served)

DemoAwaitResult(r) ==
  /\ Stand(r, "demo", "result") /\ jobs[r].served # "none"
  /\ Move(r, [tasks[r] EXCEPT !.output = jobs[r].served, !.step = "proof"])

ResultTimeout(r) == tasks[r].step = "result" /\ Go(r, "failed")

\* The blob an attested Job may name, against the outcome's hash; with neither, /result.
JobOutputBlobId(r) == {FALSE, WasAttested(r)}
DownloadAndVerify(r) == Answered(r, "attested")

OutputFromWalrus(r) ==
  /\ Stand(r, "testnet", "blob")
  /\ \E blob \in JobOutputBlobId(r) :
       IF blob /\ tasks[r].seen
       THEN DownloadAndVerify(r) \/ (Faulty /\ Go(r, "failed"))
       ELSE Go(r, "result")

\* Proofs 2 and 3 of the demo, the signature over what the provider states and the model
\* record: either may fail.
OtherProofs == BOOLEAN

\* Proof 1 of the demo: the settlement is awaited once more for its hash; whatever goes
\* wrong, the provider's hash takes its place.
DemoProof(r) ==
  /\ Stand(r, "demo", "proof")
  /\ \E others \in OtherProofs :
       LET task == Outcome(tasks[r], QueryJobEvents(r))
           done(t) == [t EXCEPT !.step = "answered",
                                !.verified = others /\ VerifyOutput(t.output, Expected(t.seen, t.output))]
       IN \/ Move(r, IF task.term = "" THEN task ELSE done(task))
          \/ Move(r, done([tasks[r] EXCEPT !.seen = FALSE]))

-----------------------------------------------------------------------------
(* What the programs answer *)

\* The gateway: 200 with the output, 400, or 502 for any failure after the checks.
ChatStatus(task) ==
  CASE task.step = "answered" -> 200 [] task.step = "refused" -> 400 [] OTHER -> 502

\* The command line client: 2 when the answer did not verify.
ExitCode(task) ==
  CASE task.step = "answered" -> IF task.verified THEN 0 ELSE 2 [] OTHER -> 1

\* The gateway's x-gix-cost-usdc is the payout observed; the command line client prints
\* what it escrowed when it observed none.
Cost(task) == IF task.paid THEN "payout" ELSE IF task.client = "cli" THEN "escrow" ELSE "none"

\* A program that says all is well.
Success(task) ==
  IF task.client \in {"localnet", "testnet"} THEN ChatStatus(task) = 200 /\ task.verified
  ELSE ExitCode(task) = 0

-----------------------------------------------------------------------------
WorldStep ==
  \/ PostAsk
  \/ \E a \in DOMAIN asks : DrawElsewhere(a)
  \/ \E r \in Requests : Attest(r) \/ Settle(r) \/ Refund(r) \/ Bury(r) \/ Serve(r)

Start(r) ==
  \/ \E body \in Bodies : ChatCompletions(r, body)
  \/ \E cfg \in Configs : CliStart(r, cfg)
  \/ DemoStart(r)

Prepare(r) ==
  SubmitInput(r) \/ CliSubmitInput(r) \/ UploadInput(r) \/ FindLatestAsk(r) \/ ReadAsk(r) \/ SizeFill(r)

Buy(r)      == CreateJob(r) \/ CreateJobFromFill(r) \/ DemoBuy(r) \/ CliJobFromAsk(r) \/ CliJobFromFill(r)
Wait(r)     == AwaitSettlement(r) \/ CliAwaitSettlement(r) \/ ReadJobState(r)
Deadline(r) == SettleTimeout(r) \/ ResultTimeout(r)
Finish(r)   == AwaitResult(r) \/ CliAwaitResult(r) \/ DemoAwaitResult(r) \/ OutputFromWalrus(r) \/ DemoProof(r)

Step(r) == Prepare(r) \/ Buy(r) \/ Wait(r) \/ Deadline(r) \/ Finish(r)
Next    == WorldStep \/ \E r \in Requests : Start(r) \/ Step(r)
Spec    == Init /\ [][Next]_vars

\* A program that stands at an await goes on, and its deadlines pass; nobody has to trade,
\* serve, attest or settle.
Proceed(r) == Prepare(r) \/ Buy(r) \/ Finish(r) \/ (Stand(r, "demo", "spin") /\ ReadJobState(r))
FairSpec ==
  Spec /\ \A r \in Requests : WF_vars(Proceed(r)) /\ WF_vars(Deadline(r))

-----------------------------------------------------------------------------
(* Properties *)

\* Money leaves the wallet only together with a job, and comes back only when an escrow is
\* refunded: whatever a client reports (a lost reply, a stale transaction, an ask drawn by
\* somebody else, a timeout), it never paid without a job to show, nor twice for one.
Spent(r) == Exists(r) /\ ~(jobs[r].phase = "refunded" /\ tasks[r].path # "fill")
PaysPerJob ==
  usdc + Cardinality({r \in Requests : Spent(r)})
    = Budget + Cardinality({r \in Requests : tasks[r].funded})

\* What a client tells of a job is the chain's: it says Settled, and reports a payout, only
\* of a job that is settled, Refunded only of one that is refunded, Attested only of one
\* that was attested, although it reads a window of a log all jobs share.
TerminalIsTrue ==
  \A r \in Requests :
    /\ tasks[r].term = "Settled" \/ Cost(tasks[r]) = "payout" => jobs[r].phase = "settled"
    /\ tasks[r].term = "Refunded" => jobs[r].phase = "refunded"
    /\ tasks[r].term = "Attested" => WasAttested(r)

\* An output that is not the attested one never leaves a client as verified when the hash
\* of the attestation came by before, whichever way the output came and however late.
TamperingDetected ==
  \A r \in Requests :
    tasks[r].seen /\ Success(tasks[r]) => WasAttested(r) /\ tasks[r].output = "attested"

\* A task ends whatever the provider and the network do; only the demo, which polls the
\* Job's state with no deadline, ends only if its job is closed.
TaskEnds ==
  \A r \in Requests :
    Started(r) ~> (Ended(r) \/ (tasks[r].client = "demo" /\ Exists(r) /\ ~Closed(r)))

\* Violated.  sdk/src/types.ts says of verified: "True iff sha2_256(output_utf8) equals the
\* on-chain output_hash recorded in the job's attestation"; without one, the clients
\* compare the output with the hash the provider sends next to it.
VerifiedIsAttested ==
  \A r \in Requests : tasks[r].verified => WasAttested(r)

=============================================================================
