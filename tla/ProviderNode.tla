---------------------------- MODULE ProviderNode ----------------------------
(***************************************************************************)
(* One provider node process (node/src): it comes up, registers, publishes  *)
(* an ask, follows the chain's Dispatched events on a cursor and serves     *)
(* each job it reads in an asynchronous task of its own; it may crash and   *)
(* come up again.                                                           *)
(*                                                                          *)
(* A task is a program counter that stands at the task's next await: a step *)
(* of a task is what serveJob does from one await to the next, so the steps *)
(* of all tasks, of the poll loop and of the start-up interleave.  Every    *)
(* transaction the node signs spends its gas coins and most of them its     *)
(* stake, all OWNED objects: it is built from the versions it reads, and is *)
(* rejected when another transaction of the node went through in between.   *)
(*                                                                          *)
(* The chain's side is the part of Exchange the node can tell apart, and    *)
(* Walrus, Ollama and the RPC are outcomes.  Prompts are named by their     *)
(* hash: job j commits to prompt j.  An output is the pair <<job, life>>.   *)
(*                                                                          *)
(* Bounds: JobIds, Foreign, PageSize and MaxLives.                          *)
(***************************************************************************)
EXTENDS Naturals, Sequences, FiniteSets

CONSTANTS
  JobIds,          \* jobs drawn from this provider's asks
  Offers,          \* the kinds each of them may be made as
  Foreign,         \* jobs dispatched to other providers
  PageSize,        \* events per query (50 in the code)
  MaxLives,        \* how often the process is started
  WalrusEnabled,   \* the testnet configuration
  Faulty,          \* may the RPC, Walrus and the start-up fail at all?
  NoOutput

Inputs == {"inline", "blob", "altered", "cached"}

\* What create_job, create_job_from_ask and create_job_from_fill can make: an escrow job
\* carries its input or leaves it to POST /inputs, a fill job names a Walrus blob, which
\* may hold something else than the job's input_hash says.
Kinds == [fill : {FALSE}, input : {"inline", "cached"}] \cup
         [fill : {TRUE}, input : {"blob", "altered"}]

ASSUME NodeAssumption ==
  /\ Offers \in [JobIds -> SUBSET Kinds]
  /\ JobIds \cap Foreign = {} /\ NoOutput \notin JobIds \X Nat
  /\ PageSize \in Nat \ {0} /\ MaxLives \in Nat \ {0}
  /\ WalrusEnabled \in BOOLEAN /\ Faulty \in BOOLEAN

VARIABLES
  chain,     \* Job objects: what the node reads or changes of them
  events,    \* the Dispatched events, oldest first
  key,       \* the key files: the life they were created in; 0 while there are none
  life,      \* how many times the process has been started
  main,      \* where main.ts stands
  listed,    \* the key whose ask is on the book; 0 while there is none
  born,      \* history: how many events there were when the anchor was asked for
  cursor,    \* position of the last event read; 0 is the null cursor
  tasks,     \* one serveJob call per job handed over in this life
  prompts,   \* NodeStore.promptByHash
  results    \* NodeStore.resultByJob

vars  == <<chain, events, key, life, main, listed, born, cursor, tasks, prompts, results>>
world == <<chain, events, listed>>
proc  == <<key, life, main, born, cursor>>
store == <<prompts, results>>

Outputs  == JobIds \X (1 .. MaxLives)
Waiting  == {"meta", "prompt", "ack", "infer", "upload", "submit", "settle"}

ChainJobs ==
  [provider : 0 .. MaxLives, phase : {"none", "dispatched", "executing", "verified", "closed"},
   fill : BOOLEAN, input : Inputs, late : BOOLEAN, valid : BOOLEAN, output : Outputs \cup {NoOutput}]

Tasks ==
  [pc : Waiting \cup {"idle", "hung", "done"}, fill : BOOLEAN, input : Inputs,
   stale : BOOLEAN, valid : BOOLEAN, excused : BOOLEAN]

NoTask ==
  [pc |-> "idle", fill |-> FALSE, input |-> "cached", stale |-> FALSE,
   valid |-> FALSE, excused |-> FALSE]

TypeOK ==
  /\ chain \in [JobIds -> ChainJobs] /\ events \in Seq(JobIds \cup Foreign)
  /\ life \in 1 .. MaxLives /\ key \in 0 .. life
  /\ main \in {"probe", "setup", "ask", "subscribe", "polling", "http", "down"}
  /\ listed \in 0 .. MaxLives /\ born \in Nat /\ cursor \in 0 .. Len(events)
  /\ tasks \in [JobIds -> Tasks]
  /\ \A j \in JobIds : tasks[j].stale => tasks[j].pc \in {"ack", "submit", "settle"}
  /\ prompts \subseteq JobIds /\ results \in [JobIds -> Outputs \cup {NoOutput}]

Init ==
  /\ chain = [j \in JobIds |-> [provider |-> 0, phase |-> "none", fill |-> FALSE,
                                input |-> "cached", late |-> FALSE, valid |-> FALSE, output |-> NoOutput]]
  /\ events = <<>> /\ key = 0 /\ life = 1 /\ main = "probe" /\ listed = 0
  /\ born = 0 /\ cursor = 0
  /\ tasks = [j \in JobIds |-> NoTask]
  /\ prompts = {} /\ results = [j \in JobIds |-> NoOutput]

Listening == main \notin {"probe", "down"}

-----------------------------------------------------------------------------
(* The world: consumers, the clock, other providers *)

\* A consumer draws a job from the ask, or makes one from a DeepBook fill.
Draw(j, kind) ==
  /\ listed # 0 /\ chain[j].phase = "none"
  /\ chain' = [chain EXCEPT ![j].provider = listed, ![j].phase = "dispatched", ![j].fill = kind.fill,
                            ![j].input = kind.input]
  /\ events' = Append(events, j)
  /\ UNCHANGED <<proc, listed, tasks, store>>

\* Bound: each of them once, and in the last life only.
DrawElsewhere(f) ==
  /\ life = MaxLives
  /\ \A i \in DOMAIN events : events[i] # f
  /\ events' = Append(events, f)
  /\ UNCHANGED <<chain, listed, proc, tasks, store>>

\* The deadline of the phase the job is in passes: acks, or attestations, abort from now on.
Lapse(j) ==
  /\ chain[j].phase \in {"dispatched", "executing"} /\ ~chain[j].late
  /\ chain' = [chain EXCEPT ![j].late = TRUE]
  /\ UNCHANGED <<events, listed, proc, tasks, store>>

\* POST /inputs: the prompt is cached under the hash of what was posted.  The consumer
\* of a job that carries or names its input does not call it.
PostInput(j) ==
  /\ Listening /\ j \notin prompts
  /\ \E kind \in Offers[j] : kind.input = "cached"
  /\ prompts' = prompts \cup {j}
  /\ UNCHANGED <<world, proc, tasks, results>>

-----------------------------------------------------------------------------
(* main.ts: coming up and going down *)

\* The key files are read, or made when there are none: a restart keeps the address and
\* the attestation key.
LoadedKey == IF key = 0 THEN life ELSE key

\* Ollama answers and has the model, or pulls it; a probe that fails is tolerated, but a
\* pull that breaks off is not an OllamaError and ends the process.
ProbeOutcomes == {"setup"} \cup (IF Faulty /\ life < MaxLives THEN {"down"} ELSE {})

\* The configuration and the keys are read and Ollama is probed; then HTTP listens.
Probe ==
  /\ main = "probe"
  /\ key' = LoadedKey
  /\ main' \in ProbeOutcomes
  /\ UNCHANGED <<world, life, born, cursor, tasks, store>>

\* NodeChain.setup: register, stake and take the new cap, record and stake.  When it
\* fails the node stays up without a chain.
Setup ==
  /\ main = "setup"
  /\ \/ main' = "ask"
     \/ Faulty /\ main' = "http"
  /\ UNCHANGED <<world, key, life, born, cursor, tasks, store>>

\* The ask is published; a failure is logged and the node serves without one.
PublishAsk ==
  /\ main = "ask"
  /\ main' = "subscribe"
  /\ listed' \in {key} \cup (IF Faulty THEN {listed} ELSE {})
  /\ UNCHANGED <<chain, events, key, life, born, cursor, tasks, store>>

\* The cursor starts at the newest event; when that query fails it starts at null.
Anchor ==
  /\ main = "subscribe"
  /\ main' = "polling"
  /\ born' = Len(events)
  /\ cursor' \in IF Faulty THEN {Len(events), 0} ELSE {Len(events)}
  /\ UNCHANGED <<world, key, life, tasks, store>>

\* Nothing the node holds about jobs survives: the cursor, the tasks and the store are
\* memory.  The shutdown handler also exits without waiting for the tasks.
Crash ==
  /\ life < MaxLives /\ main # "down"
  /\ main' = "down"
  /\ cursor' = 0 /\ born' = 0
  /\ tasks' = [j \in JobIds |-> NoTask]
  /\ prompts' = {} /\ results' = [j \in JobIds |-> NoOutput]
  /\ UNCHANGED <<world, key, life>>

Restart ==
  /\ main = "down"
  /\ life' = life + 1 /\ main' = "probe"
  /\ UNCHANGED <<world, key, born, cursor, tasks, store>>

-----------------------------------------------------------------------------
(* chain.ts: the event poll *)

PageEnd == IF cursor + PageSize < Len(events) THEN cursor + PageSize ELSE Len(events)

Mine(f) == f \in JobIds /\ chain[f].provider = key

\* Mutant: the batch begins one event late.
PageSkipsFirst == {f \in {events[i] : i \in cursor + 2 .. PageEnd} : Mine(f)}

\* The jobs of this provider on the next page.
Page == {f \in {events[i] : i \in cursor + 1 .. PageEnd} : Mine(f)}

\* Mutant: a job is served only after the one before it has ended.
SerialHandOver(batch) ==
  /\ \A j \in JobIds : tasks[j].pc \in {"idle", "done"}
  /\ tasks' = [j \in JobIds |-> IF j \in batch THEN [NoTask EXCEPT !.pc = "meta"]
                                ELSE tasks[j]]

\* Each job read starts a task; nothing waits for it.
HandOver(batch) ==
  tasks' = [j \in JobIds |-> IF j \in batch THEN [NoTask EXCEPT !.pc = "meta"] ELSE tasks[j]]

\* A query that fails leaves the cursor where it is: it is no step.
Poll ==
  /\ main = "polling" /\ cursor < Len(events)
  /\ HandOver(Page)
  /\ cursor' = PageEnd
  /\ UNCHANGED <<world, key, life, main, born, store>>

-----------------------------------------------------------------------------
(* chain.ts: transactions *)

At(j, pc) == tasks[j].pc = pc

\* A transaction is built as soon as a task comes to the step that sends it.
InTransaction(j) == tasks[j].pc \in {"ack", "submit", "settle"}

\* The task at pc; of one that has ended only the excuse is kept.
Gone(t, pc, excused) ==
  IF pc = "done" THEN [NoTask EXCEPT !.pc = "done", !.excused = t.excused \/ excused]
                 ELSE [t EXCEPT !.pc = pc, !.stale = FALSE]

\* Mutant: a task that builds nothing is marked too.
StaledAnyway(t) == [t EXCEPT !.stale = TRUE]

Staled(t) == [t EXCEPT !.stale = t.pc \in {"ack", "submit", "settle"}]

\* exec: j's transaction, built when the task came to this step, goes through and j's
\* task moves on to pc; what the other tasks have built is stale.
Signed(j, pc) ==
  [k \in JobIds |-> IF k = j THEN Gone(tasks[j], pc, FALSE) ELSE Staled(tasks[k])]

\* exec: the transaction is rejected, or the RPC fails, and nothing has happened.
Rejected(j, pc) ==
  /\ Faulty \/ tasks[j].stale
  /\ tasks' = [tasks EXCEPT ![j] = Gone(@, pc, TRUE)]
  /\ UNCHANGED chain

\* The start-up and the liquidity loops sign transactions as well.
OtherTransaction ==
  /\ main = "polling" /\ \E j \in JobIds : InTransaction(j) /\ ~tasks[j].stale
  /\ tasks' = [j \in JobIds |-> Staled(tasks[j])]
  /\ UNCHANGED <<world, proc, store>>

\* job::ack: only in time, or again.
AckedOnChain(job) ==
  CASE job.phase = "dispatched" /\ ~job.late -> [job EXCEPT !.phase = "executing"]
    [] OTHER -> job

\* Acknowledge, then go on whatever came of it: ackJob swallows every failure.
Ack(j) ==
  /\ At(j, "ack")
  /\ \/ /\ ~tasks[j].stale
        /\ chain' = [chain EXCEPT ![j] = AckedOnChain(@)]
        /\ tasks' = Signed(j, "infer")
     \/ Rejected(j, "infer")
  /\ UNCHANGED <<events, listed, proc, store>>

\* ack and submit_signed_attestation in one transaction.
Attestable(job) == ~job.late /\ job.phase \in {"dispatched", "executing"}

\* What is signed: the job, the prompt's hash and the output's, in the contract's layout.
Message(j) == [job |-> j, input |-> j, output |-> <<j, life>>]

\* The attestation is recorded and judged.  waitForTransaction may throw afterwards, and
\* the task then takes it for a failure.
Attest(j) ==
  /\ Attestable(chain[j])
  /\ \E valid \in BOOLEAN :
       /\ chain' = [chain EXCEPT ![j].phase = "verified", ![j].valid = valid,
                                 ![j].output = Message(j).output]
       /\ \/ tasks' = [Signed(j, "settle") EXCEPT ![j].valid = valid]
          \/ Faulty /\ tasks' = [Signed(j, "done") EXCEPT ![j].excused = TRUE]

\* A failed submission is logged and there is no settlement.
Submit(j) ==
  /\ At(j, "submit")
  /\ \/ ~tasks[j].stale /\ Attest(j)
     \/ /\ ~tasks[j].stale /\ ~Attestable(chain[j])
        /\ tasks' = Signed(j, "done")
        /\ UNCHANGED chain
     \/ Rejected(j, "done")
  /\ UNCHANGED <<events, listed, proc, store>>

\* Mutant: every job is settled as an escrow job.
CallsAsEscrow(t) == [fill |-> FALSE, valid |-> t.valid]

\* Which of settle, resolve_attested, settle_fill and resolve_fill is called.
SettlementCall(t) == [fill |-> t.fill, valid |-> t.valid]

\* The contract takes the call only for the kind and the verdict the job has.
Settles(call, job) ==
  job.phase = "verified" /\ call.fill = job.fill /\ call.valid = job.valid

\* A failed settlement is logged and not tried again.
Settle(j) ==
  /\ At(j, "settle")
  /\ \/ /\ ~tasks[j].stale
        /\ chain' = [chain EXCEPT ![j].phase =
                       IF Settles(SettlementCall(tasks[j]), chain[j]) THEN "closed" ELSE @]
        /\ tasks' = Signed(j, "done")
     \/ Rejected(j, "done")
  /\ UNCHANGED <<events, listed, proc, store>>

-----------------------------------------------------------------------------
(* serve.ts: one task *)

\* The job's kind and its input; when the read fails, what an M1 escrow job would have.
ReadMeta(j) ==
  /\ At(j, "meta")
  /\ \/ tasks' = [tasks EXCEPT ![j].pc = "prompt", ![j].fill = chain[j].fill,
                               ![j].input = chain[j].input]
     \/ Faulty /\ tasks' = [tasks EXCEPT ![j].pc = "prompt", ![j].excused = TRUE]
  /\ UNCHANGED <<world, proc, store>>

\* A blob is read or the read fails; what does not hash to the job's input is refused.
BlobRead(input) ==
  {IF input = "blob" THEN "read" ELSE "none"} \cup (IF Faulty THEN {"failed"} ELSE {})

\* What the search for the prompt can come to: the inline input, else Walrus, else the
\* cache, which is also what a failed Walrus read falls back to.
Found(j) ==
  LET cache == IF j \in prompts THEN "cached" ELSE "none" IN
  CASE tasks[j].input = "inline" -> {"read"}
    [] tasks[j].input \in {"blob", "altered"} /\ WalrusEnabled ->
         {IF read = "failed" THEN cache ELSE read : read \in BlobRead(tasks[j].input)}
    [] OTHER -> {cache}

ResolvePrompt(j) ==
  /\ At(j, "prompt")
  /\ \E found \in Found(j) :
       /\ prompts' = IF found = "read" THEN prompts \cup {j} ELSE prompts
       /\ tasks' = IF found = "none"
                     THEN [tasks EXCEPT ![j] = Gone(@, "done", TRUE)]
                     ELSE [tasks EXCEPT ![j].pc = "ack"]
  /\ UNCHANGED <<world, proc, results>>

\* Mutant: the result is stored only at the end.
StoreLater(j) == UNCHANGED results

\* The result is stored before anything else is awaited.
StoreResult(j) == results' = [results EXCEPT ![j] = <<j, life>>]

\* Ollama's answer.  The call has no timeout; an empty completion is an error.
Inference == {"completion", "error", "never"}

\* Inference, then hashing, signing and storing without an await in between.
Infer(j) ==
  /\ At(j, "infer")
  /\ \E answer \in Inference :
       \/ /\ answer = "completion"
          /\ tasks' = [tasks EXCEPT ![j].pc = IF WalrusEnabled THEN "upload" ELSE "submit"]
          /\ StoreResult(j)
       \/ /\ answer = "error"
          /\ tasks' = [tasks EXCEPT ![j] = Gone(@, "done", TRUE)]
          /\ UNCHANGED results
       \/ /\ answer = "never"
          /\ tasks' = [tasks EXCEPT ![j].pc = "hung"]
          /\ UNCHANGED results
  /\ UNCHANGED <<world, proc, prompts>>

\* Output and quote go to Walrus; a failure is logged and the blob ids stay 0.
Upload(j) ==
  /\ At(j, "upload")
  /\ tasks' = [tasks EXCEPT ![j].pc = "submit"]
  /\ UNCHANGED <<world, proc, store>>

TaskStep(j) ==
  \/ ReadMeta(j) \/ ResolvePrompt(j) \/ Ack(j) \/ Infer(j) \/ Upload(j)
  \/ Submit(j) \/ Settle(j)

-----------------------------------------------------------------------------
Consume ==
  \/ \E j \in JobIds : \E kind \in Offers[j] : Draw(j, kind)
  \/ \E f \in Foreign : DrawElsewhere(f)
  \/ \E j \in JobIds : PostInput(j) \/ Lapse(j)

StartUp == Probe \/ Setup \/ PublishAsk \/ Anchor

Next ==
  \/ Consume \/ StartUp \/ Crash \/ Restart \/ Poll \/ OtherTransaction
  \/ \E j \in JobIds : TaskStep(j)

\* The poll loop comes round for ever, and every awaited call but the inference returns
\* or throws: each task moves on its own.  Nothing makes a consumer act or the node crash.
Fairness ==
  /\ WF_vars(StartUp) /\ WF_vars(Poll)
  /\ \A j \in JobIds : WF_vars(TaskStep(j))

Spec == Init /\ [][Next]_vars
FairSpec == Spec /\ Fairness

-----------------------------------------------------------------------------
(* Properties *)

\* GET /result/:jobId.
Result(j) == IF Listening THEN results[j] ELSE NoOutput

AttestedNow(j) == chain[j].output # NoOutput /\ chain[j].output[2] = life

\* The poll hands over every job of this provider up to its cursor that was dispatched
\* since the process came up, and none beyond it: foreign events, page ends and failed
\* queries lose nothing (chain.ts:403-458).
NoEventSkipped ==
  main = "polling" =>
    \A i \in DOMAIN events : events[i] \in JobIds /\ i > born =>
      (i <= cursor <=> tasks[events[i]].pc # "idle")

\* Whoever sees a job attested or settled on the chain finds its output at the node that
\* attested it, and the same output (serve.ts:190-194), for as long as the process lives.
AttestedOutputIsServed ==
  \A j \in JobIds : AttestedNow(j) /\ main # "down" => Result(j) = chain[j].output

\* serveJob swallows every failure, so a job it leaves open must have a reason outside of
\* it: a deadline that passed, a read, a reply or a transaction that failed, or another
\* transaction of the same node that got in between (serve.ts:236-268).
OpenJobIsExcused ==
  \A j \in JobIds :
    /\ tasks[j].pc = "done" /\ chain[j].phase # "closed"
    /\ chain[j].output = NoOutput \/ AttestedNow(j)
    => \/ tasks[j].excused
       \/ chain[j].late /\ chain[j].output = NoOutput

\* A job dispatched to a node that polls is carried to an end of its own, whatever the
\* other jobs do: an inference that never returns holds up no job but its own
\* (serve.ts:12-13).
DispatchedIsServed ==
  \A j \in JobIds :
    (main = "polling" /\ \E i \in DOMAIN events : i > born /\ events[i] = j)
      ~> (tasks[j].pc \in {"hung", "done"} \/ main # "polling")

=============================================================================
