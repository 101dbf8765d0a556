----------------------------- MODULE NodeProofs -----------------------------
(***************************************************************************)
(* Theorems about the provider node, for any jobs, page size, number of     *)
(* restarts and configuration, with and without failures.                   *)
(***************************************************************************)
EXTENDS ProviderNode, TLAPS

-----------------------------------------------------------------------------
(* The inductive invariant *)

\* A task is under way only while the node polls.
TasksWhilePolling == main # "polling" => \A j \in JobIds : tasks[j].pc = "idle"

\* Nobody goes down in the last life.
LivesLeft == main = "down" => life < MaxLives

\* The result is in the store from the inference on.
ResultAtHand(j) == tasks[j].pc \in {"upload", "submit", "settle"} => results[j] = <<j, life>>

\* An output on the chain is of its job and of this life or an earlier one; one of this life
\* is in the store of the node that attested it, unless the node has gone down since.
Served(j) ==
  chain[j].output # NoOutput =>
    /\ chain[j].output = <<j, chain[j].output[2]>> /\ chain[j].output[2] \in 1 .. life
    /\ chain[j].output[2] = life =>
         main = "down" \/ (main = "polling" /\ results[j] = <<j, life>>)

\* What a task knows of its job is true, unless a read failed, and what it has yet to do
\* is not done.
Knows(j) ==
  /\ chain[j].output = NoOutput <=> chain[j].phase \in {"none", "dispatched", "executing"}
  /\ tasks[j].pc # "idle" => chain[j].phase # "none"
  /\ main # "down" /\ tasks[j].pc \notin {"settle", "done"} => ~AttestedNow(j)
  /\ tasks[j].pc \in Waiting \ {"meta"} /\ ~tasks[j].excused => tasks[j].fill = chain[j].fill
  /\ tasks[j].pc = "settle" =>
       AttestedNow(j) /\ chain[j].phase = "verified" /\ tasks[j].valid = chain[j].valid

\* The job a task has left open has a reason.
Excused(j) ==
  /\ tasks[j].pc = "done" /\ chain[j].phase # "closed"
  /\ chain[j].output = NoOutput \/ AttestedNow(j)
  => tasks[j].excused \/ (chain[j].late /\ chain[j].output = NoOutput)

TaskInv(j) == ResultAtHand(j) /\ Served(j) /\ Knows(j) /\ Excused(j)

\* Every job has one event, from the time it exists, and names the provider's key.
EventsName ==
  /\ listed # 0 => listed = key
  /\ \A i \in DOMAIN events :
       events[i] \in JobIds =>
         /\ key # 0 /\ chain[events[i]].provider = key /\ chain[events[i]].phase # "none"
         /\ \A k \in DOMAIN events : events[k] = events[i] => k = i

\* What was handed over lies up to the cursor, and what lies after the anchor up to the
\* cursor was handed over.
HandedOver ==
  main = "polling" =>
    \A i \in DOMAIN events :
      events[i] \in JobIds =>
        /\ tasks[events[i]].pc # "idle" => i <= cursor
        /\ i > born /\ i <= cursor => tasks[events[i]].pc # "idle"

NodeInv ==
  /\ TypeOK /\ LivesLeft /\ TasksWhilePolling /\ EventsName /\ HandedOver
  /\ \A j \in JobIds : TaskInv(j)

-----------------------------------------------------------------------------
(* Tasks and jobs as values *)

Places == Waiting \cup {"idle", "hung", "done"}

(* A task that has ended keeps its excuse only; any other keeps all but its transaction. *)
LEMMA GoneIs ==
  ASSUME NEW t \in Tasks, NEW pc \in Places
  PROVE  /\ Gone(t, pc, TRUE) \in Tasks /\ Gone(t, pc, TRUE).pc = pc /\ ~Gone(t, pc, TRUE).stale
         /\ Gone(t, pc, FALSE) \in Tasks /\ Gone(t, pc, FALSE).pc = pc /\ ~Gone(t, pc, FALSE).stale
         /\ pc # "done" => /\ Gone(t, pc, TRUE) = Gone(t, pc, FALSE)
                           /\ Gone(t, pc, TRUE).fill = t.fill /\ Gone(t, pc, TRUE).valid = t.valid
                           /\ Gone(t, pc, TRUE).excused = t.excused
         /\ pc = "done" => Gone(t, pc, TRUE).excused /\ Gone(t, pc, FALSE).excused = t.excused
<1>1. CASE pc = "done"
  <2>1. /\ Gone(t, pc, TRUE) = [NoTask EXCEPT !.pc = "done", !.excused = TRUE]
        /\ Gone(t, pc, FALSE) = [NoTask EXCEPT !.pc = "done", !.excused = t.excused]
    <3>1. (t.excused \/ TRUE) = TRUE /\ (t.excused \/ FALSE) = t.excused
      BY DEF Tasks
    <3> QED
      BY <1>1, <3>1 DEF Gone
  <2> QED
    BY <1>1, <2>1 DEF Tasks, NoTask, Inputs, Waiting
<1>2. CASE pc # "done"
  <2>1. /\ Gone(t, pc, TRUE) = [t EXCEPT !.pc = pc, !.stale = FALSE]
        /\ Gone(t, pc, FALSE) = [t EXCEPT !.pc = pc, !.stale = FALSE]
    BY <1>2 DEF Gone
  <2> QED
    BY <1>2, <2>1 DEF Tasks, Places
<1> QED
  BY <1>1, <1>2

(* Another transaction of the node touches no more of a task than what it has built. *)
LEMMA StaledIs ==
  ASSUME NEW t \in Tasks
  PROVE  /\ Staled(t) \in Tasks /\ Staled(t).pc = t.pc /\ Staled(t).fill = t.fill
         /\ Staled(t).valid = t.valid /\ Staled(t).excused = t.excused
         /\ Staled(t).stale => t.pc \in {"ack", "submit", "settle"}
<1>1. (t.pc \in {"ack", "submit", "settle"}) \in BOOLEAN
  OBVIOUS
<1>2. Staled(t) \in Tasks
  BY <1>1 DEF Staled, Tasks
<1>3. /\ Staled(t).pc = t.pc /\ Staled(t).fill = t.fill /\ Staled(t).valid = t.valid
      /\ Staled(t).excused = t.excused
  BY DEF Staled, Tasks
<1>4. Staled(t).stale <=> t.pc \in {"ack", "submit", "settle"}
  BY DEF Staled, Tasks
<1> QED
  BY <1>2, <1>3, <1>4

(* A job that is handed over starts at its first await. *)
LEMMA FreshTask ==
  /\ NoTask \in Tasks /\ NoTask.pc = "idle" /\ ~NoTask.stale
  /\ [NoTask EXCEPT !.pc = "meta"] \in Tasks /\ [NoTask EXCEPT !.pc = "meta"].pc = "meta"
  /\ ~[NoTask EXCEPT !.pc = "meta"].stale
BY DEF NoTask, Tasks, Waiting, Inputs

-----------------------------------------------------------------------------
(* What a step does to the tasks *)

TasksOK(f) ==
  /\ f \in [JobIds -> Tasks]
  /\ \A j \in JobIds : f[j].stale => f[j].pc \in {"ack", "submit", "settle"}

\* The step is none of j's own: at most what j's task has built is stale now.
Quiet(j) ==
  chain'[j] = chain[j] /\ results'[j] = results[j] /\ tasks'[j] \in {tasks[j], Staled(tasks[j])}

\* j's task goes on at pc with what it knew, or ends.
Carries(j, pc) ==
  /\ tasks'[j].pc = pc /\ tasks'[j].fill = tasks[j].fill /\ tasks'[j].valid = tasks[j].valid
  /\ tasks'[j].excused = tasks[j].excused

Ends(j) == tasks'[j].pc = "done" /\ tasks'[j].excused = tasks[j].excused

EndsExcused(j) == tasks'[j].pc = "done" /\ tasks'[j].excused

\* The node's own state and the log stay.
Steady == UNCHANGED <<events, listed, proc>>

(* A transaction that went through moves its own task and makes the others' stale. *)
LEMMA SignedIs ==
  ASSUME TasksOK(tasks), NEW j \in JobIds, NEW pc \in Places
  PROVE  /\ TasksOK(Signed(j, pc))
         /\ Signed(j, pc)[j] = Gone(tasks[j], pc, FALSE)
         /\ \A k \in JobIds \ {j} : Signed(j, pc)[k] = Staled(tasks[k])
<1>1. Signed(j, pc)[j] = Gone(tasks[j], pc, FALSE)
  BY DEF Signed
<1>2. \A k \in JobIds \ {j} : Signed(j, pc)[k] = Staled(tasks[k])
  BY DEF Signed
<1>3. /\ Gone(tasks[j], pc, FALSE) \in Tasks
      /\ ~Gone(tasks[j], pc, FALSE).stale
  BY GoneIs DEF TasksOK
<1>4. \A k \in JobIds : /\ Staled(tasks[k]) \in Tasks
                        /\ Staled(tasks[k]).stale => Staled(tasks[k]).pc \in {"ack", "submit", "settle"}
  BY StaledIs DEF TasksOK
<1>5. \A k \in JobIds : Signed(j, pc)[k] \in Tasks
  BY <1>1, <1>2, <1>3, <1>4
<1>6. Signed(j, pc) \in [JobIds -> Tasks]
  BY <1>5 DEF Signed
<1>7. \A k \in JobIds : Signed(j, pc)[k].stale => Signed(j, pc)[k].pc \in {"ack", "submit", "settle"}
  BY <1>1, <1>2, <1>3, <1>4
<1> QED
  BY <1>1, <1>2, <1>6, <1>7 DEF TasksOK

(* A transaction that was rejected has changed nothing but its own task. *)
LEMMA RejectedIs ==
  ASSUME TasksOK(tasks), NEW j \in JobIds, NEW pc \in Places, Rejected(j, pc)
  PROVE  /\ TasksOK(tasks') /\ chain' = chain
         /\ \A k \in JobIds \ {j} : tasks'[k] = tasks[k]
         /\ pc # "done" => Carries(j, pc)
         /\ pc = "done" => EndsExcused(j)
<1>1. chain' = chain /\ tasks' = [tasks EXCEPT ![j] = Gone(tasks[j], pc, TRUE)]
  BY DEF Rejected
<1>2. tasks[j] \in Tasks
  BY DEF TasksOK
<1>3. Gone(tasks[j], pc, TRUE) \in Tasks /\ ~Gone(tasks[j], pc, TRUE).stale
  BY <1>2, GoneIs
<1>4. TasksOK(tasks') /\ tasks'[j] = Gone(tasks[j], pc, TRUE)
      /\ \A k \in JobIds \ {j} : tasks'[k] = tasks[k]
  BY <1>1, <1>3 DEF TasksOK
<1>5. ASSUME pc # "done" PROVE Carries(j, pc)
  <2>1. /\ Gone(tasks[j], pc, TRUE).pc = pc /\ Gone(tasks[j], pc, TRUE).fill = tasks[j].fill
        /\ Gone(tasks[j], pc, TRUE).valid = tasks[j].valid
        /\ Gone(tasks[j], pc, TRUE).excused = tasks[j].excused
    BY <1>2, <1>5, GoneIs
  <2> QED
    BY <1>4, <2>1 DEF Carries
<1>6. ASSUME pc = "done" PROVE EndsExcused(j)
  <2>1. Gone(tasks[j], pc, TRUE).pc = pc /\ Gone(tasks[j], pc, TRUE).excused
    BY <1>2, <1>6, GoneIs
  <2> QED
    BY <1>4, <1>6, <2>1 DEF EndsExcused
<1> QED
  BY <1>1, <1>4, <1>5, <1>6

(* ReadMeta: a task learns its job's kind, or is excused for what it did not learn. *)
LEMMA ReadMetaIs ==
  ASSUME TypeOK, TasksOK(tasks), NEW j \in JobIds, ReadMeta(j)
  PROVE  /\ TasksOK(tasks') /\ \A k \in JobIds \ {j} : Quiet(k)
         /\ Steady /\ chain' = chain /\ prompts' = prompts /\ results' = results
         /\ tasks[j].pc = "meta" /\ tasks'[j].pc = "prompt"
         /\ tasks'[j].fill = chain[j].fill \/ tasks'[j].excused
<1>1. tasks[j] \in Tasks /\ chain[j] \in ChainJobs /\ tasks[j].pc = "meta" /\ ~tasks[j].stale
  BY DEF TypeOK, TasksOK, ReadMeta, At, Tasks
<1>2. chain[j].fill \in BOOLEAN /\ chain[j].input \in Inputs
  BY <1>1 DEF ChainJobs
<1> DEFINE read == [tasks[j] EXCEPT !.pc = "prompt", !.fill = chain[j].fill, !.input = chain[j].input]
           failed == [tasks[j] EXCEPT !.pc = "prompt", !.excused = TRUE]
<1>3. /\ read \in Tasks /\ read.pc = "prompt" /\ read.fill = chain[j].fill /\ ~read.stale
      /\ failed \in Tasks /\ failed.pc = "prompt" /\ failed.excused = TRUE /\ ~failed.stale
  BY <1>1, <1>2 DEF Tasks, Waiting
<1>4. tasks' = [tasks EXCEPT ![j] = read] \/ tasks' = [tasks EXCEPT ![j] = failed]
  BY DEF ReadMeta
<1>5. Steady /\ chain' = chain /\ prompts' = prompts /\ results' = results
  BY DEF ReadMeta, Steady, world, proc, store
<1> HIDE DEF read, failed
<1>6. /\ TasksOK(tasks') /\ tasks'[j] \in {read, failed}
      /\ \A k \in JobIds \ {j} : tasks'[k] = tasks[k]
  BY <1>3, <1>4 DEF TasksOK
<1> QED
  BY <1>1, <1>3, <1>5, <1>6 DEF Quiet

(* ResolvePrompt: a task finds its prompt, or ends excused. *)
LEMMA ResolvePromptIs ==
  ASSUME TypeOK, TasksOK(tasks), NEW j \in JobIds, ResolvePrompt(j)
  PROVE  /\ TasksOK(tasks') /\ \A k \in JobIds \ {j} : Quiet(k)
         /\ Steady /\ chain' = chain /\ prompts' \subseteq JobIds /\ results' = results
         /\ tasks[j].pc = "prompt"
         /\ Carries(j, "ack") \/ EndsExcused(j)
<1>1. tasks[j] \in Tasks /\ tasks[j].pc = "prompt" /\ ~tasks[j].stale
  BY DEF TypeOK, TasksOK, ResolvePrompt, At, Tasks
<1> DEFINE on == [tasks[j] EXCEPT !.pc = "ack"]
<1>2. /\ on \in Tasks /\ on.pc = "ack" /\ on.fill = tasks[j].fill /\ ~on.stale
      /\ on.valid = tasks[j].valid /\ on.excused = tasks[j].excused
  BY <1>1 DEF Tasks, Waiting
<1>3. "done" \in Places
  BY DEF Places
<1>4. Gone(tasks[j], "done", TRUE) \in Tasks /\ ~Gone(tasks[j], "done", TRUE).stale
  BY <1>1, <1>3, GoneIs
<1>5. \/ tasks' = [tasks EXCEPT ![j] = on]
      \/ tasks' = [tasks EXCEPT ![j] = Gone(tasks[j], "done", TRUE)]
  BY DEF ResolvePrompt
<1>6. Steady /\ chain' = chain /\ results' = results
  BY DEF ResolvePrompt, Steady, world, proc
<1>7. prompts' \subseteq JobIds
  BY DEF ResolvePrompt, TypeOK
<1> HIDE DEF on
<1>8. /\ TasksOK(tasks') /\ \A k \in JobIds \ {j} : tasks'[k] = tasks[k]
      /\ tasks'[j] = on \/ tasks'[j] = Gone(tasks[j], "done", TRUE)
  BY <1>2, <1>4, <1>5 DEF TasksOK
<1>9. tasks'[j] = on => Carries(j, "ack")
  BY <1>2 DEF Carries
<1>10. tasks'[j] = Gone(tasks[j], "done", TRUE) => EndsExcused(j)
  <2>1. Gone(tasks[j], "done", TRUE).pc = "done" /\ Gone(tasks[j], "done", TRUE).excused
    BY <1>1, <1>3, GoneIs
  <2> QED
    BY <2>1 DEF EndsExcused
<1> QED
  BY <1>1, <1>6, <1>7, <1>8, <1>9, <1>10 DEF Quiet

(* Upload: a task goes on to the submission. *)
LEMMA UploadIs ==
  ASSUME TypeOK, TasksOK(tasks), NEW j \in JobIds, Upload(j)
  PROVE  /\ TasksOK(tasks') /\ \A k \in JobIds \ {j} : Quiet(k)
         /\ Steady /\ chain' = chain /\ prompts' = prompts /\ results' = results
         /\ tasks[j].pc = "upload" /\ Carries(j, "submit")
<1>1. tasks[j] \in Tasks /\ tasks[j].pc = "upload" /\ ~tasks[j].stale
  BY DEF TypeOK, TasksOK, Upload, At, Tasks
<1> DEFINE on == [tasks[j] EXCEPT !.pc = "submit"]
<1>2. /\ on \in Tasks /\ on.pc = "submit" /\ on.fill = tasks[j].fill /\ ~on.stale
      /\ on.valid = tasks[j].valid /\ on.excused = tasks[j].excused
  BY <1>1 DEF Tasks, Waiting
<1>3. tasks' = [tasks EXCEPT ![j] = on]
  BY DEF Upload
<1>4. Steady /\ chain' = chain /\ prompts' = prompts /\ results' = results
  BY DEF Upload, Steady, world, proc, store
<1> HIDE DEF on
<1>5. TasksOK(tasks') /\ tasks'[j] = on /\ \A k \in JobIds \ {j} : tasks'[k] = tasks[k]
  BY <1>2, <1>3 DEF TasksOK
<1> QED
  BY <1>1, <1>2, <1>4, <1>5 DEF Quiet, Carries

(* An acknowledgement moves a job from dispatched to executing, or nothing at all. *)
LEMMA AckedIs ==
  ASSUME NEW c \in ChainJobs
  PROVE  /\ AckedOnChain(c) \in ChainJobs
         /\ AckedOnChain(c).provider = c.provider /\ AckedOnChain(c).fill = c.fill
         /\ AckedOnChain(c).output = c.output /\ AckedOnChain(c).late = c.late
         /\ AckedOnChain(c).valid = c.valid
         /\ \/ AckedOnChain(c).phase = c.phase
            \/ AckedOnChain(c).phase = "executing" /\ c.phase = "dispatched"
<1>1. CASE AckedOnChain(c) = c
  BY <1>1
<1>2. CASE c.phase = "dispatched" /\ AckedOnChain(c) = [c EXCEPT !.phase = "executing"]
  BY <1>2 DEF ChainJobs
<1> QED
  BY <1>1, <1>2 DEF AckedOnChain

(* Ack: the task goes on to the inference, whatever came of the call. *)
LEMMA AckIs ==
  ASSUME TypeOK, TasksOK(tasks), NEW j \in JobIds, Ack(j)
  PROVE  /\ TasksOK(tasks') /\ \A k \in JobIds \ {j} : Quiet(k)
         /\ Steady /\ prompts' = prompts /\ results' = results
         /\ chain' \in [JobIds -> ChainJobs]
         /\ tasks[j].pc = "ack" /\ Carries(j, "infer")
         /\ chain'[j] \in {chain[j], AckedOnChain(chain[j])}
<1>1. tasks[j] \in Tasks /\ chain[j] \in ChainJobs /\ tasks[j].pc = "ack"
  BY DEF TypeOK, TasksOK, Ack, At
<1>2. "infer" \in Places /\ "infer" # "done"
  BY DEF Places, Waiting
<1>3. Steady /\ prompts' = prompts /\ results' = results
  BY DEF Ack, Steady, proc, store
<1>4. CASE /\ chain' = [chain EXCEPT ![j] = AckedOnChain(chain[j])]
           /\ tasks' = Signed(j, "infer")
  <2>1. /\ TasksOK(tasks') /\ tasks'[j] = Gone(tasks[j], "infer", FALSE)
        /\ \A k \in JobIds \ {j} : tasks'[k] = Staled(tasks[k])
    BY <1>2, <1>4, SignedIs
  <2>2. Gone(tasks[j], "infer", FALSE) = Gone(tasks[j], "infer", TRUE)
    BY <1>1, <1>2, GoneIs
  <2>3. /\ tasks'[j].pc = "infer" /\ tasks'[j].fill = tasks[j].fill
        /\ tasks'[j].valid = tasks[j].valid /\ tasks'[j].excused = tasks[j].excused
    <3>1. /\ Gone(tasks[j], "infer", TRUE).pc = "infer"
          /\ Gone(tasks[j], "infer", TRUE).fill = tasks[j].fill
          /\ Gone(tasks[j], "infer", TRUE).valid = tasks[j].valid
          /\ Gone(tasks[j], "infer", TRUE).excused = tasks[j].excused
      BY <1>1, <1>2, GoneIs
    <3> QED
      BY <2>1, <2>2, <3>1
  <2>4. AckedOnChain(chain[j]) \in ChainJobs
    BY <1>1, AckedIs
  <2>5. /\ chain' \in [JobIds -> ChainJobs] /\ chain'[j] = AckedOnChain(chain[j])
        /\ \A k \in JobIds \ {j} : chain'[k] = chain[k]
    BY <1>4, <2>4 DEF TypeOK
  <2> QED
    BY <1>1, <1>3, <2>1, <2>3, <2>5 DEF Quiet, Carries
<1>5. CASE Rejected(j, "infer")
  <2>1. /\ TasksOK(tasks') /\ chain' = chain /\ Carries(j, "infer")
        /\ \A k \in JobIds \ {j} : tasks'[k] = tasks[k]
    BY <1>2, <1>5, RejectedIs
  <2> QED
    BY <1>1, <1>3, <2>1 DEF Quiet, TypeOK
<1> QED
  BY <1>4, <1>5 DEF Ack

(* Infer: a completion is stored and taken on; an error ends the task; a hung call keeps it. *)
LEMMA InferIs ==
  ASSUME TypeOK, TasksOK(tasks), NEW j \in JobIds, Infer(j)
  PROVE  /\ TasksOK(tasks') /\ \A k \in JobIds \ {j} : Quiet(k)
         /\ Steady /\ chain' = chain /\ prompts' = prompts
         /\ results' \in [JobIds -> Outputs \cup {NoOutput}]
         /\ tasks[j].pc = "infer"
         /\ \/ Carries(j, "upload") /\ results'[j] = <<j, life>>
            \/ Carries(j, "submit") /\ results'[j] = <<j, life>>
            \/ EndsExcused(j) /\ results' = results
            \/ tasks'[j].pc = "hung" /\ results' = results
<1>1. tasks[j] \in Tasks /\ tasks[j].pc = "infer" /\ ~tasks[j].stale
  BY DEF TypeOK, TasksOK, Infer, At, Tasks
<1>2. Steady /\ chain' = chain /\ prompts' = prompts
  BY DEF Infer, Steady, world, proc
<1>3. results \in [JobIds -> Outputs \cup {NoOutput}] /\ <<j, life>> \in Outputs
  BY DEF TypeOK, Outputs
<1>4. ASSUME NEW pc \in {"upload", "submit"}, tasks' = [tasks EXCEPT ![j].pc = pc], StoreResult(j)
      PROVE  /\ TasksOK(tasks') /\ \A k \in JobIds \ {j} : Quiet(k)
             /\ results' \in [JobIds -> Outputs \cup {NoOutput}]
             /\ Carries(j, pc) /\ results'[j] = <<j, life>>
  <2> DEFINE on == [tasks[j] EXCEPT !.pc = pc]
  <2>1. /\ on \in Tasks /\ on.pc = pc /\ on.fill = tasks[j].fill /\ ~on.stale
        /\ on.valid = tasks[j].valid /\ on.excused = tasks[j].excused
    BY <1>1 DEF Tasks, Waiting
  <2>2. tasks' = [tasks EXCEPT ![j] = on]
    BY <1>4
  <2> HIDE DEF on
  <2>3. TasksOK(tasks') /\ tasks'[j] = on /\ \A k \in JobIds \ {j} : tasks'[k] = tasks[k]
    BY <2>1, <2>2 DEF TasksOK
  <2>4. /\ results' \in [JobIds -> Outputs \cup {NoOutput}] /\ results'[j] = <<j, life>>
        /\ \A k \in JobIds \ {j} : results'[k] = results[k]
    BY <1>3, <1>4 DEF StoreResult
  <2> QED
    BY <1>2, <2>1, <2>3, <2>4 DEF Quiet, Carries
<1>5. ASSUME tasks' = [tasks EXCEPT ![j] = Gone(tasks[j], "done", TRUE)], results' = results
      PROVE  TasksOK(tasks') /\ (\A k \in JobIds \ {j} : Quiet(k)) /\ EndsExcused(j)
  <2>1. "done" \in Places
    BY DEF Places
  <2>2. /\ Gone(tasks[j], "done", TRUE) \in Tasks /\ ~Gone(tasks[j], "done", TRUE).stale
        /\ Gone(tasks[j], "done", TRUE).pc = "done" /\ Gone(tasks[j], "done", TRUE).excused
    BY <1>1, <2>1, GoneIs
  <2>3. /\ TasksOK(tasks') /\ tasks'[j] = Gone(tasks[j], "done", TRUE)
        /\ \A k \in JobIds \ {j} : tasks'[k] = tasks[k]
    BY <1>5, <2>2 DEF TasksOK
  <2> QED
    BY <1>2, <1>5, <2>2, <2>3 DEF Quiet, EndsExcused
<1>6. ASSUME tasks' = [tasks EXCEPT ![j].pc = "hung"], results' = results
      PROVE  TasksOK(tasks') /\ (\A k \in JobIds \ {j} : Quiet(k)) /\ tasks'[j].pc = "hung"
  <2> DEFINE on == [tasks[j] EXCEPT !.pc = "hung"]
  <2>1. on \in Tasks /\ on.pc = "hung" /\ ~on.stale
    BY <1>1 DEF Tasks
  <2>2. tasks' = [tasks EXCEPT ![j] = on]
    BY <1>6
  <2> HIDE DEF on
  <2>3. TasksOK(tasks') /\ tasks'[j] = on /\ \A k \in JobIds \ {j} : tasks'[k] = tasks[k]
    BY <2>1, <2>2 DEF TasksOK
  <2> QED
    BY <1>2, <1>6, <2>1, <2>3 DEF Quiet
<1>7. \/ \E pc \in {"upload", "submit"} : tasks' = [tasks EXCEPT ![j].pc = pc] /\ StoreResult(j)
      \/ tasks' = [tasks EXCEPT ![j] = Gone(tasks[j], "done", TRUE)] /\ results' = results
      \/ tasks' = [tasks EXCEPT ![j].pc = "hung"] /\ results' = results
  BY DEF Infer
<1>8. CASE \E pc \in {"upload", "submit"} : tasks' = [tasks EXCEPT ![j].pc = pc] /\ StoreResult(j)
  <2>1. PICK pc \in {"upload", "submit"} : tasks' = [tasks EXCEPT ![j].pc = pc] /\ StoreResult(j)
    BY <1>8
  <2>2. /\ TasksOK(tasks') /\ \A k \in JobIds \ {j} : Quiet(k)
        /\ results' \in [JobIds -> Outputs \cup {NoOutput}]
        /\ Carries(j, pc) /\ results'[j] = <<j, life>>
    BY <1>4, <2>1
  <2>3. pc = "upload" \/ pc = "submit"
    BY <2>1
  <2> QED
    BY <1>1, <1>2, <2>2, <2>3
<1> QED
  BY <1>1, <1>2, <1>3, <1>5, <1>6, <1>7, <1>8

(* What a settlement writes into the job. *)
LEMMA ClosedIs ==
  ASSUME NEW c \in ChainJobs
  PROVE  LET d == [c EXCEPT !.phase = "closed"]
         IN  /\ d \in ChainJobs /\ d.phase = "closed" /\ d.valid = c.valid /\ d.output = c.output
             /\ d.provider = c.provider /\ d.fill = c.fill /\ d.late = c.late
BY DEF ChainJobs

\* The attestation of this life's output is on the chain, with some verdict.
Recorded(j) ==
  /\ chain'[j].phase = "verified" /\ chain'[j].output = <<j, life>>
  /\ chain'[j].provider = chain[j].provider /\ chain'[j].fill = chain[j].fill
  /\ \/ /\ tasks'[j].pc = "settle" /\ tasks'[j].valid = chain'[j].valid
        /\ tasks'[j].fill = tasks[j].fill /\ tasks'[j].excused = tasks[j].excused
     \/ EndsExcused(j)

(* Submit: the attestation is recorded; or it comes too late; or the call fails. *)
LEMMA SubmitIs ==
  ASSUME TypeOK, TasksOK(tasks), NEW j \in JobIds, Submit(j)
  PROVE  /\ TasksOK(tasks') /\ \A k \in JobIds \ {j} : Quiet(k)
         /\ Steady /\ prompts' = prompts /\ results' = results
         /\ chain' \in [JobIds -> ChainJobs]
         /\ tasks[j].pc = "submit"
         /\ \/ Recorded(j)
            \/ ~Attestable(chain[j]) /\ chain' = chain /\ Ends(j)
            \/ chain' = chain /\ EndsExcused(j)
<1>1. /\ tasks[j] \in Tasks /\ chain[j] \in ChainJobs /\ tasks[j].pc = "submit"
      /\ <<j, life>> \in Outputs
  BY DEF TypeOK, TasksOK, Submit, At, Outputs
<1>2. "done" \in Places /\ "settle" \in Places /\ "settle" # "done"
  BY DEF Places, Waiting
<1>3. Steady /\ prompts' = prompts /\ results' = results
  BY DEF Submit, Steady, proc, store
<1>4. ASSUME NEW v \in BOOLEAN,
             chain' = [chain EXCEPT ![j].phase = "verified", ![j].valid = v, ![j].output = <<j, life>>]
      PROVE  /\ chain' \in [JobIds -> ChainJobs] /\ chain'[j].valid = v
             /\ chain'[j].phase = "verified" /\ chain'[j].output = <<j, life>>
             /\ chain'[j].provider = chain[j].provider /\ chain'[j].fill = chain[j].fill
             /\ \A k \in JobIds \ {j} : chain'[k] = chain[k]
  <2> DEFINE d == [chain[j] EXCEPT !.phase = "verified", !.valid = v, !.output = <<j, life>>]
  <2>1. /\ d \in ChainJobs /\ d.phase = "verified" /\ d.valid = v /\ d.output = <<j, life>>
        /\ d.provider = chain[j].provider /\ d.fill = chain[j].fill
    BY <1>1, <1>4 DEF ChainJobs
  <2>2. chain' = [chain EXCEPT ![j] = d]
    BY <1>1, <1>4 DEF TypeOK
  <2> HIDE DEF d
  <2>3. /\ chain' \in [JobIds -> ChainJobs] /\ chain'[j] = d
        /\ \A k \in JobIds \ {j} : chain'[k] = chain[k]
    BY <2>1, <2>2 DEF TypeOK
  <2> QED
    BY <2>1, <2>3
<1>5. ASSUME NEW v \in BOOLEAN, tasks' = [Signed(j, "settle") EXCEPT ![j].valid = v]
      PROVE  /\ TasksOK(tasks') /\ tasks'[j].pc = "settle" /\ tasks'[j].valid = v
             /\ tasks'[j].fill = tasks[j].fill /\ tasks'[j].excused = tasks[j].excused
             /\ \A k \in JobIds \ {j} : tasks'[k] = Staled(tasks[k])
  <2> DEFINE f == Signed(j, "settle")
             t == [f[j] EXCEPT !.valid = v]
  <2>1. TasksOK(f) /\ f[j] = Gone(tasks[j], "settle", FALSE)
        /\ \A k \in JobIds \ {j} : f[k] = Staled(tasks[k])
    BY <1>2, SignedIs
  <2>2. /\ Gone(tasks[j], "settle", TRUE) \in Tasks
        /\ Gone(tasks[j], "settle", TRUE).pc = "settle" /\ ~Gone(tasks[j], "settle", TRUE).stale
        /\ Gone(tasks[j], "settle", TRUE).fill = tasks[j].fill
        /\ Gone(tasks[j], "settle", TRUE).excused = tasks[j].excused
    BY <1>1, <1>2, GoneIs
  <2>3. Gone(tasks[j], "settle", FALSE) = Gone(tasks[j], "settle", TRUE)
    BY <1>1, <1>2, GoneIs
  <2>4. /\ f[j] \in Tasks /\ f[j].pc = "settle" /\ ~f[j].stale /\ f[j].fill = tasks[j].fill
        /\ f[j].excused = tasks[j].excused
    BY <2>1, <2>2, <2>3
  <2>5. tasks' = [f EXCEPT ![j] = t]
    BY <1>5
  <2> HIDE DEF f
  <2>6. /\ t \in Tasks /\ t.pc = "settle" /\ t.valid = v /\ ~t.stale
        /\ t.fill = tasks[j].fill /\ t.excused = tasks[j].excused
    BY <2>4 DEF Tasks
  <2> HIDE DEF t
  <2>7. TasksOK(tasks') /\ tasks'[j] = t /\ \A k \in JobIds \ {j} : tasks'[k] = Staled(tasks[k])
    BY <2>1, <2>5, <2>6 DEF TasksOK
  <2> QED
    BY <2>6, <2>7
<1>6. ASSUME tasks' = [Signed(j, "done") EXCEPT ![j].excused = TRUE]
      PROVE  /\ TasksOK(tasks') /\ EndsExcused(j)
             /\ \A k \in JobIds \ {j} : tasks'[k] = Staled(tasks[k])
  <2> DEFINE f == Signed(j, "done")
             t == [f[j] EXCEPT !.excused = TRUE]
  <2>1. TasksOK(f) /\ f[j] = Gone(tasks[j], "done", FALSE)
        /\ \A k \in JobIds \ {j} : f[k] = Staled(tasks[k])
    BY <1>2, SignedIs
  <2>2. f[j] \in Tasks /\ f[j].pc = "done" /\ ~f[j].stale
    <3>1. /\ Gone(tasks[j], "done", FALSE) \in Tasks /\ Gone(tasks[j], "done", FALSE).pc = "done"
          /\ ~Gone(tasks[j], "done", FALSE).stale
      BY <1>1, <1>2, GoneIs
    <3> QED
      BY <2>1, <3>1
  <2>3. tasks' = [f EXCEPT ![j] = t]
    BY <1>6
  <2> HIDE DEF f
  <2>4. t \in Tasks /\ t.pc = "done" /\ t.excused /\ ~t.stale
    BY <2>2 DEF Tasks
  <2> HIDE DEF t
  <2>5. TasksOK(tasks') /\ tasks'[j] = t /\ \A k \in JobIds \ {j} : tasks'[k] = Staled(tasks[k])
    BY <2>1, <2>3, <2>4 DEF TasksOK
  <2> QED
    BY <2>4, <2>5 DEF EndsExcused
<1>7. CASE Attest(j)
  <2>1. PICK v \in BOOLEAN :
          /\ chain' = [chain EXCEPT ![j].phase = "verified", ![j].valid = v, ![j].output = <<j, life>>]
          /\ \/ tasks' = [Signed(j, "settle") EXCEPT ![j].valid = v]
             \/ tasks' = [Signed(j, "done") EXCEPT ![j].excused = TRUE]
    BY <1>7 DEF Attest, Message
  <2>2. /\ chain' \in [JobIds -> ChainJobs] /\ chain'[j].valid = v
        /\ chain'[j].phase = "verified" /\ chain'[j].output = <<j, life>>
        /\ chain'[j].provider = chain[j].provider /\ chain'[j].fill = chain[j].fill
        /\ \A k \in JobIds \ {j} : chain'[k] = chain[k]
    BY <1>4, <2>1
  <2>3. CASE tasks' = [Signed(j, "settle") EXCEPT ![j].valid = v]
    <3>1. /\ TasksOK(tasks') /\ tasks'[j].pc = "settle" /\ tasks'[j].valid = v
          /\ tasks'[j].fill = tasks[j].fill /\ tasks'[j].excused = tasks[j].excused
          /\ \A k \in JobIds \ {j} : tasks'[k] = Staled(tasks[k])
      BY <1>5, <2>3
    <3> QED
      BY <1>1, <1>3, <2>2, <3>1 DEF Recorded, Quiet
  <2>4. CASE tasks' = [Signed(j, "done") EXCEPT ![j].excused = TRUE]
    <3>1. /\ TasksOK(tasks') /\ EndsExcused(j)
          /\ \A k \in JobIds \ {j} : tasks'[k] = Staled(tasks[k])
      BY <1>6, <2>4
    <3> QED
      BY <1>1, <1>3, <2>2, <3>1 DEF Recorded, Quiet
  <2> QED
    BY <2>1, <2>3, <2>4
<1>8. CASE ~Attestable(chain[j]) /\ tasks' = Signed(j, "done") /\ chain' = chain
  <2>1. TasksOK(tasks') /\ tasks'[j] = Gone(tasks[j], "done", FALSE)
        /\ \A k \in JobIds \ {j} : tasks'[k] = Staled(tasks[k])
    BY <1>2, <1>8, SignedIs
  <2>2. /\ Gone(tasks[j], "done", FALSE).pc = "done"
        /\ Gone(tasks[j], "done", FALSE).excused = tasks[j].excused
    BY <1>1, <1>2, GoneIs
  <2>3. Ends(j)
    BY <2>1, <2>2 DEF Ends
  <2> QED
    BY <1>1, <1>3, <1>8, <2>1, <2>3 DEF Quiet, TypeOK
<1>9. CASE Rejected(j, "done")
  <2>1. /\ TasksOK(tasks') /\ chain' = chain /\ EndsExcused(j)
        /\ \A k \in JobIds \ {j} : tasks'[k] = tasks[k]
    BY <1>2, <1>9, RejectedIs
  <2> QED
    BY <1>1, <1>3, <2>1 DEF Quiet, TypeOK
<1>10. Attest(j) \/ (~Attestable(chain[j]) /\ tasks' = Signed(j, "done") /\ chain' = chain)
       \/ Rejected(j, "done")
  BY DEF Submit
<1> QED
  BY <1>7, <1>8, <1>9, <1>10

(* Settle: the job is closed if the call fits it; the task ends, excused if the call failed. *)
LEMMA SettleIs ==
  ASSUME TypeOK, TasksOK(tasks), NEW j \in JobIds, Settle(j)
  PROVE  /\ TasksOK(tasks') /\ \A k \in JobIds \ {j} : Quiet(k)
         /\ Steady /\ prompts' = prompts /\ results' = results
         /\ chain' \in [JobIds -> ChainJobs]
         /\ tasks[j].pc = "settle"
         /\ chain'[j].provider = chain[j].provider /\ chain'[j].fill = chain[j].fill
         /\ chain'[j].output = chain[j].output /\ chain'[j].phase \in {chain[j].phase, "closed"}
         /\ chain'[j].phase = "closed" => chain[j].phase \in {"verified", "closed"}
         /\ \/ /\ Ends(j)
               /\ Settles(SettlementCall(tasks[j]), chain[j]) => chain'[j].phase = "closed"
            \/ EndsExcused(j)
<1>1. tasks[j] \in Tasks /\ chain[j] \in ChainJobs /\ tasks[j].pc = "settle"
  BY DEF TypeOK, TasksOK, Settle, At
<1>2. "done" \in Places
  BY DEF Places
<1>3. Steady /\ prompts' = prompts /\ results' = results
  BY DEF Settle, Steady, proc, store
<1>4. CASE /\ chain' = [chain EXCEPT ![j].phase =
                       IF Settles(SettlementCall(tasks[j]), chain[j]) THEN "closed" ELSE @]
           /\ tasks' = Signed(j, "done")
  <2>1. TasksOK(tasks') /\ tasks'[j] = Gone(tasks[j], "done", FALSE)
        /\ \A k \in JobIds \ {j} : tasks'[k] = Staled(tasks[k])
    BY <1>2, <1>4, SignedIs
  <2>2. /\ Gone(tasks[j], "done", FALSE).pc = "done"
        /\ Gone(tasks[j], "done", FALSE).excused = tasks[j].excused
    BY <1>1, <1>2, GoneIs
  <2>3. Ends(j)
    BY <2>1, <2>2 DEF Ends
  <2>4. CASE Settles(SettlementCall(tasks[j]), chain[j])
    <3> DEFINE d == [chain[j] EXCEPT !.phase = "closed"]
    <3>1. /\ d \in ChainJobs /\ d.phase = "closed" /\ d.output = chain[j].output
          /\ d.provider = chain[j].provider /\ d.fill = chain[j].fill
      BY <1>1, ClosedIs
    <3>2. chain' = [chain EXCEPT ![j] = d]
      BY <1>4, <2>4 DEF TypeOK
    <3> HIDE DEF d
    <3>3. /\ chain' \in [JobIds -> ChainJobs] /\ chain'[j] = d
          /\ \A k \in JobIds \ {j} : chain'[k] = chain[k]
      BY <3>1, <3>2 DEF TypeOK
    <3>4. chain[j].phase = "verified"
      BY <2>4 DEF Settles
    <3> QED
      BY <1>1, <1>3, <2>1, <2>3, <3>1, <3>3, <3>4 DEF Quiet
  <2>5. CASE ~Settles(SettlementCall(tasks[j]), chain[j])
    <3>1. chain' = [chain EXCEPT ![j].phase = @]
      BY <1>4, <2>5
    <3>2. chain' = chain
      BY <1>1, <3>1 DEF TypeOK, ChainJobs
    <3>3. chain[j].phase = "closed" => chain[j].phase \in {"verified", "closed"}
      OBVIOUS
    <3> QED
      BY <1>1, <1>3, <2>1, <2>3, <2>5, <3>2 DEF Quiet, TypeOK
  <2> QED
    BY <2>4, <2>5
<1>5. CASE Rejected(j, "done")
  <2>1. /\ TasksOK(tasks') /\ chain' = chain /\ EndsExcused(j)
        /\ \A k \in JobIds \ {j} : tasks'[k] = tasks[k]
    BY <1>2, <1>5, RejectedIs
  <2> QED
    BY <1>1, <1>3, <2>1 DEF Quiet, TypeOK
<1> QED
  BY <1>4, <1>5 DEF Settle

(* What all steps of a task have in common. *)
LEMMA TaskStepIs ==
  ASSUME TypeOK, NEW j \in JobIds, TaskStep(j)
  PROVE  /\ Steady /\ TasksOK(tasks') /\ chain' \in [JobIds -> ChainJobs]
         /\ prompts' \subseteq JobIds /\ results' \in [JobIds -> Outputs \cup {NoOutput}]
         /\ \A k \in JobIds \ {j} : Quiet(k)
         /\ tasks[j].pc # "idle" /\ tasks'[j].pc # "idle"
         /\ chain'[j].provider = chain[j].provider
         /\ chain[j].phase # "none" => chain'[j].phase # "none"
<1>1. TasksOK(tasks) /\ chain[j] \in ChainJobs
  BY DEF TypeOK, TasksOK
<1>2. /\ chain \in [JobIds -> ChainJobs] /\ prompts \subseteq JobIds
      /\ results \in [JobIds -> Outputs \cup {NoOutput}]
  BY DEF TypeOK
<1>3. CASE ReadMeta(j)
  BY <1>1, <1>2, <1>3, ReadMetaIs
<1>4. CASE ResolvePrompt(j)
  BY <1>1, <1>2, <1>4, ResolvePromptIs DEF Carries, EndsExcused
<1>5. CASE Ack(j)
  BY <1>1, <1>2, <1>5, AckIs, AckedIs DEF Carries
<1>6. CASE Infer(j)
  BY <1>1, <1>2, <1>6, InferIs DEF Carries, EndsExcused
<1>7. CASE Upload(j)
  BY <1>1, <1>2, <1>7, UploadIs DEF Carries
<1>8. CASE Submit(j)
  BY <1>1, <1>2, <1>8, SubmitIs DEF Recorded, Ends, EndsExcused
<1>9. CASE Settle(j)
  BY <1>1, <1>2, <1>9, SettleIs DEF Ends, EndsExcused
<1> QED
  BY <1>3, <1>4, <1>5, <1>6, <1>7, <1>8, <1>9 DEF TaskStep

-----------------------------------------------------------------------------
(* Each task's part of the invariant *)

\* Nothing that the task's part of the invariant speaks of has changed.
Same(j) ==
  /\ chain'[j] = chain[j] /\ results'[j] = results[j]
  /\ tasks'[j].pc = tasks[j].pc /\ tasks'[j].fill = tasks[j].fill
  /\ tasks'[j].valid = tasks[j].valid /\ tasks'[j].excused = tasks[j].excused
  /\ life' = life /\ main' = main

(* A step that is not the task's own leaves it the same. *)
LEMMA QuietIsSame ==
  ASSUME TasksOK(tasks), NEW j \in JobIds, Quiet(j), life' = life, main' = main
  PROVE  Same(j)
<1>1. tasks[j] \in Tasks
  BY DEF TasksOK
<1>2. /\ Staled(tasks[j]).pc = tasks[j].pc /\ Staled(tasks[j]).fill = tasks[j].fill
      /\ Staled(tasks[j]).valid = tasks[j].valid /\ Staled(tasks[j]).excused = tasks[j].excused
  BY <1>1, StaledIs
<1>3. CASE tasks'[j] = tasks[j]
  BY <1>3 DEF Same, Quiet
<1>4. CASE tasks'[j] = Staled(tasks[j])
  BY <1>2, <1>4 DEF Same, Quiet
<1> QED
  BY <1>3, <1>4 DEF Quiet

(* What is the same keeps the invariant. *)
LEMMA SameKeeps ==
  ASSUME NEW j \in JobIds, TaskInv(j), Same(j)
  PROVE  TaskInv(j)'
<1>1. ResultAtHand(j)'
  BY DEF TaskInv, ResultAtHand, Same
<1>2. Served(j)'
  BY DEF TaskInv, Served, Same
<1>3. Knows(j)'
  BY DEF TaskInv, Knows, AttestedNow, Same
<1>4. Excused(j)'
  BY DEF TaskInv, Excused, AttestedNow, Same
<1> QED
  BY <1>1, <1>2, <1>3, <1>4 DEF TaskInv

(* Before the submission the job has no output of this life; a task's step that leaves the *)
(* job's output and phase alone, and ends excused or not at all, keeps the invariant.      *)
LEMMA LightStep ==
  ASSUME NEW j \in JobIds, TaskInv(j), main = "polling", life' = life, main' = main,
         tasks[j].pc \in {"meta", "prompt", "ack", "infer", "upload"},
         chain'[j].output = chain[j].output, chain'[j].fill = chain[j].fill,
         \/ chain'[j].phase = chain[j].phase
         \/ chain'[j].phase = "executing" /\ chain[j].phase = "dispatched",
         results'[j] \in {results[j], <<j, life>>},
         tasks'[j].pc \in {"upload", "submit"} => results'[j] = <<j, life>>,
         \/ tasks'[j].pc = "hung"
         \/ EndsExcused(j)
         \/ /\ tasks'[j].pc \in {"prompt", "ack", "infer", "upload", "submit"}
            /\ tasks'[j].excused \/ tasks'[j].fill = chain[j].fill
  PROVE  TaskInv(j)'
<1>1. tasks'[j].pc \in {"hung", "prompt", "ack", "infer", "upload", "submit", "done"}
  BY DEF EndsExcused
<1>2. chain[j].phase # "none" /\ ~AttestedNow(j)
  BY DEF TaskInv, Knows
<1>3. ~AttestedNow(j)'
  BY <1>2 DEF AttestedNow
<1>4. ResultAtHand(j)'
  BY <1>1 DEF ResultAtHand
<1>5. Served(j)'
  BY <1>2 DEF TaskInv, Served, AttestedNow
<1>6. Knows(j)'
  <2>1. (chain[j].output = NoOutput <=> chain[j].phase \in {"none", "dispatched", "executing"})'
    BY DEF TaskInv, Knows
  <2>2. chain'[j].phase # "none" /\ tasks'[j].pc # "settle"
    BY <1>1, <1>2
  <2>3. tasks'[j].pc \in Waiting \ {"meta"} /\ ~tasks'[j].excused => tasks'[j].fill = chain'[j].fill
    BY <1>1 DEF Waiting, EndsExcused
  <2> QED
    BY <1>3, <2>1, <2>2, <2>3 DEF Knows
<1>7. Excused(j)'
  BY <1>1 DEF Excused, EndsExcused
<1> QED
  BY <1>4, <1>5, <1>6, <1>7 DEF TaskInv

(* The submission keeps the invariant: what is recorded is in the store; what is not has an *)
(* excuse, a deadline that passed or an output of an earlier life.                          *)
LEMMA SubmitKeeps ==
  ASSUME TypeOK, NEW j \in JobIds, TaskInv(j), main = "polling", Submit(j)
  PROVE  TaskInv(j)'
<1>1. TasksOK(tasks) /\ chain[j] \in ChainJobs /\ life \in Nat
  BY NodeAssumption DEF TypeOK, TasksOK
<1>2. /\ life' = life /\ main' = main /\ results' = results /\ tasks[j].pc = "submit"
      /\ \/ Recorded(j)
         \/ ~Attestable(chain[j]) /\ chain' = chain /\ Ends(j)
         \/ chain' = chain /\ EndsExcused(j)
  BY <1>1, SubmitIs DEF Steady, proc
<1>3. results[j] = <<j, life>> /\ chain[j].phase # "none" /\ ~AttestedNow(j)
  BY <1>2 DEF TaskInv, ResultAtHand, Knows
<1>4. <<j, life>> # NoOutput
  BY <1>1, NodeAssumption
<1>5. CASE Recorded(j)
  <2>1. tasks'[j].pc \in {"settle", "done"}
    BY <1>5 DEF Recorded, EndsExcused
  <2>2. /\ chain'[j].output = <<j, life>> /\ chain'[j].phase = "verified"
        /\ chain'[j].fill = chain[j].fill
    BY <1>5 DEF Recorded
  <2>3. chain'[j].output[2] = life /\ AttestedNow(j)'
    BY <1>2, <1>4, <2>2 DEF AttestedNow
  <2>4. ResultAtHand(j)'
    BY <1>2, <1>3 DEF ResultAtHand
  <2>5. Served(j)'
    <3>1. life \in 1 .. life
      BY DEF TypeOK
    <3> QED
      BY <1>2, <1>3, <2>2, <2>3, <3>1 DEF Served
  <2>6. Knows(j)'
    <3>1. tasks'[j].pc \in Waiting \ {"meta"} /\ ~tasks'[j].excused => tasks'[j].fill = chain'[j].fill
      BY <1>2, <1>5, <2>1, <2>2 DEF Recorded, EndsExcused, TaskInv, Knows, Waiting
    <3>2. tasks'[j].pc = "settle" => tasks'[j].valid = chain'[j].valid
      BY <1>5 DEF Recorded, EndsExcused
    <3> QED
      BY <1>4, <2>1, <2>2, <2>3, <3>1, <3>2 DEF Knows
  <2>7. Excused(j)'
    BY <1>5 DEF Excused, Recorded, EndsExcused
  <2> QED
    BY <2>4, <2>5, <2>6, <2>7 DEF TaskInv
<1>6. CASE /\ chain' = chain /\ tasks'[j].pc = "done"
           /\ tasks'[j].excused \/ ~Attestable(chain[j])
  <2>1. ~AttestedNow(j)'
    BY <1>2, <1>3, <1>6 DEF AttestedNow
  <2>2. ResultAtHand(j)'
    BY <1>6 DEF ResultAtHand
  <2>3. Served(j)'
    BY <1>2, <1>6 DEF TaskInv, Served
  <2>4. Knows(j)'
    BY <1>2, <1>3, <1>6 DEF TaskInv, Knows, Waiting
  <2>5. Excused(j)'
    <3>1. CASE tasks'[j].excused
      BY <3>1 DEF Excused
    <3>2. CASE ~Attestable(chain[j])
      <4>1. chain[j].output = NoOutput => chain[j].phase \in {"dispatched", "executing"}
        BY <1>3 DEF TaskInv, Knows
      <4>2. chain[j].output = NoOutput => chain[j].late
        BY <3>2, <4>1 DEF Attestable
      <4> QED
        BY <1>6, <2>1, <4>2 DEF Excused
    <3> QED
      BY <1>6, <3>1, <3>2
  <2> QED
    BY <2>2, <2>3, <2>4, <2>5 DEF TaskInv
<1> QED
  BY <1>2, <1>5, <1>6 DEF Ends, EndsExcused

(* The settlement keeps the invariant: the task knows the job's kind and verdict, so the call *)
(* fits unless a read has failed.                                                             *)
LEMMA SettleKeeps ==
  ASSUME TypeOK, NEW j \in JobIds, TaskInv(j), main = "polling", Settle(j)
  PROVE  TaskInv(j)'
<1>1. TasksOK(tasks)
  BY DEF TypeOK, TasksOK
<1>2. /\ life' = life /\ main' = main /\ results' = results /\ tasks[j].pc = "settle"
      /\ chain'[j].fill = chain[j].fill /\ chain'[j].output = chain[j].output
      /\ chain'[j].phase \in {chain[j].phase, "closed"}
      /\ \/ /\ Ends(j)
            /\ Settles(SettlementCall(tasks[j]), chain[j]) => chain'[j].phase = "closed"
         \/ EndsExcused(j)
  BY <1>1, SettleIs DEF Steady, proc
<1>3. tasks'[j].pc = "done"
  BY <1>2 DEF Ends, EndsExcused
<1>4. /\ AttestedNow(j) /\ chain[j].phase = "verified" /\ tasks[j].valid = chain[j].valid
      /\ ~tasks[j].excused => tasks[j].fill = chain[j].fill
  BY <1>2 DEF TaskInv, Knows, Waiting
<1>5. AttestedNow(j)' /\ chain'[j].output # NoOutput
  BY <1>2, <1>4 DEF AttestedNow
<1>6. ResultAtHand(j)'
  BY <1>3 DEF ResultAtHand
<1>7. Served(j)'
  BY <1>2 DEF TaskInv, Served
<1>8. Knows(j)'
  BY <1>2, <1>3, <1>4, <1>5 DEF Knows, Waiting
<1>9. ~tasks[j].excused => Settles(SettlementCall(tasks[j]), chain[j])
  BY <1>4 DEF Settles, SettlementCall
<1>10. Excused(j)'
  <2>1. CASE EndsExcused(j)
    BY <2>1 DEF Excused, EndsExcused
  <2>2. CASE tasks[j].excused /\ Ends(j)
    BY <2>2 DEF Excused, Ends
  <2>3. CASE chain'[j].phase = "closed"
    BY <2>3 DEF Excused
  <2> QED
    BY <1>2, <1>9, <2>1, <2>2, <2>3
<1> QED
  BY <1>6, <1>7, <1>8, <1>10 DEF TaskInv

(* A step of the task keeps its part of the invariant. *)
LEMMA TaskKeeps ==
  ASSUME TypeOK, NEW j \in JobIds, TaskInv(j), main = "polling", TaskStep(j)
  PROVE  TaskInv(j)'
<1>1. TasksOK(tasks) /\ chain[j] \in ChainJobs
  BY DEF TypeOK, TasksOK
<1>2. life' = life /\ main' = main
  BY TaskStepIs DEF Steady, proc
<1>3. tasks[j].pc \in {"prompt", "ack", "infer", "upload"} =>
        tasks[j].excused \/ tasks[j].fill = chain[j].fill
  BY DEF TaskInv, Knows, Waiting
<1>4. tasks[j].pc = "upload" => results[j] = <<j, life>>
  BY DEF TaskInv, ResultAtHand
<1>5. CASE ReadMeta(j)
  <2>1. /\ chain' = chain /\ results' = results /\ tasks[j].pc = "meta" /\ tasks'[j].pc = "prompt"
        /\ tasks'[j].fill = chain[j].fill \/ tasks'[j].excused
    BY <1>1, <1>5, ReadMetaIs
  <2> QED
    BY <1>2, <2>1, LightStep
<1>6. CASE ResolvePrompt(j)
  <2>1. /\ chain' = chain /\ results' = results /\ tasks[j].pc = "prompt"
        /\ Carries(j, "ack") \/ EndsExcused(j)
    BY <1>1, <1>6, ResolvePromptIs
  <2>2. EndsExcused(j) \/ (tasks'[j].pc = "ack" /\ (tasks'[j].excused \/ tasks'[j].fill = chain[j].fill))
    BY <1>3, <2>1 DEF Carries
  <2>3. tasks'[j].pc \notin {"upload", "submit"}
    BY <2>2 DEF EndsExcused
  <2> QED
    BY <1>2, <2>1, <2>2, <2>3, LightStep
<1>7. CASE Ack(j)
  <2>1. /\ results' = results /\ tasks[j].pc = "ack" /\ Carries(j, "infer")
        /\ chain'[j] \in {chain[j], AckedOnChain(chain[j])}
    BY <1>1, <1>7, AckIs
  <2>2. tasks'[j].pc = "infer" /\ (tasks'[j].excused \/ tasks'[j].fill = chain[j].fill)
    BY <1>3, <2>1 DEF Carries
  <2>3. /\ chain'[j].output = chain[j].output /\ chain'[j].fill = chain[j].fill
        /\ \/ chain'[j].phase = chain[j].phase
           \/ chain'[j].phase = "executing" /\ chain[j].phase = "dispatched"
    BY <1>1, <2>1, AckedIs
  <2> QED
    BY <1>2, <2>1, <2>2, <2>3, LightStep
<1>8. CASE Infer(j)
  <2>1. /\ chain' = chain /\ tasks[j].pc = "infer"
        /\ \/ Carries(j, "upload") /\ results'[j] = <<j, life>>
           \/ Carries(j, "submit") /\ results'[j] = <<j, life>>
           \/ EndsExcused(j) /\ results' = results
           \/ tasks'[j].pc = "hung" /\ results' = results
    BY <1>1, <1>8, InferIs
  <2>2. CASE /\ tasks'[j].pc \in {"upload", "submit"} /\ results'[j] = <<j, life>>
             /\ tasks'[j].excused \/ tasks'[j].fill = chain[j].fill
    BY <1>2, <2>1, <2>2, LightStep
  <2>3. CASE EndsExcused(j) /\ results' = results
    <3>1. tasks'[j].pc \notin {"upload", "submit"}
      BY <2>3 DEF EndsExcused
    <3> QED
      BY <1>2, <2>1, <2>3, <3>1, LightStep
  <2>4. CASE tasks'[j].pc = "hung" /\ results' = results
    BY <1>2, <2>1, <2>4, LightStep
  <2> QED
    BY <1>3, <2>1, <2>2, <2>3, <2>4 DEF Carries
<1>9. CASE Upload(j)
  <2>1. chain' = chain /\ results' = results /\ tasks[j].pc = "upload" /\ Carries(j, "submit")
    BY <1>1, <1>9, UploadIs
  <2>2. tasks'[j].pc = "submit" /\ (tasks'[j].excused \/ tasks'[j].fill = chain[j].fill)
    BY <1>3, <2>1 DEF Carries
  <2> QED
    BY <1>2, <1>4, <2>1, <2>2, LightStep
<1> QED
  BY <1>5, <1>6, <1>7, <1>8, <1>9, SubmitKeeps, SettleKeeps DEF TaskStep

-----------------------------------------------------------------------------
(* The invariant holds at first *)

(* Init establishes the invariant. *)
LEMMA NodeInitially == Init => NodeInv
<1> SUFFICES ASSUME Init PROVE NodeInv
  OBVIOUS
<1> USE NodeAssumption
<1>1. \A j \in JobIds : /\ tasks[j] = NoTask /\ results[j] = NoOutput
                        /\ chain[j].output = NoOutput /\ chain[j].phase = "none"
  BY DEF Init
<1>2. [provider |-> 0, phase |-> "none", fill |-> FALSE, input |-> "cached", late |-> FALSE,
       valid |-> FALSE, output |-> NoOutput] \in ChainJobs
  BY DEF ChainJobs, Inputs
<1>3. TypeOK
  <2>1. chain \in [JobIds -> ChainJobs]
    BY <1>2 DEF Init
  <2>2. tasks \in [JobIds -> Tasks] /\ \A j \in JobIds : ~tasks[j].stale
    BY <1>1, FreshTask DEF Init
  <2>3. results \in [JobIds -> Outputs \cup {NoOutput}]
    BY DEF Init
  <2>4. events \in Seq(JobIds \cup Foreign) /\ Len(events) = 0
    BY DEF Init
  <2>5. /\ life \in 1 .. MaxLives /\ key \in 0 .. life /\ listed \in 0 .. MaxLives
        /\ main = "probe" /\ born \in Nat /\ cursor = 0 /\ prompts \subseteq JobIds
    BY DEF Init
  <2>6. cursor \in 0 .. Len(events)
    BY <2>4, <2>5
  <2> QED
    BY <2>1, <2>2, <2>3, <2>4, <2>5, <2>6 DEF TypeOK
<1>4. TasksWhilePolling /\ LivesLeft
  BY <1>1, FreshTask DEF TasksWhilePolling, LivesLeft, Init
<1>5. EventsName /\ HandedOver
  BY DEF Init, EventsName, HandedOver
<1>6. ASSUME NEW j \in JobIds PROVE TaskInv(j)
  <2>1. tasks[j].pc = "idle"
    BY <1>1, FreshTask
  <2> QED
    BY <1>1, <2>1 DEF TaskInv, ResultAtHand, Served, Knows, AttestedNow, Excused, Waiting
<1> QED
  BY <1>3, <1>4, <1>5, <1>6 DEF NodeInv

-----------------------------------------------------------------------------
(* Types *)

(* The log grows at its end. *)
LEMMA LogGrows ==
  ASSUME NEW S, NEW s \in Seq(S), NEW e \in S
  PROVE  /\ Append(s, e) \in Seq(S) /\ Len(Append(s, e)) = Len(s) + 1 /\ Len(s) \in Nat
         /\ \A i \in 1 .. Len(s) : Append(s, e)[i] = s[i]
         /\ Append(s, e)[Len(s) + 1] = e
OBVIOUS

(* What a draw writes into a job that was none. *)
LEMMA DrawnIs ==
  ASSUME TypeOK, NEW j \in JobIds, NEW kind \in Offers[j], Draw(j, kind)
  PROVE  /\ chain' \in [JobIds -> ChainJobs]
         /\ chain'[j].provider = listed /\ chain'[j].phase = "dispatched"
         /\ chain'[j].output = chain[j].output
         /\ \A k \in JobIds \ {j} : chain'[k] = chain[k]
<1>1. chain[j] \in ChainJobs /\ listed \in 0 .. MaxLives
  BY DEF TypeOK
<1>2. kind.fill \in BOOLEAN /\ kind.input \in Inputs
  <2>1. kind \in Kinds
    BY NodeAssumption
  <2> QED
    BY <2>1 DEF Kinds, Inputs
<1> DEFINE d == [chain[j] EXCEPT !.provider = listed, !.phase = "dispatched", !.fill = kind.fill,
                                 !.input = kind.input]
<1>3. /\ d \in ChainJobs /\ d.provider = listed /\ d.phase = "dispatched"
      /\ d.output = chain[j].output
  BY <1>1, <1>2 DEF ChainJobs
<1>4. chain' = [chain EXCEPT ![j] = d]
  BY DEF Draw, TypeOK
<1> HIDE DEF d
<1>5. /\ chain' \in [JobIds -> ChainJobs] /\ chain'[j] = d
      /\ \A k \in JobIds \ {j} : chain'[k] = chain[k]
  BY <1>3, <1>4 DEF TypeOK
<1> QED
  BY <1>3, <1>5

(* A deadline that passes leaves all but itself. *)
LEMMA LapseIs ==
  ASSUME TypeOK, NEW j \in JobIds, Lapse(j)
  PROVE  /\ chain' \in [JobIds -> ChainJobs]
         /\ chain'[j].provider = chain[j].provider /\ chain'[j].phase = chain[j].phase
         /\ chain'[j].output = chain[j].output /\ chain'[j].fill = chain[j].fill
         /\ chain'[j].valid = chain[j].valid /\ chain'[j].late
         /\ \A k \in JobIds \ {j} : chain'[k] = chain[k]
<1>1. chain[j] \in ChainJobs
  BY DEF TypeOK
<1> DEFINE d == [chain[j] EXCEPT !.late = TRUE]
<1>2. /\ d \in ChainJobs /\ d.provider = chain[j].provider /\ d.phase = chain[j].phase
      /\ d.output = chain[j].output /\ d.fill = chain[j].fill /\ d.valid = chain[j].valid /\ d.late
  BY <1>1 DEF ChainJobs
<1>3. chain' = [chain EXCEPT ![j] = d]
  BY DEF Lapse, TypeOK
<1> HIDE DEF d
<1>4. /\ chain' \in [JobIds -> ChainJobs] /\ chain'[j] = d
      /\ \A k \in JobIds \ {j} : chain'[k] = chain[k]
  BY <1>2, <1>3 DEF TypeOK
<1> QED
  BY <1>2, <1>4

(* The poll hands over the page and moves the cursor to its end. *)
LEMMA PollIs ==
  ASSUME TypeOK, Poll
  PROVE  /\ TasksOK(tasks') /\ cursor' = PageEnd
         /\ PageEnd \in cursor + 1 .. Len(events)
         /\ \A j \in JobIds : IF j \in Page THEN tasks'[j] = [NoTask EXCEPT !.pc = "meta"]
                                            ELSE tasks'[j] = tasks[j]
<1>1. tasks' = [j \in JobIds |-> IF j \in Page THEN [NoTask EXCEPT !.pc = "meta"] ELSE tasks[j]]
  BY DEF Poll, HandOver
<1>2. TasksOK(tasks')
  BY <1>1, FreshTask DEF TypeOK, TasksOK
<1>3. Len(events) \in Nat /\ cursor \in Nat /\ cursor < Len(events) /\ PageSize \in Nat \ {0}
  BY NodeAssumption DEF TypeOK, Poll
<1>4. PageEnd \in cursor + 1 .. Len(events)
  BY <1>3 DEF PageEnd
<1> QED
  BY <1>1, <1>2, <1>4 DEF Poll

(* Another transaction of the node is none of the tasks' own steps. *)
LEMMA OtherIs ==
  ASSUME TypeOK, OtherTransaction
  PROVE  TasksOK(tasks') /\ Steady /\ \A k \in JobIds : Quiet(k)
<1>1. tasks' = [j \in JobIds |-> Staled(tasks[j])]
  BY DEF OtherTransaction
<1>2. \A j \in JobIds : /\ Staled(tasks[j]) \in Tasks
                        /\ Staled(tasks[j]).stale => Staled(tasks[j]).pc \in {"ack", "submit", "settle"}
  BY StaledIs DEF TypeOK
<1>3. TasksOK(tasks')
  BY <1>1, <1>2 DEF TasksOK
<1>4. Steady /\ chain' = chain /\ results' = results
  BY DEF OtherTransaction, Steady, world, proc, store
<1> QED
  BY <1>1, <1>3, <1>4 DEF Quiet

(* Every step keeps the types. *)
LEMMA NodeTypeStep == TypeOK /\ LivesLeft /\ [Next]_vars => TypeOK'
<1> SUFFICES ASSUME TypeOK, LivesLeft, [Next]_vars PROVE TypeOK'
  OBVIOUS
<1>0. /\ Len(events) \in Nat /\ cursor \in 0 .. Len(events) /\ born \in Nat
      /\ life \in 1 .. MaxLives /\ key \in 0 .. life /\ listed \in 0 .. MaxLives
      /\ MaxLives \in Nat \ {0} /\ TasksOK(tasks)
  BY NodeAssumption DEF TypeOK, TasksOK
<1>1. ASSUME NEW e \in JobIds \cup Foreign, events' = Append(events, e), cursor' = cursor
      PROVE  events' \in Seq(JobIds \cup Foreign) /\ cursor' \in 0 .. Len(events')
  <2>1. events \in Seq(JobIds \cup Foreign)
    BY DEF TypeOK
  <2>2. events' \in Seq(JobIds \cup Foreign) /\ Len(events') = Len(events) + 1
    BY <1>1, <2>1, LogGrows
  <2> QED
    BY <1>0, <1>1, <2>2
<1>2. ASSUME NEW j \in JobIds, NEW kind \in Offers[j], Draw(j, kind) PROVE TypeOK'
  <2>1. chain' \in [JobIds -> ChainJobs]
    BY <1>2, DrawnIs
  <2>2. events' \in Seq(JobIds \cup Foreign) /\ cursor' \in 0 .. Len(events')
    BY <1>1, <1>2 DEF Draw, proc
  <2> QED
    BY <1>2, <2>1, <2>2 DEF TypeOK, Draw, proc, store
<1>3. ASSUME NEW f \in Foreign, DrawElsewhere(f) PROVE TypeOK'
  <2>1. events' \in Seq(JobIds \cup Foreign) /\ cursor' \in 0 .. Len(events')
    BY <1>1, <1>3 DEF DrawElsewhere, proc
  <2> QED
    BY <1>3, <2>1 DEF TypeOK, DrawElsewhere, proc, store
<1>4. ASSUME NEW j \in JobIds, Lapse(j) PROVE TypeOK'
  <2>1. chain' \in [JobIds -> ChainJobs]
    BY <1>4, LapseIs
  <2> QED
    BY <1>4, <2>1 DEF TypeOK, Lapse, proc, store
<1>5. ASSUME NEW j \in JobIds, PostInput(j) PROVE TypeOK'
  BY <1>5 DEF TypeOK, PostInput, proc, world
<1>6. CASE Probe
  <2>1. key' \in 0 .. life /\ main' \in {"setup", "down"}
    BY <1>0, <1>6 DEF Probe, LoadedKey, ProbeOutcomes
  <2> QED
    BY <1>6, <2>1 DEF TypeOK, Probe, world, store
<1>7. CASE Setup
  BY <1>7 DEF TypeOK, Setup, world, store
<1>8. CASE PublishAsk
  <2>1. listed' \in 0 .. MaxLives
    BY <1>0, <1>8 DEF PublishAsk
  <2> QED
    BY <1>8, <2>1 DEF TypeOK, PublishAsk, store
<1>9. CASE Anchor
  <2>1. born' \in Nat /\ cursor' \in 0 .. Len(events)
    BY <1>0, <1>9 DEF Anchor
  <2> QED
    BY <1>9, <2>1 DEF TypeOK, Anchor, world, store
<1>10. CASE Crash
  <2>1. tasks' \in [JobIds -> Tasks] /\ \A j \in JobIds : ~tasks'[j].stale
    BY <1>10, FreshTask DEF Crash
  <2>2. results' \in [JobIds -> Outputs \cup {NoOutput}] /\ prompts' \subseteq JobIds
    BY <1>10 DEF Crash
  <2>3. cursor' \in 0 .. Len(events) /\ born' \in Nat
    BY <1>0, <1>10 DEF Crash
  <2> QED
    BY <1>10, <2>1, <2>2, <2>3 DEF TypeOK, Crash, world
<1>11. CASE Restart
  <2>1. life < MaxLives
    BY <1>11 DEF Restart, LivesLeft
  <2>2. life' \in 1 .. MaxLives /\ key' \in 0 .. life'
    BY <1>0, <1>11, <2>1 DEF Restart
  <2> QED
    BY <1>11, <2>2 DEF TypeOK, Restart, world, store
<1>12. CASE Poll
  <2>1. TasksOK(tasks') /\ cursor' \in 0 .. Len(events)
    BY <1>0, <1>12, PollIs
  <2> QED
    BY <1>12, <2>1 DEF TypeOK, TasksOK, Poll, world, store
<1>13. CASE OtherTransaction
  <2>1. TasksOK(tasks')
    BY <1>13, OtherIs
  <2> QED
    BY <1>13, <2>1 DEF TypeOK, TasksOK, OtherTransaction, world, proc, store
<1>14. ASSUME NEW j \in JobIds, TaskStep(j) PROVE TypeOK'
  <2>1. /\ Steady /\ TasksOK(tasks') /\ chain' \in [JobIds -> ChainJobs]
        /\ prompts' \subseteq JobIds /\ results' \in [JobIds -> Outputs \cup {NoOutput}]
    BY <1>14, TaskStepIs
  <2> QED
    BY <2>1 DEF TypeOK, TasksOK, Steady, proc
<1>15. CASE UNCHANGED vars
  BY <1>15 DEF TypeOK, vars, Outputs
<1> QED
  BY <1>2, <1>3, <1>4, <1>5, <1>6, <1>7, <1>8, <1>9, <1>10, <1>11, <1>12, <1>13, <1>14, <1>15
     DEF Next, Consume, StartUp

-----------------------------------------------------------------------------
(* The other steps and each task's part of the invariant *)

(* A consumer's step and the clock keep every task's part. *)
LEMMA WorldKeeps ==
  ASSUME NodeInv, Consume, NEW k \in JobIds
  PROVE  TaskInv(k)'
<1>1. TaskInv(k) /\ TypeOK
  BY DEF NodeInv
<1>2. ASSUME NEW j \in JobIds, NEW kind \in Offers[j], Draw(j, kind) PROVE TaskInv(k)'
  <2>1. life' = life /\ main' = main /\ tasks' = tasks /\ results' = results
    BY <1>2 DEF Draw, proc, store
  <2>2. /\ chain'[j].phase = "dispatched" /\ chain'[j].output = chain[j].output
        /\ \A i \in JobIds \ {j} : chain'[i] = chain[i]
    BY <1>1, <1>2, DrawnIs
  <2>3. CASE k # j
    <3>1. Same(k)
      BY <2>1, <2>2, <2>3 DEF Same
    <3> QED
      BY <1>1, <3>1, SameKeeps
  <2>4. CASE k = j
    <3>1. chain[k].phase = "none"
      BY <1>2, <2>4 DEF Draw
    <3>2. tasks[k].pc = "idle" /\ chain[k].output = NoOutput
      BY <1>1, <3>1 DEF TaskInv, Knows
    <3>3. (ResultAtHand(k) /\ Served(k) /\ Excused(k))'
      BY <2>1, <2>2, <2>4, <3>2 DEF ResultAtHand, Served, Excused
    <3>4. Knows(k)'
      BY <2>1, <2>2, <2>4, <3>2 DEF Knows, AttestedNow, Waiting
    <3> QED
      BY <3>3, <3>4 DEF TaskInv
  <2> QED
    BY <2>3, <2>4
<1>3. ASSUME NEW f \in Foreign, DrawElsewhere(f) PROVE TaskInv(k)'
  <2>1. Same(k)
    BY <1>3 DEF DrawElsewhere, Same, proc, store
  <2> QED
    BY <1>1, <2>1, SameKeeps
<1>4. ASSUME NEW j \in JobIds, PostInput(j) PROVE TaskInv(k)'
  <2>1. Same(k)
    BY <1>4 DEF PostInput, Same, proc, world
  <2> QED
    BY <1>1, <2>1, SameKeeps
<1>5. ASSUME NEW j \in JobIds, Lapse(j) PROVE TaskInv(k)'
  <2>1. life' = life /\ main' = main /\ tasks' = tasks /\ results' = results
    BY <1>5 DEF Lapse, proc, store
  <2>2. /\ chain'[j].phase = chain[j].phase /\ chain'[j].late
        /\ chain'[j].output = chain[j].output /\ chain'[j].fill = chain[j].fill
        /\ chain'[j].valid = chain[j].valid
        /\ \A i \in JobIds \ {j} : chain'[i] = chain[i]
    BY <1>1, <1>5, LapseIs
  <2>3. CASE k # j
    <3>1. Same(k)
      BY <2>1, <2>2, <2>3 DEF Same
    <3> QED
      BY <1>1, <3>1, SameKeeps
  <2>4. CASE k = j
    <3>1. (ResultAtHand(k) /\ Served(k))'
      BY <1>1, <2>1, <2>2, <2>4 DEF TaskInv, ResultAtHand, Served
    <3>2. Knows(k)'
      BY <1>1, <2>1, <2>2, <2>4 DEF TaskInv, Knows, AttestedNow, Waiting
    <3>3. chain[k].output = NoOutput
      BY <1>1, <1>5, <2>4 DEF TaskInv, Knows, Lapse
    <3>4. Excused(k)'
      BY <2>2, <2>4, <3>3 DEF Excused
    <3> QED
      BY <3>1, <3>2, <3>4 DEF TaskInv
  <2> QED
    BY <2>3, <2>4
<1> QED
  BY <1>2, <1>3, <1>4, <1>5 DEF Consume

(* Coming up, going down and coming up again keep every task's part. *)
LEMMA LifeKeeps ==
  ASSUME NodeInv, StartUp \/ Crash \/ Restart, NEW k \in JobIds
  PROVE  TaskInv(k)'
<1>1. TaskInv(k) /\ TypeOK /\ (main # "polling" => tasks[k].pc = "idle") /\ life \in Nat
  BY NodeAssumption DEF NodeInv, TasksWhilePolling, TypeOK
<1>2. /\ Served(k)
      /\ chain[k].output = NoOutput <=> chain[k].phase \in {"none", "dispatched", "executing"}
  BY <1>1 DEF TaskInv, Knows
<1>3. CASE StartUp
  <2>1. /\ main \notin {"polling", "down"} /\ life' = life /\ chain' = chain
        /\ tasks' = tasks /\ results' = results
    BY <1>3 DEF StartUp, Probe, Setup, PublishAsk, Anchor, world, store
  <2>2. ~AttestedNow(k) /\ (chain[k].output # NoOutput => chain[k].output[2] # life)
    BY <1>2, <2>1 DEF Served, AttestedNow
  <2>3. tasks'[k].pc = "idle" /\ ~AttestedNow(k)'
    BY <1>1, <2>1, <2>2 DEF AttestedNow
  <2>4. Served(k)'
    BY <1>2, <2>1, <2>2 DEF Served
  <2>5. (ResultAtHand(k) /\ Excused(k))'
    BY <2>3 DEF ResultAtHand, Excused
  <2>6. Knows(k)'
    BY <1>2, <2>1, <2>3 DEF Knows, Waiting
  <2> QED
    BY <2>4, <2>5, <2>6 DEF TaskInv
<1>4. CASE Crash
  <2>1. main' = "down" /\ life' = life /\ chain' = chain /\ tasks'[k].pc = "idle"
    BY <1>4, FreshTask DEF Crash, world
  <2>2. Served(k)'
    BY <1>2, <2>1 DEF Served
  <2>3. (ResultAtHand(k) /\ Excused(k))'
    BY <2>1 DEF ResultAtHand, Excused
  <2>4. Knows(k)'
    BY <1>2, <2>1 DEF Knows, Waiting
  <2> QED
    BY <2>2, <2>3, <2>4 DEF TaskInv
<1>5. CASE Restart
  <2>1. main = "down" /\ life' = life + 1 /\ chain' = chain /\ tasks' = tasks
    BY <1>5 DEF Restart, world, store
  <2>2. chain[k].output # NoOutput => chain[k].output[2] \in 1 .. life
    BY <1>2 DEF Served
  <2>3. chain[k].output # NoOutput =>
          chain[k].output[2] \in 1 .. (life + 1) /\ chain[k].output[2] # life + 1
    BY <1>1, <2>2
  <2>4. Served(k)'
    BY <1>2, <2>1, <2>3 DEF Served
  <2>5. tasks'[k].pc = "idle" /\ ~AttestedNow(k)'
    BY <1>1, <2>1, <2>3 DEF AttestedNow
  <2>6. (ResultAtHand(k) /\ Excused(k))'
    BY <2>5 DEF ResultAtHand, Excused
  <2>7. Knows(k)'
    BY <1>2, <2>1, <2>5 DEF Knows, Waiting
  <2> QED
    BY <2>4, <2>6, <2>7 DEF TaskInv
<1> QED
  BY <1>3, <1>4, <1>5

(* What is on a page has an event up to the page's end, behind the cursor. *)
LEMMA OnPage ==
  ASSUME NodeInv, Poll, NEW j \in Page
  PROVE  /\ j \in JobIds /\ chain[j].phase # "none" /\ tasks[j].pc = "idle"
         /\ \E i \in DOMAIN events : events[i] = j /\ i > cursor /\ i <= PageEnd
<1>1. TypeOK /\ PageEnd \in cursor + 1 .. Len(events)
  BY PollIs DEF NodeInv
<1>2. PICK i \in cursor + 1 .. PageEnd : events[i] = j
  BY DEF Page
<1>3. j \in JobIds
  BY DEF Page, Mine
<1>4. Len(events) \in Nat /\ cursor \in Nat /\ DOMAIN events = 1 .. Len(events)
  BY <1>1 DEF TypeOK
<1>5. i \in DOMAIN events /\ i > cursor /\ i <= PageEnd /\ ~(i <= cursor)
  BY <1>1, <1>2, <1>4
<1>6. chain[j].phase # "none"
  BY <1>2, <1>3, <1>5 DEF NodeInv, EventsName
<1>7. tasks[j].pc = "idle"
  BY <1>2, <1>3, <1>5 DEF NodeInv, HandedOver, Poll
<1> QED
  BY <1>2, <1>3, <1>5, <1>6, <1>7

(* Handing over a page keeps every task's part. *)
LEMMA PollKeeps ==
  ASSUME NodeInv, Poll, NEW k \in JobIds
  PROVE  TaskInv(k)'
<1>1. /\ TaskInv(k) /\ TypeOK /\ main = "polling" /\ main' = main /\ life' = life
      /\ chain' = chain /\ results' = results
  BY DEF NodeInv, Poll, world, store
<1>2. CASE k \in Page
  <2>1. tasks[k].pc = "idle" /\ chain[k].phase # "none"
    BY <1>2, OnPage
  <2>2. tasks'[k].pc = "meta"
    BY <1>1, <1>2, PollIs, FreshTask
  <2>3. ~AttestedNow(k)
    BY <1>1, <2>1 DEF TaskInv, Knows
  <2>4. (ResultAtHand(k) /\ Served(k) /\ Excused(k))'
    BY <1>1, <2>2 DEF TaskInv, ResultAtHand, Served, Excused
  <2>5. Knows(k)'
    BY <1>1, <2>1, <2>2, <2>3 DEF TaskInv, Knows, AttestedNow, Waiting
  <2> QED
    BY <2>4, <2>5 DEF TaskInv
<1>3. CASE k \notin Page
  <2>1. Same(k)
    BY <1>1, <1>3, PollIs DEF Same
  <2> QED
    BY <1>1, <2>1, SameKeeps
<1> QED
  BY <1>2, <1>3

(* Every step keeps every task's part. *)
LEMMA TasksStep ==
  ASSUME NodeInv, [Next]_vars, NEW k \in JobIds
  PROVE  TaskInv(k)'
<1>1. TaskInv(k) /\ TypeOK /\ TasksOK(tasks)
  BY DEF NodeInv, TypeOK, TasksOK
<1>2. CASE OtherTransaction
  <2>1. Quiet(k) /\ life' = life /\ main' = main
    BY <1>1, <1>2, OtherIs DEF Steady, proc
  <2> QED
    BY <1>1, <2>1, QuietIsSame, SameKeeps
<1>3. ASSUME NEW j \in JobIds, TaskStep(j) PROVE TaskInv(k)'
  <2>1. /\ Steady /\ tasks[j].pc # "idle" /\ \A i \in JobIds \ {j} : Quiet(i)
    BY <1>1, <1>3, TaskStepIs
  <2>2. main = "polling" /\ life' = life /\ main' = main
    BY <2>1 DEF NodeInv, TasksWhilePolling, Steady, proc
  <2>3. CASE k = j
    BY <1>1, <1>3, <2>2, <2>3, TaskKeeps
  <2>4. CASE k # j
    BY <1>1, <2>1, <2>2, <2>4, QuietIsSame, SameKeeps
  <2> QED
    BY <2>3, <2>4
<1>4. CASE UNCHANGED vars
  <2>1. Same(k)
    BY <1>4 DEF Same, vars
  <2> QED
    BY <1>1, <2>1, SameKeeps
<1> QED
  BY <1>2, <1>3, <1>4, WorldKeeps, LifeKeeps, PollKeeps DEF Next

-----------------------------------------------------------------------------
(* The log, the cursor and the place of the process *)

(* Every step keeps the tasks within the time the node polls. *)
LEMMA PlaceStep ==
  ASSUME NodeInv, [Next]_vars
  PROVE  LivesLeft' /\ TasksWhilePolling'
<1>1. /\ TypeOK /\ LivesLeft /\ TasksWhilePolling
  BY DEF NodeInv
<1>2. CASE Consume
  BY <1>1, <1>2 DEF LivesLeft, TasksWhilePolling, Consume, Draw, DrawElsewhere, Lapse, PostInput,
                    proc, store
<1>3. CASE Probe
  BY <1>1, <1>3 DEF LivesLeft, TasksWhilePolling, Probe, ProbeOutcomes, store
<1>4. CASE Setup \/ PublishAsk \/ Anchor
  BY <1>1, <1>4 DEF LivesLeft, TasksWhilePolling, Setup, PublishAsk, Anchor, store
<1>5. CASE Crash
  BY <1>1, <1>5, FreshTask DEF LivesLeft, TasksWhilePolling, Crash
<1>6. CASE Restart
  BY <1>1, <1>6 DEF LivesLeft, TasksWhilePolling, Restart, store
<1>7. CASE Poll
  BY <1>1, <1>7 DEF LivesLeft, TasksWhilePolling, Poll
<1>8. CASE OtherTransaction
  BY <1>1, <1>8 DEF LivesLeft, TasksWhilePolling, OtherTransaction, proc
<1>9. ASSUME NEW j \in JobIds, TaskStep(j) PROVE LivesLeft' /\ TasksWhilePolling'
  <2>1. Steady /\ tasks[j].pc # "idle"
    BY <1>1, <1>9, TaskStepIs
  <2>2. main = "polling" /\ main' = main /\ life' = life
    BY <1>1, <2>1 DEF TasksWhilePolling, Steady, proc
  <2> QED
    BY <1>1, <2>2 DEF LivesLeft, TasksWhilePolling
<1>10. CASE UNCHANGED vars
  BY <1>1, <1>10 DEF LivesLeft, TasksWhilePolling, vars
<1> QED
  BY <1>2, <1>3, <1>4, <1>5, <1>6, <1>7, <1>8, <1>9, <1>10 DEF Next, StartUp

(* A step that leaves the log, the jobs' providers and their being there keeps EventsName. *)
LEMMA NamesKept ==
  ASSUME EventsName, events' = events, listed' \in {listed, key}, key' = key \/ key = 0,
         listed' # 0 => listed' = key',
         \A j \in JobIds : /\ chain'[j].provider = chain[j].provider
                           /\ chain[j].phase # "none" => chain'[j].phase # "none"
  PROVE  EventsName'
BY DEF EventsName

(* Every step keeps one event for each job, naming the provider. *)
LEMMA NamesStep ==
  ASSUME NodeInv, [Next]_vars
  PROVE  EventsName'
<1>1. /\ TypeOK /\ EventsName /\ \A j \in JobIds : TaskInv(j)
  BY DEF NodeInv
<1>2. /\ Len(events) \in Nat /\ DOMAIN events = 1 .. Len(events)
      /\ events \in Seq(JobIds \cup Foreign) /\ JobIds \cap Foreign = {}
      /\ listed # 0 => listed = key
  BY <1>1, NodeAssumption DEF TypeOK, EventsName
<1>3. ASSUME NEW e \in JobIds \cup Foreign, events' = Append(events, e), listed' = listed, key' = key,
             \A i \in DOMAIN events : events[i] # e,
             e \in JobIds => /\ listed # 0 /\ chain'[e].provider = listed
                             /\ chain'[e].phase # "none",
             \A j \in JobIds \ {e} : chain'[j] = chain[j]
      PROVE  EventsName'
  <2>1. /\ Len(events') = Len(events) + 1 /\ DOMAIN events' = 1 .. (Len(events) + 1)
        /\ \A i \in 1 .. Len(events) : events'[i] = events[i]
        /\ events'[Len(events) + 1] = e
    BY <1>2, <1>3, LogGrows
  <2>2. ASSUME NEW i \in DOMAIN events', events'[i] \in JobIds
        PROVE  /\ key' # 0 /\ chain'[events'[i]].provider = key' /\ chain'[events'[i]].phase # "none"
               /\ \A k \in DOMAIN events' : events'[k] = events'[i] => k = i
    <3>1. CASE i \in 1 .. Len(events)
      <4>1. events'[i] = events[i] /\ events[i] # e /\ events[i] \in JobIds
        BY <1>2, <1>3, <2>1, <2>2, <3>1
      <4>2. /\ key # 0 /\ chain[events[i]].provider = key /\ chain[events[i]].phase # "none"
            /\ \A k \in DOMAIN events : events[k] = events[i] => k = i
        BY <1>1, <1>2, <3>1, <4>1 DEF EventsName
      <4>3. chain'[events[i]] = chain[events[i]]
        BY <1>3, <4>1
      <4>4. \A k \in DOMAIN events' : events'[k] = events'[i] => k = i
        BY <1>2, <2>1, <4>1, <4>2
      <4> QED
        BY <1>3, <4>1, <4>2, <4>3, <4>4
    <3>2. CASE i = Len(events) + 1
      <4>1. events'[i] = e /\ e \in JobIds
        BY <2>1, <2>2, <3>2
      <4>2. \A k \in DOMAIN events' : events'[k] = events'[i] => k = i
        BY <1>2, <1>3, <2>1, <3>2, <4>1
      <4> QED
        BY <1>2, <1>3, <4>1, <4>2
    <3> QED
      BY <1>2, <2>1, <3>1, <3>2
  <2> QED
    BY <1>2, <1>3, <2>2 DEF EventsName
<1>4. ASSUME NEW j \in JobIds, NEW kind \in Offers[j], Draw(j, kind) PROVE EventsName'
  <2>1. \A i \in DOMAIN events : events[i] # j
    BY <1>1, <1>4 DEF Draw, EventsName
  <2>2. /\ chain'[j].provider = listed /\ chain'[j].phase = "dispatched"
        /\ \A k \in JobIds \ {j} : chain'[k] = chain[k]
    BY <1>1, <1>4, DrawnIs
  <2>3. listed # 0 /\ events' = Append(events, j) /\ listed' = listed /\ key' = key
    BY <1>4 DEF Draw, proc
  <2> QED
    BY <1>3, <2>1, <2>2, <2>3
<1>5. ASSUME NEW f \in Foreign, DrawElsewhere(f) PROVE EventsName'
  <2>1. /\ \A i \in DOMAIN events : events[i] # f
        /\ events' = Append(events, f) /\ listed' = listed /\ key' = key /\ chain' = chain
    BY <1>5 DEF DrawElsewhere, proc
  <2> QED
    BY <1>2, <1>3, <2>1
<1>6. ASSUME NEW j \in JobIds, Lapse(j) PROVE EventsName'
  <2>1. \A k \in JobIds : chain'[k].provider = chain[k].provider /\ chain'[k].phase = chain[k].phase
    BY <1>1, <1>6, LapseIs
  <2>2. events' = events /\ listed' = listed /\ key' = key
    BY <1>6 DEF Lapse, proc
  <2> QED
    BY <1>1, <1>2, <2>1, <2>2, NamesKept
<1>7. ASSUME NEW j \in JobIds, TaskStep(j) PROVE EventsName'
  <2>1. /\ Steady /\ \A k \in JobIds \ {j} : Quiet(k)
        /\ chain'[j].provider = chain[j].provider
        /\ chain[j].phase # "none" => chain'[j].phase # "none"
    BY <1>1, <1>7, TaskStepIs
  <2>2. \A k \in JobIds : /\ chain'[k].provider = chain[k].provider
                          /\ chain[k].phase # "none" => chain'[k].phase # "none"
    BY <2>1 DEF Quiet
  <2> QED
    BY <1>1, <1>2, <2>1, <2>2, NamesKept DEF Steady, proc
<1>8. CASE PublishAsk
  <2>1. events' = events /\ chain' = chain /\ listed' \in {listed, key} /\ key' = key
    BY <1>8 DEF PublishAsk
  <2> QED
    BY <1>1, <1>2, <2>1, NamesKept
<1>9. CASE Probe
  <2>1. events' = events /\ chain' = chain /\ listed' = listed /\ (key' = key \/ key = 0)
    BY <1>9 DEF Probe, LoadedKey, world
  <2>2. listed' # 0 => listed' = key'
    BY <1>2, <2>1
  <2> QED
    BY <1>1, <2>1, <2>2, NamesKept
<1>10. CASE Setup \/ Anchor \/ Crash \/ Restart \/ Poll \/ OtherTransaction \/ UNCHANGED vars
            \/ \E j \in JobIds : PostInput(j)
  <2>1. events' = events /\ chain' = chain /\ listed' = listed /\ key' = key
    BY <1>10 DEF Setup, Anchor, Crash, Restart, Poll, OtherTransaction, PostInput, vars, world, proc
  <2> QED
    BY <1>1, <1>2, <2>1, NamesKept
<1> QED
  BY <1>4, <1>5, <1>6, <1>7, <1>8, <1>9, <1>10 DEF Next, Consume, StartUp

(* A step that leaves the log, the cursor, the anchor and what is handed over keeps HandedOver. *)
LEMMA HandedKept ==
  ASSUME HandedOver, events' = events, cursor' = cursor, born' = born, main' = main,
         \A j \in JobIds : tasks'[j].pc = "idle" <=> tasks[j].pc = "idle"
  PROVE  HandedOver'
BY DEF HandedOver

(* Every step keeps the cursor between what was handed over and what was not. *)
LEMMA HandedStep ==
  ASSUME NodeInv, [Next]_vars
  PROVE  HandedOver'
<1>1. /\ TypeOK /\ HandedOver /\ EventsName /\ TasksWhilePolling /\ TasksOK(tasks)
  BY DEF NodeInv, TypeOK, TasksOK
<1>2. /\ Len(events) \in Nat /\ DOMAIN events = 1 .. Len(events) /\ cursor \in 0 .. Len(events)
      /\ events \in Seq(JobIds \cup Foreign) /\ JobIds \cap Foreign = {}
  BY <1>1, NodeAssumption DEF TypeOK
<1>3. ASSUME NEW e \in JobIds \cup Foreign, events' = Append(events, e),
             cursor' = cursor, born' = born, main' = main, tasks' = tasks,
             e \in JobIds => tasks[e].pc = "idle"
      PROVE  HandedOver'
  <2>1. /\ DOMAIN events' = 1 .. (Len(events) + 1)
        /\ \A i \in 1 .. Len(events) : events'[i] = events[i]
        /\ events'[Len(events) + 1] = e
    BY <1>2, <1>3, LogGrows
  <2>2. ASSUME main = "polling", NEW i \in DOMAIN events', events'[i] \in JobIds
        PROVE  /\ tasks[events'[i]].pc # "idle" => i <= cursor
               /\ i > born /\ i <= cursor => tasks[events'[i]].pc # "idle"
    <3>1. CASE i \in 1 .. Len(events)
      BY <1>1, <1>2, <2>1, <2>2, <3>1 DEF HandedOver
    <3>2. CASE i = Len(events) + 1
      BY <1>2, <1>3, <2>1, <2>2, <3>2
    <3> QED
      BY <1>2, <2>1, <3>1, <3>2
  <2> QED
    BY <1>3, <2>2 DEF HandedOver
<1>4. ASSUME NEW j \in JobIds, NEW kind \in Offers[j], Draw(j, kind) PROVE HandedOver'
  <2>1. tasks[j].pc = "idle"
    BY <1>4 DEF Draw, NodeInv, TaskInv, Knows
  <2> QED
    BY <1>3, <1>4, <2>1 DEF Draw, proc
<1>5. ASSUME NEW f \in Foreign, DrawElsewhere(f) PROVE HandedOver'
  <2>1. f \notin JobIds
    BY <1>2
  <2> QED
    BY <1>3, <1>5, <2>1 DEF DrawElsewhere, proc
<1>6. CASE Poll
  <2>1. /\ main' = "polling" /\ events' = events /\ born' = born /\ chain' = chain
        /\ cursor' = PageEnd /\ PageEnd \in cursor + 1 .. Len(events)
    BY <1>1, <1>6, PollIs DEF Poll, world
  <2>2. ASSUME NEW i \in DOMAIN events, events[i] \in JobIds
        PROVE  /\ tasks'[events[i]].pc # "idle" => i <= PageEnd
               /\ i > born /\ i <= PageEnd => tasks'[events[i]].pc # "idle"
    <3>1. CASE events[i] \in Page
      <4>1. tasks'[events[i]].pc = "meta"
        BY <1>1, <1>6, <2>2, <3>1, PollIs, FreshTask
      <4>2. PICK k \in DOMAIN events : events[k] = events[i] /\ k <= PageEnd
        BY <1>6, <3>1, OnPage
      <4>3. k = i
        BY <1>1, <2>2, <4>2 DEF EventsName
      <4> QED
        BY <4>1, <4>2, <4>3
    <3>2. CASE events[i] \notin Page
      <4>1. tasks'[events[i]] = tasks[events[i]]
        BY <1>1, <1>6, <2>2, <3>2, PollIs
      <4>2. /\ tasks[events[i]].pc # "idle" => i <= cursor
            /\ i > born /\ i <= cursor => tasks[events[i]].pc # "idle"
        BY <1>1, <1>6, <2>2 DEF HandedOver, Poll
      <4>3. Mine(events[i])
        BY <1>1, <2>2 DEF Mine, EventsName
      <4>4. i \notin cursor + 1 .. PageEnd
        BY <3>2, <4>3 DEF Page
      <4>5. i \in Nat /\ cursor \in Nat /\ PageEnd \in Nat
        BY <1>2, <2>1
      <4> QED
        BY <2>1, <4>1, <4>2, <4>4, <4>5
    <3> QED
      BY <3>1, <3>2
  <2> QED
    BY <2>1, <2>2 DEF HandedOver
<1>7. CASE Anchor
  <2>1. /\ main # "polling" /\ tasks' = tasks /\ events' = events
        /\ born' = Len(events) /\ cursor' \in {Len(events), 0}
    BY <1>7 DEF Anchor, world
  <2>2. \A j \in JobIds : tasks'[j].pc = "idle"
    BY <1>1, <2>1 DEF TasksWhilePolling
  <2>3. \A i \in DOMAIN events' : ~(i > born')
    BY <1>2, <2>1
  <2> QED
    BY <2>1, <2>2, <2>3 DEF HandedOver
<1>8. CASE Probe \/ Setup \/ PublishAsk \/ Crash \/ Restart
  <2>1. main' # "polling"
    BY <1>8 DEF Probe, ProbeOutcomes, Setup, PublishAsk, Crash, Restart
  <2> QED
    BY <2>1 DEF HandedOver
<1>9. CASE \/ \E j \in JobIds : PostInput(j) \/ Lapse(j)
           \/ UNCHANGED vars
  <2>1. events' = events /\ cursor' = cursor /\ born' = born /\ main' = main /\ tasks' = tasks
    BY <1>9 DEF PostInput, Lapse, vars, world, proc
  <2> QED
    BY <1>1, <2>1, HandedKept
<1>10. CASE OtherTransaction
  <2>1. Steady /\ \A k \in JobIds : Quiet(k)
    BY <1>1, <1>10, OtherIs
  <2>2. \A k \in JobIds : tasks'[k].pc = "idle" <=> tasks[k].pc = "idle"
    BY <1>1, <2>1, QuietIsSame DEF Same, Steady, proc
  <2> QED
    BY <1>1, <2>1, <2>2, HandedKept DEF Steady, proc
<1>11. ASSUME NEW j \in JobIds, TaskStep(j) PROVE HandedOver'
  <2>1. /\ Steady /\ tasks[j].pc # "idle" /\ tasks'[j].pc # "idle"
        /\ \A k \in JobIds \ {j} : Quiet(k)
    BY <1>1, <1>11, TaskStepIs
  <2>2. \A k \in JobIds \ {j} : tasks'[k].pc = tasks[k].pc
    BY <1>1, <2>1, QuietIsSame DEF Same, Steady, proc
  <2>3. \A k \in JobIds : tasks'[k].pc = "idle" <=> tasks[k].pc = "idle"
    BY <2>1, <2>2
  <2> QED
    BY <1>1, <2>1, <2>3, HandedKept DEF Steady, proc
<1> QED
  BY <1>4, <1>5, <1>6, <1>7, <1>8, <1>9, <1>10, <1>11 DEF Next, Consume, StartUp

-----------------------------------------------------------------------------
(* The theorems *)

(* The invariant holds throughout. *)
LEMMA NodeInvariant == Spec => []NodeInv
<1>1. NodeInv /\ [Next]_vars => NodeInv'
  BY NodeTypeStep, TasksStep, PlaceStep, NamesStep, HandedStep DEF NodeInv
<1> QED
  BY <1>1, NodeInitially, PTL DEF Spec

(* The chain's view, the log, the cursor, the tasks and the store of a node keep their      *)
(* types, whatever fails and however often it goes down (main.ts, serve.ts, chain.ts).      *)
THEOREM NodeTypeCorrect == Spec => []TypeOK
<1>1. NodeInv => TypeOK
  BY DEF NodeInv
<1> QED
  BY <1>1, NodeInvariant, PTL

(* The poll hands over every job dispatched since the anchor up to its cursor, and none     *)
(* beyond, for any page size and any other providers' events (chain.ts:403-458).            *)
THEOREM EventsHandedOver == Spec => []NoEventSkipped
<1>1. NodeInv => NoEventSkipped
  BY DEF NodeInv, HandedOver, NoEventSkipped
<1> QED
  BY <1>1, NodeInvariant, PTL

(* An output attested by the running process is at its result route (serve.ts:190-194),     *)
(* however many jobs it serves at once and whatever earlier processes attested.             *)
THEOREM OutputServed == Spec => []AttestedOutputIsServed
<1>1. NodeInv => AttestedOutputIsServed
  BY DEF NodeInv, TaskInv, Served, AttestedOutputIsServed, AttestedNow, Result, Listening
<1> QED
  BY <1>1, NodeInvariant, PTL

(* A job the node leaves open was late, or something outside the task failed or got in      *)
(* between (serve.ts:236-268).                                                              *)
THEOREM OpenJobExcused == Spec => []OpenJobIsExcused
<1>1. NodeInv => OpenJobIsExcused
  BY DEF NodeInv, TaskInv, Excused, OpenJobIsExcused
<1> QED
  BY <1>1, NodeInvariant, PTL

=============================================================================
