--------------------------- MODULE ExecutionQueue ---------------------------
(***************************************************************************)
(* The in-memory execution queue of the NeuroFlow backend                  *)
(* (services/executionQueue.service.ts), the rows of the `executions`      *)
(* table it writes through ExecutionService, and the clients that submit,  *)
(* cancel and delete executions around it.                                 *)
(*                                                                         *)
(* A step is what Node runs between two awaits.  A QueuedExecution object  *)
(* is a job.  Two asynchronous activities may work on one job at a time:   *)
(* the call of executeWorkflow (its "stage") and the setTimeout callback   *)
(* handleExecutionTimeout (its "timer").                                   *)
(***************************************************************************)
EXTENDS Naturals, FiniteSets, SequencesExt

CONSTANTS
  Executions,           \* ids of rows of the executions table
  Jobs,                 \* identities for QueuedExecution objects (bounds the live ones)
  Clients,              \* concurrent callers of cancel and delete
  NoExecution, NoJob,
  MaxConcurrentOption,  \* ExecutionQueueOptions.maxConcurrentExecutions
  DefaultRetriesOption, \* ExecutionQueueOptions.defaultMaxRetries
  Priorities,           \* values of options.priority tried by callers
  RequestedRetries,     \* values of options.maxRetries tried by callers (0: absent)
  MaxFaults,            \* bound on refused database writes and crashes out of the blue
  MaxRestarts           \* bound on restarts of the process

ASSUME QueueAssumption ==
  /\ IsFiniteSet(Executions)
  /\ NoExecution \notin Executions
  /\ NoJob \notin Jobs
  /\ MaxConcurrentOption \in Nat
  /\ DefaultRetriesOption \in Nat
  /\ Priorities \subseteq Nat
  /\ RequestedRetries \subseteq Nat
  /\ MaxFaults \in Nat
  /\ MaxRestarts \in Nat

\* x || d of JavaScript on a number: an explicit 0 is taken for an absent option.
OrDefault(x, d) == IF x = 0 THEN d ELSE x

maxConcurrentExecutions == OrDefault(MaxConcurrentOption, 5)
defaultMaxRetries == OrDefault(DefaultRetriesOption, 3)

VARIABLES
  row,        \* status column of each execution; "none": no such row
  submit,     \* progress of WorkflowExecutionService.executeWorkflow for it
  queue,      \* this.queue
  job,        \* the QueuedExecution objects that are still reachable
  running,    \* this.runningExecutions: execution -> job whose timer handle is kept
  immediates, \* setImmediate(() => this.processQueue()) callbacks not yet run
  client,     \* the cancel or delete call each client has in progress
  up,         \* is the Node process alive
  restarts, faults

memory == <<queue, job, running, immediates>>
world == <<up, restarts, faults>>
vars == <<row, submit, memory, client, world>>

-----------------------------------------------------------------------------
\* The states.

Active == {"PENDING", "RUNNING"}
Terminal == {"SUCCESS", "FAILED", "CANCELLED"}

\* "queued": in this.queue.  "delayed": held by the setTimeout of processQueue.
\* "marking": the RUNNING write is awaited.  "awaiting": n8n is.  "saving": the
\* SUCCESS write is.  "failing": the FAILED write is.  "over": executeWorkflow
\* has returned, but the job's timer has not.
InFlight == {"marking", "awaiting"}
Stages == {"free", "queued", "delayed", "saving", "failing", "over"} \cup InFlight

\* "stopping": handleExecutionTimeout awaits n8n's answer to the cancel request.
\* "failing": it awaits the FAILED write.
Timers == {"off", "armed", "stopping", "failing"}

JobRecord ==
  [ex : Executions \cup {NoExecution}, priority : Nat, retryCount : Nat,
   maxRetries : Nat, due : BOOLEAN, stage : Stages, timer : Timers]

FreeJob ==
  [ex |-> NoExecution, priority |-> 0, retryCount |-> 0, maxRetries |-> 0,
   due |-> FALSE, stage |-> "free", timer |-> "off"]

ClientRecord ==
  [pc : {"idle", "stopping", "writing", "checking", "removing"},
   ex : Executions \cup {NoExecution}]

IdleClient == [pc |-> "idle", ex |-> NoExecution]

Occupied(held) == {e \in Executions : held[e] # NoJob}

MutantHasSlot(held) == Cardinality(Occupied(held)) <= maxConcurrentExecutions

HasSlot(held) == Cardinality(Occupied(held)) < maxConcurrentExecutions

TypeOK ==
  /\ row \in [Executions -> {"none"} \cup Active \cup Terminal]
  /\ submit \in [Executions -> {"new", "created", "done"}]
  /\ queue \in Seq(Jobs)
  /\ job \in [Jobs -> JobRecord]
  /\ running \in [Executions -> Jobs \cup {NoJob}]
  /\ immediates \in Nat
  /\ client \in [Clients -> ClientRecord]
  /\ up \in BOOLEAN
  /\ restarts \in Nat
  /\ faults \in Nat

Init ==
  /\ row = [e \in Executions |-> "none"]
  /\ submit = [e \in Executions |-> "new"]
  /\ queue = << >>
  /\ job = [j \in Jobs |-> FreeJob]
  /\ running = [e \in Executions |-> NoJob]
  /\ immediates = 0
  /\ client = [c \in Clients |-> IdleClient]
  /\ up = TRUE
  /\ restarts = 0
  /\ faults = 0

-----------------------------------------------------------------------------
\* A job table with one field of one job changed.

WithStage(table, j, stage) == [table EXCEPT ![j].stage = stage]
WithTimer(table, j, timer) == [table EXCEPT ![j].timer = timer]
Due(table, j) == [table EXCEPT ![j].due = TRUE]

\* processQueue, run to its end on a job table, a queue, a map of running
\* executions and a count of immediates that the calling step has computed.

ProcessQueue(table, q, held, ticks) ==
  LET j == Head(q)
      e == table[j].ex IN
  \/ \* every slot is taken, or nothing waits
     /\ q = << >> \/ ~HasSlot(held)
     /\ job' = table
     /\ queue' = q
     /\ running' = held
     /\ immediates' = ticks
  \/ \* the head is a retry that is not due: a timer will put it back
     /\ q # << >> /\ HasSlot(held)
     /\ ~table[j].due
     /\ job' = WithStage(table, j, "delayed")
     /\ queue' = Tail(q)
     /\ running' = held
     /\ immediates' = ticks
  \/ \* executeWorkflow up to its first await, then one more round is scheduled
     /\ q # << >> /\ HasSlot(held)
     /\ table[j].due
     /\ job' = WithTimer(WithStage(table, j, "marking"), j, "armed")
     /\ queue' = Tail(q)
     /\ running' = [held EXCEPT ![e] = j]
     /\ immediates' = ticks + 1

MutantImmediate ==
  /\ ProcessQueue(job, queue, running, immediates - 1)
  /\ UNCHANGED <<row, submit, client, world>>

Immediate ==
  /\ immediates > 0
  /\ ProcessQueue(job, queue, running, immediates - 1)
  /\ UNCHANGED <<row, submit, client, world>>

\* The setTimeout of processQueue: the retry goes back to the front.
DelayElapsed(j) ==
  /\ job[j].stage = "delayed"
  /\ ProcessQueue(Due(WithStage(job, j, "queued"), j),
                  <<j>> \o queue, running, immediates)
  /\ UNCHANGED <<row, submit, client, world>>

\* The clock passes scheduledAt while the retry is still in the queue.
DelayPasses(j) ==
  /\ job[j].stage = "queued" /\ ~job[j].due
  /\ job' = Due(job, j)
  /\ UNCHANGED <<row, submit, queue, running, immediates, client, world>>

-----------------------------------------------------------------------------
\* WorkflowExecutionService.executeWorkflow: the row first, the queue after it.

CreateExecution(e) ==
  /\ up /\ submit[e] = "new"
  /\ submit' = [submit EXCEPT ![e] = "created"]
  /\ row' = [row EXCEPT ![e] = "PENDING"]
  /\ UNCHANGED <<memory, client, world>>

\* The index findIndex picks, or the end: the first item of lower priority.
IsInsertIndex(table, q, i, priority) ==
  /\ \A n \in 1 .. (i - 1) : table[q[n]].priority >= priority
  /\ i <= Len(q) => table[q[i]].priority < priority

Enqueue(e) ==
  /\ submit[e] = "created"
  /\ submit' = [submit EXCEPT ![e] = "done"]
  /\ \E p \in Priorities, r \in RequestedRetries, k \in Jobs, i \in 1 .. (Len(queue) + 1) :
       /\ job[k].stage = "free"
       /\ IsInsertIndex(job, queue, i, p)
       /\ LET new == [ex |-> e, priority |-> p, retryCount |-> 0,
                      maxRetries |-> OrDefault(r, defaultMaxRetries),
                      due |-> TRUE, stage |-> "queued", timer |-> "off"]
          IN ProcessQueue([job EXCEPT ![k] = new], InsertAt(queue, i, k),
                          running, immediates)
  /\ UNCHANGED <<row, client, world>>

-----------------------------------------------------------------------------
\* executeWorkflow and handleExecutionTimeout after their awaits.

\* A job that both activities have left is garbage.
Collect(table, j) ==
  IF table[j].stage = "over" /\ table[j].timer = "off"
  THEN [table EXCEPT ![j] = FreeJob]
  ELSE table

MutantCanRetry(r) == r.retryCount <= r.maxRetries

CanRetry(r) == r.retryCount < r.maxRetries

\* The copy handleExecutionError puts at the front of the queue.
RetryOf(r) ==
  [ex |-> r.ex, priority |-> r.priority, retryCount |-> r.retryCount + 1,
   maxRetries |-> r.maxRetries, due |-> FALSE, stage |-> "queued", timer |-> "off"]

\* Mutant: giving up forgets the FAILED write.
MutantHandleExecutionError(j, retryable, ended, writing) ==
  \/ /\ retryable /\ CanRetry(job[j])
     /\ \E k \in Jobs :
          /\ job[k].stage = "free"
          /\ job' = [Collect(ended, j) EXCEPT ![k] = RetryOf(job[j])]
          /\ queue' = <<k>> \o queue
  \/ /\ ~(retryable /\ CanRetry(job[j]))
     /\ job' = Collect(ended, j)
     /\ UNCHANGED queue

\* handleExecutionError for job j: a retry is queued and the caller is through
\* (table "ended"), or the FAILED write is sent (table "writing").
HandleExecutionError(j, retryable, ended, writing) ==
  \/ /\ retryable /\ CanRetry(job[j])
     /\ \E k \in Jobs :
          /\ job[k].stage = "free"
          /\ job' = [Collect(ended, j) EXCEPT ![k] = RetryOf(job[j])]
          /\ queue' = <<k>> \o queue
  \/ /\ ~(retryable /\ CanRetry(job[j]))
     /\ job' = writing
     /\ UNCHANGED queue

\* The job table once clearTimeout has been called on the handle of job h.
ClearTimer(table, h) ==
  IF table[h].timer = "armed" THEN WithTimer(table, h, "off") ELSE table

\* The catch block of executeWorkflow.  It clears whichever handle the map
\* holds for the execution, its own or that of a later attempt.
Caught(j, retryable) ==
  LET e == job[j].ex
      h == running[e]
      cleared == IF h = NoJob THEN job ELSE ClearTimer(job, h)
  IN /\ running' = [running EXCEPT ![e] = NoJob]
     /\ HandleExecutionError(j, retryable,
          WithStage(cleared, j, "over"), WithStage(cleared, j, "failing"))

\* A write to the row of e is refused: the row is gone, or the database fails.
WriteRefused(e) ==
  \/ row[e] = "none" /\ UNCHANGED faults
  \/ row[e] # "none" /\ faults < MaxFaults /\ faults' = faults + 1

MarkRunning(j) ==
  /\ job[j].stage = "marking"
  /\ row[job[j].ex] # "none"
  /\ row' = [row EXCEPT ![job[j].ex] = "RUNNING"]
  /\ job' = WithStage(job, j, "awaiting")
  /\ UNCHANGED <<submit, queue, running, immediates, client, world>>

MarkRefused(j) ==
  /\ job[j].stage = "marking"
  /\ WriteRefused(job[j].ex)
  /\ Caught(j, TRUE)
  /\ UNCHANGED <<row, submit, immediates, client, up, restarts>>

\* Mutant: the entry of runningExecutions is not deleted.
MutantN8nSucceeds(j) ==
  /\ job[j].stage = "awaiting"
  /\ job' = WithStage(ClearTimer(job, j), j, "saving")
  /\ UNCHANGED <<row, submit, queue, running, immediates, client, world>>

N8nSucceeds(j) ==
  /\ job[j].stage = "awaiting"
  /\ job' = WithStage(ClearTimer(job, j), j, "saving")
  /\ running' = [running EXCEPT ![job[j].ex] = NoJob]
  /\ UNCHANGED <<row, submit, queue, immediates, client, world>>

\* isRetryableError decides on the error n8n's answer was turned into.
N8nFails(j) ==
  /\ job[j].stage = "awaiting"
  /\ \E retryable \in BOOLEAN : Caught(j, retryable)
  /\ UNCHANGED <<row, submit, immediates, client, world>>

SaveResult(j) ==
  /\ job[j].stage = "saving"
  /\ row[job[j].ex] # "none"
  /\ row' = [row EXCEPT ![job[j].ex] = "SUCCESS"]
  /\ job' = Collect(WithStage(job, j, "over"), j)
  /\ UNCHANGED <<submit, queue, running, immediates, client, world>>

\* A refused SUCCESS write lands in the same catch block: n8n's run is retried.
SaveRefused(j) ==
  /\ job[j].stage = "saving"
  /\ WriteRefused(job[j].ex)
  /\ Caught(j, TRUE)
  /\ UNCHANGED <<row, submit, immediates, client, up, restarts>>

WriteFailed(j) ==
  /\ job[j].stage = "failing"
  /\ row[job[j].ex] # "none"
  /\ row' = [row EXCEPT ![job[j].ex] = "FAILED"]
  /\ job' = Collect(WithStage(job, j, "over"), j)
  /\ UNCHANGED <<submit, queue, running, immediates, client, world>>

\* Mutant: the timeout leaves its entry in runningExecutions.
MutantTimerFires(j) ==
  /\ job[j].timer = "armed"
  /\ job' = WithTimer(job, j, "stopping")
  /\ UNCHANGED <<row, submit, queue, running, immediates, client, world>>

TimerFires(j) ==
  /\ job[j].timer = "armed"
  /\ job' = WithTimer(job, j, "stopping")
  /\ running' = [running EXCEPT ![job[j].ex] = NoJob]
  /\ UNCHANGED <<row, submit, queue, immediates, client, world>>

\* n8n's answer to the cancel request, good or bad, is followed by the error path.
TimerStopped(j) ==
  /\ job[j].timer = "stopping"
  /\ HandleExecutionError(j, TRUE,
       WithTimer(job, j, "off"), WithTimer(job, j, "failing"))
  /\ UNCHANGED <<row, submit, running, immediates, client, world>>

TimerWriteFailed(j) ==
  /\ job[j].timer = "failing"
  /\ row[job[j].ex] # "none"
  /\ row' = [row EXCEPT ![job[j].ex] = "FAILED"]
  /\ job' = Collect(WithTimer(job, j, "off"), j)
  /\ UNCHANGED <<submit, queue, running, immediates, client, world>>

-----------------------------------------------------------------------------
\* Clients.  Every request reads the row first and is refused when it is gone;
\* the read is one step with the lookup in memory, which it commutes with.

Begin(c, e) == up /\ client[c].pc = "idle" /\ row[e] # "none"

Goes(c, pc, e) == client' = [client EXCEPT ![c] = [pc |-> pc, ex |-> e]]

Waiting(e) == \E i \in 1 .. Len(queue) : job[queue[i]].ex = e

MutantSplice(q, i) == RemoveAt(q, i + 1)

\* queue.splice(i, 1)
Splice(q, i) == RemoveAt(q, i)

CancelQueued(c, e) ==
  /\ Begin(c, e)
  /\ \E i \in 1 .. Len(queue) :
       /\ job[queue[i]].ex = e
       /\ \A n \in 1 .. (i - 1) : job[queue[n]].ex # e
       /\ job' = [job EXCEPT ![queue[i]] = FreeJob]
       /\ queue' = Splice(queue, i)
  /\ Goes(c, "writing", e)
  /\ UNCHANGED <<row, submit, running, immediates, world>>

CancelRunning(c, e) ==
  /\ Begin(c, e)
  /\ ~Waiting(e) /\ running[e] # NoJob
  /\ job' = ClearTimer(job, running[e])
  /\ running' = [running EXCEPT ![e] = NoJob]
  /\ Goes(c, "stopping", e)
  /\ UNCHANGED <<row, submit, queue, immediates, world>>

\* Not known to the queue: ExecutionService.cancelExecution looks at the row.
CancelElsewhere(c, e) ==
  /\ Begin(c, e)
  /\ ~Waiting(e) /\ running[e] = NoJob
  /\ Goes(c, "checking", e)
  /\ UNCHANGED <<row, submit, memory, world>>

\* POST /executions/:id/cancel calls ExecutionService.cancelExecution at once.
CancelDirect(c, e) ==
  /\ Begin(c, e)
  /\ row[e] \in Active
  /\ Goes(c, "writing", e)
  /\ UNCHANGED <<row, submit, memory, world>>

CancelStopped(c) ==
  /\ client[c].pc = "stopping"
  /\ Goes(c, "writing", client[c].ex)
  /\ UNCHANGED <<row, submit, memory, world>>

\* Mutant: any execution can be cancelled, finished or not.
MutantCancelChecked(c) ==
  /\ client[c].pc = "checking"
  /\ Goes(c, "writing", client[c].ex)
  /\ UNCHANGED <<row, submit, memory, world>>

CancelChecked(c) ==
  /\ client[c].pc = "checking"
  /\ IF row[client[c].ex] \in Active
     THEN Goes(c, "writing", client[c].ex)
     ELSE client' = [client EXCEPT ![c] = IdleClient]
  /\ UNCHANGED <<row, submit, memory, world>>

CancelWritten(c) ==
  /\ client[c].pc = "writing"
  /\ row[client[c].ex] # "none"
  /\ row' = [row EXCEPT ![client[c].ex] = "CANCELLED"]
  /\ client' = [client EXCEPT ![c] = IdleClient]
  /\ UNCHANGED <<submit, memory, world>>

CancelRefused(c) ==
  /\ client[c].pc = "writing"
  /\ WriteRefused(client[c].ex)
  /\ client' = [client EXCEPT ![c] = IdleClient]
  /\ UNCHANGED <<row, submit, memory, up, restarts>>

\* ExecutionService.deleteExecution: any row but a RUNNING one.
DeleteChecked(c, e) ==
  /\ Begin(c, e)
  /\ row[e] # "RUNNING"
  /\ Goes(c, "removing", e)
  /\ UNCHANGED <<row, submit, memory, world>>

\* prisma.execution.delete, or its rejection when the row is gone already.
DeleteRow(c) ==
  /\ client[c].pc = "removing"
  /\ row' = [row EXCEPT ![client[c].ex] = "none"]
  /\ client' = [client EXCEPT ![c] = IdleClient]
  /\ UNCHANGED <<submit, memory, world>>

-----------------------------------------------------------------------------
\* The process dies: all that is not in the database is lost.

ForgetAll ==
  /\ up' = FALSE
  /\ queue' = << >>
  /\ job' = [j \in Jobs |-> FreeJob]
  /\ running' = [e \in Executions |-> NoJob]
  /\ immediates' = 0
  /\ client' = [c \in Clients |-> IdleClient]
  /\ submit' = [e \in Executions |-> IF submit[e] = "created" THEN "done" ELSE submit[e]]
  /\ UNCHANGED <<row, restarts>>

\* A refused FAILED write is an unhandled rejection: executeWorkflow and
\* handleExecutionTimeout are called without await or catch.
FailedWriteRefused(j) ==
  /\ up
  /\ \/ job[j].stage = "failing"
     \/ job[j].timer = "failing"
  /\ WriteRefused(job[j].ex)
  /\ ForgetAll

Crash ==
  /\ up
  /\ faults < MaxFaults
  /\ faults' = faults + 1
  /\ ForgetAll

Restart ==
  /\ ~up
  /\ restarts < MaxRestarts
  /\ up' = TRUE
  /\ restarts' = restarts + 1
  /\ UNCHANGED <<row, submit, memory, client, faults>>

-----------------------------------------------------------------------------
ExecuteStep(j) ==
  \/ MarkRunning(j) \/ MarkRefused(j)
  \/ N8nSucceeds(j) \/ N8nFails(j)
  \/ SaveResult(j) \/ SaveRefused(j)
  \/ WriteFailed(j)

TimerStep(j) == TimerFires(j) \/ TimerStopped(j) \/ TimerWriteFailed(j)

ClientStep(c) ==
  CancelStopped(c) \/ CancelChecked(c) \/ CancelWritten(c) \/ CancelRefused(c) \/ DeleteRow(c)

Request(c, e) ==
  \/ CancelQueued(c, e) \/ CancelRunning(c, e) \/ CancelElsewhere(c, e)
  \/ CancelDirect(c, e) \/ DeleteChecked(c, e)

Next ==
  \/ Immediate
  \/ \E j \in Jobs :
       ExecuteStep(j) \/ TimerStep(j) \/ DelayElapsed(j) \/ DelayPasses(j) \/ FailedWriteRefused(j)
  \/ \E e \in Executions : CreateExecution(e) \/ Enqueue(e)
  \/ \E c \in Clients : ClientStep(c) \/ \E e \in Executions : Request(c, e)
  \/ Crash
  \/ Restart

Spec == Init /\ [][Next]_vars

\* What Node, the database and axios (30 s timeout) promise: callbacks that are
\* due are run and every call is answered.  Nobody has to submit, cancel,
\* delete or crash.
Fairness ==
  /\ WF_vars(Immediate)
  /\ \A j \in Jobs :
       /\ WF_vars(ExecuteStep(j) \/ (job[j].stage = "failing" /\ FailedWriteRefused(j)))
       /\ WF_vars(TimerStep(j) \/ (job[j].timer = "failing" /\ FailedWriteRefused(j)))
       /\ WF_vars(DelayElapsed(j))
       /\ WF_vars(DelayPasses(j))
  /\ \A e \in Executions : WF_vars(Enqueue(e))
  /\ \A c \in Clients : WF_vars(ClientStep(c))

LiveSpec == Spec /\ Fairness

-----------------------------------------------------------------------------
(***************************************************************************)
(* Properties.                                                             *)
(***************************************************************************)

\* The map of running executions never outgrows the configured limit, although
\* its entries are removed by the success path, the catch block, the timeout and
\* cancel, and set again by retries (processQueue's size check is the only guard).
ConcurrencyLimit == Cardinality(Occupied(running)) <= maxConcurrentExecutions

\* The handle kept for an execution is a timer that has not fired, and the attempt
\* it watches has not been answered by n8n: no slot is held by a dead attempt.
HandleOwner ==
  \A e \in Executions : running[e] # NoJob =>
    LET r == job[running[e]]
    IN r.ex = e /\ r.timer = "armed" /\ r.stage \in InFlight

\* Every waiting job is in the queue exactly once and no other job is, whatever
\* mixture of insertions, retries put in front, delayed returns and cancels it went
\* through: nothing is started twice from one entry or forgotten.
QueueExact ==
  /\ \A i, k \in 1 .. Len(queue) : i # k => queue[i] # queue[k]
  /\ \A j \in Jobs : job[j].stage = "queued" <=> \E i \in 1 .. Len(queue) : queue[i] = j

\* Somebody is still going to write the row of e: its submitter, a job, a canceller.
Busy == {"queued", "delayed", "saving", "failing"} \cup InFlight

Held(e) ==
  \/ submit[e] = "created"
  \/ \E j \in Jobs :
       job[j].ex = e /\ (job[j].stage \in Busy \/ job[j].timer \in {"stopping", "failing"})
  \/ \E c \in Clients : client[c].ex = e /\ client[c].pc \in {"stopping", "writing"}

\* As long as the process has not died and the database has refused no write, no
\* execution is left PENDING or RUNNING with nobody in charge of it: every race of
\* timeout, late answer, cancel, delete and retry leaves an owner behind.
NoOrphan ==
  (up /\ restarts = 0 /\ faults = 0) =>
    \A e \in Executions : row[e] \in Active => Held(e)

\* An execution the queue is through with.
Settled(e) ==
  /\ row[e] \in Terminal
  /\ submit[e] = "done"
  /\ \A j \in Jobs : job[j].ex # e
  /\ \A c \in Clients : client[c].ex = e => client[c].pc \notin {"stopping", "writing"}

\* Once the queue is through with an execution its status is final: no stale timer,
\* late answer, cancel request or restart brings it back or rewrites it.
SettledStays ==
  [][\A e \in Executions : Settled(e) =>
       \/ row'[e] = "none"
       \/ row'[e] = row[e] /\ Settled(e)']_vars

\* An attempt can be ended twice, by its timeout and by n8n's late answer, and each
\* end may queue a retry.  The doubling stops there: at most 2^n live attempts of
\* one execution have been retried n times, and none more than maxRetries times.
RetryFanOut ==
  /\ \A j \in Jobs : job[j].retryCount <= job[j].maxRetries
  /\ \A e \in Executions : \A n \in {job[j].retryCount : j \in Jobs} :
       Cardinality({j \in Jobs : job[j].ex = e /\ job[j].retryCount = n}) <= 2 ^ n

\* The queue implements the counting semaphore its option describes.
Slots == INSTANCE ConcurrencySlots
           WITH occupied <- Occupied(running), Limit <- maxConcurrentExecutions

SlotsSpec == Slots!Spec

\* Every slot is given back: by the answer, the timeout, the catch block or a cancel.
SlotsFreed == Slots!Freed

\* A RUNNING execution ends, or is back in the queue, or the process has died.
RunningSettles ==
  \A e \in Executions :
    row[e] = "RUNNING" ~> (row[e] \in Terminal \cup {"none"} \/ Waiting(e) \/ ~up)
=============================================================================
