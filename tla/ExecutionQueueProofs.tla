------------------------ MODULE ExecutionQueueProofs ------------------------
(***************************************************************************)
(* Theorems about ExecutionQueue for every number of executions, jobs,     *)
(* clients, retries, faults and restarts, and every concurrency limit.     *)
(***************************************************************************)
EXTENDS ExecutionQueue, TLAPS, SequenceTheorems, FiniteSetTheorems

JobTable == [Jobs -> JobRecord]
Handles == [Executions -> Jobs \cup {NoJob}]

-----------------------------------------------------------------------------
\* Helpers on sequences and job tables.

\* Inserting or removing an item gives a sequence over the same set.
LEMMA InsertAtType ==
  ASSUME NEW S, NEW q \in Seq(S), NEW k \in S, NEW i \in 1 .. (Len(q) + 1)
  PROVE  InsertAt(q, i, k) \in Seq(S)
<1>1. SubSeq(q, 1, i - 1) \in Seq(S)
  BY SubSeqProperties
<1>2. SubSeq(q, i, Len(q)) \in Seq(S)
  BY SubSeqProperties
<1> QED BY <1>1, <1>2 DEF InsertAt

\* splice(i, 1) gives a sequence over the same set.
LEMMA RemoveAtType ==
  ASSUME NEW S, NEW q \in Seq(S), NEW i \in 1 .. Len(q)
  PROVE  RemoveAt(q, i) \in Seq(S)
<1>1. SubSeq(q, 1, i - 1) \in Seq(S)
  BY SubSeqProperties
<1>2. SubSeq(q, i + 1, Len(q)) \in Seq(S)
  BY SubSeqProperties
<1> QED BY <1>1, <1>2 DEF RemoveAt

\* Changing the stage, the timer or the due flag of a job keeps the table well formed.
LEMMA TableUpdate ==
  ASSUME NEW t \in JobTable, NEW j \in Jobs
  PROVE  /\ \A s \in Stages : WithStage(t, j, s) \in JobTable
         /\ \A m \in Timers : WithTimer(t, j, m) \in JobTable
         /\ Due(t, j) \in JobTable
         /\ \A r \in JobRecord : [t EXCEPT ![j] = r] \in JobTable
         /\ ClearTimer(t, j) \in JobTable
         /\ Collect(t, j) \in JobTable
<1>1. FreeJob \in JobRecord
  BY DEF FreeJob, JobRecord, Stages, Timers
<1>2. "off" \in Timers
  BY DEF Timers
<1> QED BY <1>1, <1>2 DEF JobTable, JobRecord, ClearTimer, Collect, WithStage, WithTimer, Due

\* What those updates change and leave alone.
LEMMA StageEffect ==
  ASSUME NEW t \in JobTable, NEW j \in Jobs, NEW s \in Stages
  PROVE  /\ \A k \in Jobs : k # j => WithStage(t, j, s)[k] = t[k]
         /\ WithStage(t, j, s)[j].stage = s
         /\ WithStage(t, j, s)[j].timer = t[j].timer
         /\ WithStage(t, j, s)[j].ex = t[j].ex
BY DEF JobTable, JobRecord, WithStage

\* WithTimer changes one job's timer and nothing else.
LEMMA TimerEffect ==
  ASSUME NEW t \in JobTable, NEW j \in Jobs, NEW m \in Timers
  PROVE  /\ \A k \in Jobs : k # j => WithTimer(t, j, m)[k] = t[k]
         /\ WithTimer(t, j, m)[j].stage = t[j].stage
         /\ WithTimer(t, j, m)[j].timer = m
         /\ WithTimer(t, j, m)[j].ex = t[j].ex
BY DEF JobTable, JobRecord, WithTimer

\* Due changes neither stage, timer nor execution of any job.
LEMMA DueEffect ==
  ASSUME NEW t \in JobTable, NEW j \in Jobs
  PROVE  /\ \A k \in Jobs : k # j => Due(t, j)[k] = t[k]
         /\ Due(t, j)[j].stage = t[j].stage
         /\ Due(t, j)[j].timer = t[j].timer
         /\ Due(t, j)[j].ex = t[j].ex
BY DEF JobTable, JobRecord, Due

\* clearTimeout leaves stage and execution of every job as they are.
LEMMA ClearEffect ==
  ASSUME NEW t \in JobTable, NEW j \in Jobs
  PROVE  /\ ClearTimer(t, j) \in JobTable
         /\ \A k \in Jobs : /\ ClearTimer(t, j)[k].ex = t[k].ex
                            /\ ClearTimer(t, j)[k].stage = t[k].stage
         /\ \A k \in Jobs : k # j => ClearTimer(t, j)[k] = t[k]
<1>1. CASE t[j].timer = "armed"
  <2>1. "off" \in Timers /\ ClearTimer(t, j) = WithTimer(t, j, "off")
    BY <1>1 DEF Timers, ClearTimer
  <2>2. WithTimer(t, j, "off") \in JobTable
    BY <2>1, TableUpdate
  <2> QED BY <2>1, <2>2, TimerEffect
<1>2. CASE t[j].timer # "armed"
  BY <1>2 DEF ClearTimer
<1> QED BY <1>1, <1>2

-----------------------------------------------------------------------------
\* Type correctness: the shared steps first, then one step per action.

\* The constructor's defaults are numbers, whatever options are given.
LEMMA OptionsAreNat == maxConcurrentExecutions \in Nat /\ defaultMaxRetries \in Nat
BY QueueAssumption DEF maxConcurrentExecutions, defaultMaxRetries, OrDefault

\* processQueue yields a queue, a job table, a map and a count of their types.
LEMMA ProcessQueueType ==
  ASSUME NEW t \in JobTable, NEW q \in Seq(Jobs), NEW h \in Handles, NEW n \in Nat,
         ProcessQueue(t, q, h, n)
  PROVE  job' \in JobTable /\ queue' \in Seq(Jobs) /\ running' \in Handles /\ immediates' \in Nat
<1>1. CASE q = << >> \/ ~HasSlot(h)
  BY <1>1 DEF ProcessQueue, HasSlot
<1>2. CASE q # << >> /\ HasSlot(h)
  <2>1. Head(q) \in Jobs /\ Tail(q) \in Seq(Jobs)
    BY <1>2, HeadTailProperties
  <2>2. "delayed" \in Stages /\ "marking" \in Stages /\ "armed" \in Timers
    BY DEF Stages, InFlight, Timers
  <2>3. WithStage(t, Head(q), "delayed") \in JobTable
    BY <2>1, <2>2, TableUpdate
  <2>4. WithTimer(WithStage(t, Head(q), "marking"), Head(q), "armed") \in JobTable
    BY <2>1, <2>2, TableUpdate
  <2>5. [h EXCEPT ![t[Head(q)].ex] = Head(q)] \in Handles
    BY <2>1 DEF Handles
  <2>6. CASE ~t[Head(q)].due
    BY <1>2, <2>1, <2>3, <2>6 DEF ProcessQueue, HasSlot
  <2>7. CASE t[Head(q)].due
    BY <1>2, <2>1, <2>4, <2>5, <2>7 DEF ProcessQueue, HasSlot
  <2> QED BY <2>6, <2>7
<1> QED BY <1>1, <1>2 DEF HasSlot

\* The copy made for a retry is a job record.
LEMMA RetryOfType ==
  ASSUME NEW r \in JobRecord
  PROVE  RetryOf(r) \in JobRecord
BY DEF RetryOf, JobRecord, Stages, Timers

\* handleExecutionError yields a job table and a queue of their types.
LEMMA HandleErrorType ==
  ASSUME TypeOK, NEW j \in Jobs, NEW b \in BOOLEAN, NEW t \in JobTable, NEW u \in JobTable,
         HandleExecutionError(j, b, t, u)
  PROVE  job' \in JobTable /\ queue' \in Seq(Jobs)
<1>1. job[j] \in JobRecord /\ queue \in Seq(Jobs)
  BY DEF TypeOK
<1>2. CASE job' = u /\ UNCHANGED queue
  BY <1>1, <1>2
<1>3. CASE \E k \in Jobs : /\ job' = [Collect(t, j) EXCEPT ![k] = RetryOf(job[j])]
                          /\ queue' = <<k>> \o queue
  <2>1. PICK k \in Jobs : /\ job' = [Collect(t, j) EXCEPT ![k] = RetryOf(job[j])]
                         /\ queue' = <<k>> \o queue
    BY <1>3
  <2>2. Collect(t, j) \in JobTable
    BY TableUpdate
  <2>3. job' \in JobTable
    BY <1>1, <2>1, <2>2, RetryOfType, TableUpdate
  <2> QED BY <1>1, <2>1, <2>3
<1> QED BY <1>2, <1>3 DEF HandleExecutionError

\* So does the catch block, which also keeps the map well formed.
LEMMA CaughtType ==
  ASSUME TypeOK, NEW j \in Jobs, NEW b \in BOOLEAN, Caught(j, b)
  PROVE  job' \in JobTable /\ queue' \in Seq(Jobs) /\ running' \in Handles
<1> DEFINE e == job[j].ex
           cleared == IF running[e] = NoJob THEN job ELSE ClearTimer(job, running[e])
<1>1. job \in JobTable /\ running \in Handles
  BY DEF TypeOK, JobTable, Handles
<1>2. cleared \in JobTable
  <2>1. CASE running[e] \in Jobs
    BY <1>1, <2>1, TableUpdate
  <2>2. CASE running[e] \notin Jobs
    BY <1>1, <2>2, QueueAssumption DEF Handles, ClearTimer, WithTimer, JobTable
  <2> QED BY <2>1, <2>2
<1>3. "over" \in Stages /\ "failing" \in Stages
  BY DEF Stages
<1>4. /\ WithStage(cleared, j, "over") \in JobTable
      /\ WithStage(cleared, j, "failing") \in JobTable
  BY <1>2, <1>3, TableUpdate
<1>5. running' \in Handles
  BY <1>1 DEF Caught, Handles
<1>6. HandleExecutionError(j, b, WithStage(cleared, j, "over"),
                                 WithStage(cleared, j, "failing"))
  BY DEF Caught
<1> HIDE DEF cleared, e
<1> QED BY <1>4, <1>5, <1>6, HandleErrorType

\* The constructor's state has its types.
LEMMA InitType == Init => TypeOK
<1> SUFFICES ASSUME Init PROVE TypeOK
  OBVIOUS
<1>1. FreeJob \in JobRecord
  BY DEF FreeJob, JobRecord, Stages, Timers
<1>2. IdleClient \in ClientRecord
  BY DEF IdleClient, ClientRecord
<1>3. queue \in Seq(Jobs)
  BY DEF Init
<1> QED BY <1>1, <1>2, <1>3 DEF Init, TypeOK

\* Enqueue's new job, for every priority and retry count a caller may ask for.
LEMMA NewJobType ==
  ASSUME NEW e \in Executions, NEW p \in Priorities, NEW r \in RequestedRetries
  PROVE  [ex |-> e, priority |-> p, retryCount |-> 0,
          maxRetries |-> OrDefault(r, defaultMaxRetries),
          due |-> TRUE, stage |-> "queued", timer |-> "off"] \in JobRecord
<1>1. OrDefault(r, defaultMaxRetries) \in Nat
  BY QueueAssumption, OptionsAreNat DEF OrDefault
<1>2. p \in Nat
  BY QueueAssumption
<1> QED BY <1>1, <1>2 DEF JobRecord, Stages, Timers

\* A client that moves on or becomes idle keeps its type.
LEMMA GoesType ==
  ASSUME TypeOK, NEW c \in Clients, NEW e \in Executions \cup {NoExecution},
         NEW pc \in {"idle", "stopping", "writing", "checking", "removing"}
  PROVE  /\ Goes(c, pc, e) => client' \in [Clients -> ClientRecord]
         /\ client' = [client EXCEPT ![c] = IdleClient] => client' \in [Clients -> ClientRecord]
<1>1. [pc |-> pc, ex |-> e] \in ClientRecord /\ IdleClient \in ClientRecord
  BY DEF ClientRecord, IdleClient
<1> QED BY <1>1 DEF TypeOK, Goes

\* The types of the variables a queue step touches; the rest is unchanged.
QueueTyped ==
  job' \in JobTable /\ queue' \in Seq(Jobs) /\ running' \in Handles /\ immediates' \in Nat

\* Types through enqueue and the rounds of processQueue.
LEMMA QueueStepType ==
  ASSUME TypeOK,
         \/ Immediate
         \/ \E j \in Jobs : DelayElapsed(j) \/ DelayPasses(j)
         \/ \E e \in Executions : Enqueue(e)
  PROVE  TypeOK'
<1>0. job \in JobTable /\ queue \in Seq(Jobs) /\ running \in Handles /\ immediates \in Nat
  BY DEF TypeOK, JobTable, Handles
<1>1. CASE Immediate
  <2>1. immediates - 1 \in Nat
    BY <1>0, <1>1 DEF Immediate
  <2>2. QueueTyped
    BY <1>0, <1>1, <2>1, ProcessQueueType DEF Immediate, QueueTyped
  <2> QED BY <1>1, <2>2 DEF Immediate, QueueTyped, TypeOK, JobTable, Handles, world
<1>2. ASSUME NEW j \in Jobs, DelayElapsed(j) PROVE TypeOK'
  <2>1. Due(WithStage(job, j, "queued"), j) \in JobTable
    BY <1>0, TableUpdate DEF Stages
  <2>2. <<j>> \o queue \in Seq(Jobs)
    BY <1>0
  <2>3. QueueTyped
    BY <1>0, <1>2, <2>1, <2>2, ProcessQueueType DEF DelayElapsed, QueueTyped
  <2> QED BY <1>2, <2>3 DEF DelayElapsed, QueueTyped, TypeOK, JobTable, Handles, world
<1>3. ASSUME NEW j \in Jobs, DelayPasses(j) PROVE TypeOK'
  <2>1. Due(job, j) \in JobTable
    BY <1>0, TableUpdate
  <2> QED BY <1>3, <2>1 DEF DelayPasses, TypeOK, JobTable, world
<1>4. ASSUME NEW e \in Executions, Enqueue(e) PROVE TypeOK'
  <2>1. PICK p \in Priorities, r \in RequestedRetries, k \in Jobs, i \in 1 .. (Len(queue) + 1) :
          ProcessQueue([job EXCEPT ![k] =
                          [ex |-> e, priority |-> p, retryCount |-> 0,
                           maxRetries |-> OrDefault(r, defaultMaxRetries),
                           due |-> TRUE, stage |-> "queued", timer |-> "off"]],
                       InsertAt(queue, i, k), running, immediates)
    BY <1>4 DEF Enqueue
  <2>2. InsertAt(queue, i, k) \in Seq(Jobs)
    BY <1>0, InsertAtType
  <2>3. QueueTyped
    BY <1>0, <2>1, <2>2, NewJobType, TableUpdate, ProcessQueueType DEF QueueTyped
  <2>4. submit' \in [Executions -> {"new", "created", "done"}]
    BY <1>4 DEF Enqueue, TypeOK
  <2> QED BY <1>4, <2>3, <2>4 DEF Enqueue, QueueTyped, TypeOK, JobTable, Handles, world
<1> QED BY <1>1, <1>2, <1>3, <1>4

\* A refused write counts faults as a number.
LEMMA WriteRefusedType ==
  ASSUME TypeOK, NEW e, WriteRefused(e)
  PROVE  faults' \in Nat
BY DEF TypeOK, WriteRefused

\* Types through executeWorkflow and handleExecutionTimeout.
LEMMA JobStepType ==
  ASSUME TypeOK, NEW j \in Jobs, ExecuteStep(j) \/ TimerStep(j)
  PROVE  TypeOK'
<1>0. job \in JobTable /\ queue \in Seq(Jobs) /\ running \in Handles /\ immediates \in Nat
  BY DEF TypeOK, JobTable, Handles
<1>1. \A s \in Stages : WithStage(job, j, s) \in JobTable
  BY <1>0, TableUpdate
<1>2. \A m \in Timers : WithTimer(job, j, m) \in JobTable
  BY <1>0, TableUpdate
<1>3. /\ "awaiting" \in Stages /\ "saving" \in Stages /\ "over" \in Stages /\ "failing" \in Stages
      /\ "stopping" \in Timers /\ "off" \in Timers /\ "failing" \in Timers
  BY DEF Stages, InFlight, Timers
<1>4. CASE MarkRunning(j)
  BY <1>1, <1>3, <1>4 DEF MarkRunning, TypeOK, JobTable, Active, world
<1>5. CASE MarkRefused(j)
  BY <1>5, CaughtType, WriteRefusedType DEF MarkRefused, TypeOK, JobTable, Handles
<1>6. CASE N8nSucceeds(j)
  <2>1. WithStage(ClearTimer(job, j), j, "saving") \in JobTable
    BY <1>0, <1>3, TableUpdate
  <2>2. running' \in Handles
    BY <1>0, <1>6 DEF N8nSucceeds, Handles
  <2> QED BY <1>6, <2>1, <2>2 DEF N8nSucceeds, TypeOK, JobTable, Handles, world
<1>7. CASE N8nFails(j)
  BY <1>7, CaughtType DEF N8nFails, TypeOK, JobTable, Handles, world
<1>8. CASE SaveResult(j)
  <2>1. Collect(WithStage(job, j, "over"), j) \in JobTable
    BY <1>1, <1>3, TableUpdate
  <2> QED BY <1>8, <2>1 DEF SaveResult, TypeOK, JobTable, Terminal, world
<1>9. CASE SaveRefused(j)
  BY <1>9, CaughtType, WriteRefusedType DEF SaveRefused, TypeOK, JobTable, Handles
<1>10. CASE WriteFailed(j)
  <2>1. Collect(WithStage(job, j, "over"), j) \in JobTable
    BY <1>1, <1>3, TableUpdate
  <2> QED BY <1>10, <2>1 DEF WriteFailed, TypeOK, JobTable, Terminal, world
<1>11. CASE TimerFires(j)
  <2>1. running' \in Handles
    BY <1>0, <1>11 DEF TimerFires, Handles
  <2> QED BY <1>2, <1>3, <1>11, <2>1 DEF TimerFires, TypeOK, JobTable, Handles, world
<1>12. CASE TimerStopped(j)
  BY <1>2, <1>3, <1>12, HandleErrorType DEF TimerStopped, TypeOK, JobTable, world
<1>13. CASE TimerWriteFailed(j)
  <2>1. Collect(WithTimer(job, j, "off"), j) \in JobTable
    BY <1>2, <1>3, TableUpdate
  <2> QED BY <1>13, <2>1 DEF TimerWriteFailed, TypeOK, JobTable, Terminal, world
<1> QED BY <1>4, <1>5, <1>6, <1>7, <1>8, <1>9, <1>10, <1>11, <1>12, <1>13
        DEF ExecuteStep, TimerStep

\* Types through cancel and delete.
LEMMA ClientStepType ==
  ASSUME TypeOK, NEW c \in Clients,
         ClientStep(c) \/ \E e \in Executions : Request(c, e)
  PROVE  TypeOK'
<1>0. job \in JobTable /\ queue \in Seq(Jobs) /\ running \in Handles /\ immediates \in Nat
  BY DEF TypeOK, JobTable, Handles
<1>1. client[c].ex \in Executions \cup {NoExecution}
  BY DEF TypeOK, ClientRecord
<1>2. FreeJob \in JobRecord
  BY DEF FreeJob, JobRecord, Stages, Timers
<1>3. CASE CancelStopped(c)
  BY <1>1, <1>3, GoesType DEF CancelStopped, TypeOK, memory, world
<1>4. CASE CancelChecked(c)
  BY <1>1, <1>4, GoesType DEF CancelChecked, TypeOK, memory, world
<1>5. CASE CancelWritten(c)
  BY <1>1, <1>5, GoesType DEF CancelWritten, TypeOK, Terminal, memory, world
<1>6. CASE CancelRefused(c)
  BY <1>1, <1>6, GoesType, WriteRefusedType DEF CancelRefused, TypeOK, memory
<1>7. CASE DeleteRow(c)
  BY <1>1, <1>7, GoesType DEF DeleteRow, TypeOK, memory, world
<1>8. ASSUME NEW e \in Executions, CancelQueued(c, e) PROVE TypeOK'
  <2>1. PICK i \in 1 .. Len(queue) : /\ job' = [job EXCEPT ![queue[i]] = FreeJob]
                                    /\ queue' = Splice(queue, i)
    BY <1>8 DEF CancelQueued
  <2>2. queue[i] \in Jobs
    BY <1>0
  <2>3. job' \in JobTable
    BY <1>0, <1>2, <2>1, <2>2, TableUpdate
  <2>4. queue' \in Seq(Jobs)
    BY <1>0, <2>1, RemoveAtType DEF Splice
  <2> QED BY <1>8, <2>3, <2>4, GoesType DEF CancelQueued, TypeOK, JobTable, world
<1>9. ASSUME NEW e \in Executions, CancelRunning(c, e) PROVE TypeOK'
  <2>1. running[e] \in Jobs
    BY <1>0, <1>9 DEF CancelRunning, Handles
  <2>2. job' \in JobTable
    BY <1>0, <1>9, <2>1, TableUpdate DEF CancelRunning
  <2>3. running' \in Handles
    BY <1>0, <1>9 DEF CancelRunning, Handles
  <2> QED BY <1>9, <2>2, <2>3, GoesType DEF CancelRunning, TypeOK, JobTable, Handles, world
<1>10. ASSUME NEW e \in Executions, CancelElsewhere(c, e) PROVE TypeOK'
  BY <1>10, GoesType DEF CancelElsewhere, TypeOK, memory, world
<1>11. ASSUME NEW e \in Executions, CancelDirect(c, e) PROVE TypeOK'
  BY <1>11, GoesType DEF CancelDirect, TypeOK, memory, world
<1>12. ASSUME NEW e \in Executions, DeleteChecked(c, e) PROVE TypeOK'
  BY <1>12, GoesType DEF DeleteChecked, TypeOK, memory, world
<1> QED BY <1>3, <1>4, <1>5, <1>6, <1>7, <1>8, <1>9, <1>10, <1>11, <1>12
        DEF ClientStep, Request

\* Types through the death of the process.
LEMMA ForgetType ==
  ASSUME TypeOK, ForgetAll, faults' \in Nat
  PROVE  TypeOK'
<1>1. FreeJob \in JobRecord
  BY DEF FreeJob, JobRecord, Stages, Timers
<1>2. IdleClient \in ClientRecord
  BY DEF IdleClient, ClientRecord
<1>3. queue' \in Seq(Jobs)
  BY DEF ForgetAll
<1> QED BY <1>1, <1>2, <1>3 DEF ForgetAll, TypeOK

\* Types through submissions, crashes and restarts.
LEMMA WorldStepType ==
  ASSUME TypeOK,
         \/ \E j \in Jobs : FailedWriteRefused(j)
         \/ \E e \in Executions : CreateExecution(e)
         \/ Crash \/ Restart
  PROVE  TypeOK'
<1>1. ASSUME NEW j \in Jobs, FailedWriteRefused(j) PROVE TypeOK'
  BY <1>1, WriteRefusedType, ForgetType DEF FailedWriteRefused
<1>2. ASSUME NEW e \in Executions, CreateExecution(e) PROVE TypeOK'
  BY <1>2 DEF CreateExecution, TypeOK, Active, memory, world
<1>3. CASE Crash
  <2>1. faults' \in Nat
    BY <1>3 DEF Crash, TypeOK
  <2> QED BY <1>3, <2>1, ForgetType DEF Crash
<1>4. CASE Restart
  BY <1>4 DEF Restart, TypeOK, memory
<1> QED BY <1>1, <1>2, <1>3, <1>4

\* Every step keeps the types.
LEMMA TypeStep == TypeOK /\ [Next]_vars => TypeOK'
<1> SUFFICES ASSUME TypeOK, [Next]_vars PROVE TypeOK'
  OBVIOUS
<1>1. CASE UNCHANGED vars
  BY <1>1 DEF TypeOK, vars, memory, world
<1>2. CASE Next
  BY <1>2, QueueStepType, JobStepType, ClientStepType, WorldStepType DEF Next
<1> QED BY <1>1, <1>2

\* The variables hold values of their types in every reachable state: the queue is a
\* sequence of jobs and no operation on it, on the map or on a job leaves that shape.
THEOREM TypeCorrect == Spec => []TypeOK
BY InitType, TypeStep, PTL DEF Spec

-----------------------------------------------------------------------------
(***************************************************************************)
(* The inductive invariant.  Each part is stated on a job table t, a queue *)
(* q and a map of handles h, so that it can be followed through the tables *)
(* an action computes before processQueue runs.                            *)
(***************************************************************************)

\* QueueExact on t and q.
Exact(t, q) ==
  /\ \A i, k \in 1 .. Len(q) : i # k => q[i] # q[k]
  /\ \A j \in Jobs : t[j].stage = "queued" <=> \E i \in 1 .. Len(q) : q[i] = j

\* HandleOwner on t and h.
Owned(t, h) ==
  \A e \in Executions : h[e] # NoJob =>
    t[h[e]].ex = e /\ t[h[e]].timer = "armed" /\ t[h[e]].stage \in InFlight

\* A job identity that is not in use carries nothing over to its next use, and one
\* that is in use has an execution.
Clean(t) ==
  \A j \in Jobs : IF t[j].stage = "free" THEN t[j] = FreeJob ELSE t[j].ex \in Executions

\* Same queued jobs in both tables.
SameQueued(t, u) == \A j \in Jobs : u[j].stage = "queued" <=> t[j].stage = "queued"

QueueInv(t, q, h) == Exact(t, q) /\ Owned(t, h) /\ Clean(t)

IInv == TypeOK /\ QueueInv(job, queue, running)

\* The invariant gives the two properties the runs check.
LEMMA IInvImplies == IInv => QueueExact /\ HandleOwner
BY DEF IInv, QueueInv, Exact, Owned, QueueExact, HandleOwner

\* r is q with one item more, k at place i, or without its item at place i.
IsInserted(q, r, i, k) ==
  /\ Len(r) = Len(q) + 1
  /\ \A n \in 1 .. (Len(q) + 1) :
       r[n] = IF n < i THEN q[n] ELSE IF n = i THEN k ELSE q[n - 1]

IsRemoved(q, r, i) ==
  /\ Len(r) = Len(q) - 1
  /\ \A n \in 1 .. (Len(q) - 1) : r[n] = IF n < i THEN q[n] ELSE q[n + 1]

\* What splice(i, 0, k) leaves at each place.
LEMMA InsertAtItems ==
  ASSUME NEW q \in Seq(Jobs), NEW k \in Jobs, NEW i \in 1 .. (Len(q) + 1)
  PROVE  /\ InsertAt(q, i, k) \in Seq(Jobs)
         /\ IsInserted(q, InsertAt(q, i, k), i, k)
<1> DEFINE a == SubSeq(q, 1, i - 1)
           b == SubSeq(q, i, Len(q))
<1>1. /\ a \in Seq(Jobs) /\ Len(a) = i - 1
      /\ \A n \in 1 .. (i - 1) : a[n] = q[n]
  BY SubSeqProperties
<1>2. /\ b \in Seq(Jobs) /\ Len(b) = Len(q) - i + 1
      /\ \A n \in 1 .. (Len(q) - i + 1) : b[n] = q[i + n - 1]
  BY SubSeqProperties
<1> DEFINE c == a \o <<k>>
<1>3. InsertAt(q, i, k) = c \o b
  BY DEF InsertAt
<1>4. /\ c \in Seq(Jobs) /\ Len(c) = i
      /\ \A n \in 1 .. i : c[n] = IF n < i THEN q[n] ELSE k
  <2> HIDE DEF a
  <2>1. <<k>> \in Seq(Jobs) /\ Len(<<k>>) = 1 /\ <<k>>[1] = k
    OBVIOUS
  <2>2. \A n \in 1 .. i : n < i => n \in 1 .. (i - 1)
    OBVIOUS
  <2> QED BY <1>1, <2>1, <2>2, ConcatProperties
<1> HIDE DEF a, b, c
<1>5. /\ c \o b \in Seq(Jobs) /\ Len(c \o b) = Len(c) + Len(b)
      /\ \A n \in 1 .. Len(c) + Len(b) : (c \o b)[n] =
           IF n <= Len(c) THEN c[n] ELSE b[n - Len(c)]
  <2>1. b \in Seq(Jobs) /\ c \in Seq(Jobs)
    BY <1>2, <1>4
  <2> QED BY <2>1, ConcatProperties
<1>6. Len(c) + Len(b) = Len(q) + 1
  BY <1>2, <1>4
<1>7. \A n \in 1 .. (Len(q) + 1) : n > i => b[n - i] = q[n - 1]
  <2> TAKE n \in 1 .. (Len(q) + 1)
  <2> HAVE n > i
  <2>1. n - i \in 1 .. (Len(q) - i + 1)
    OBVIOUS
  <2>2. b[n - i] = q[i + (n - i) - 1]
    BY <1>2, <2>1
  <2>3. i + (n - i) - 1 = n - 1
    OBVIOUS
  <2> QED BY <2>2, <2>3
<1>8. \A n \in 1 .. (Len(q) + 1) : (c \o b)[n] =
        IF n < i THEN q[n] ELSE IF n = i THEN k ELSE q[n - 1]
  BY <1>4, <1>5, <1>6, <1>7
<1> QED BY <1>3, <1>5, <1>6, <1>8 DEF IsInserted

\* What splice(i, 1) leaves at each place.
LEMMA RemoveAtItems ==
  ASSUME NEW q \in Seq(Jobs), NEW i \in 1 .. Len(q)
  PROVE  /\ RemoveAt(q, i) \in Seq(Jobs)
         /\ IsRemoved(q, RemoveAt(q, i), i)
<1> DEFINE a == SubSeq(q, 1, i - 1)
           b == SubSeq(q, i + 1, Len(q))
<1>1. /\ a \in Seq(Jobs) /\ Len(a) = i - 1
      /\ \A n \in 1 .. (i - 1) : a[n] = q[n]
  BY SubSeqProperties
<1>2. /\ b \in Seq(Jobs) /\ Len(b) = Len(q) - i
      /\ \A n \in 1 .. (Len(q) - i) : b[n] = q[i + n]
  BY SubSeqProperties
<1>3. RemoveAt(q, i) = a \o b
  BY DEF RemoveAt
<1> HIDE DEF a, b
<1>4. /\ a \o b \in Seq(Jobs) /\ Len(a \o b) = Len(a) + Len(b)
      /\ \A n \in 1 .. Len(a) + Len(b) : (a \o b)[n] =
           IF n <= Len(a) THEN a[n] ELSE b[n - Len(a)]
  <2>1. a \in Seq(Jobs) /\ b \in Seq(Jobs)
    BY <1>1, <1>2
  <2> QED BY <2>1, ConcatProperties
<1>5. Len(a) + Len(b) = Len(q) - 1
  BY <1>1, <1>2
<1>6. \A n \in 1 .. (Len(q) - 1) : n >= i => b[n - (i - 1)] = q[n + 1]
  <2> TAKE n \in 1 .. (Len(q) - 1)
  <2> HAVE n >= i
  <2>1. n - (i - 1) \in 1 .. (Len(q) - i)
    OBVIOUS
  <2>2. b[n - (i - 1)] = q[i + (n - (i - 1))]
    BY <1>2, <2>1
  <2>3. i + (n - (i - 1)) = n + 1
    OBVIOUS
  <2> QED BY <2>2, <2>3
<1>7. ASSUME NEW n \in 1 .. (Len(q) - 1)
      PROVE  (a \o b)[n] = IF n < i THEN q[n] ELSE q[n + 1]
  <2>1. (a \o b)[n] = IF n <= i - 1 THEN a[n] ELSE b[n - (i - 1)]
    BY <1>1, <1>4, <1>5
  <2>2. CASE n < i
    <3>1. n \in 1 .. (i - 1) /\ n <= i - 1
      BY <2>2
    <3> QED BY <1>1, <2>1, <2>2, <3>1
  <2>3. CASE ~(n < i)
    <3>1. ~(n <= i - 1)
      BY <2>3
    <3> QED BY <1>6, <2>1, <2>3, <3>1
  <2> QED BY <2>2, <2>3
<1> QED BY <1>3, <1>4, <1>5, <1>7 DEF IsRemoved

\* unshift is an insertion at the front.
LEMMA PushItems ==
  ASSUME NEW q \in Seq(Jobs), NEW k \in Jobs
  PROVE  /\ <<k>> \o q \in Seq(Jobs)
         /\ IsInserted(q, <<k>> \o q, 1, k)
<1>1. <<k>> \in Seq(Jobs) /\ Len(<<k>>) = 1 /\ <<k>>[1] = k
  OBVIOUS
<1> QED BY <1>1, ConcatProperties DEF IsInserted

\* shift is a removal from the front.
LEMMA TailItems ==
  ASSUME NEW q \in Seq(Jobs), q # << >>
  PROVE  /\ Head(q) \in Jobs /\ Head(q) = q[1] /\ 1 \in 1 .. Len(q)
         /\ Tail(q) \in Seq(Jobs)
         /\ IsRemoved(q, Tail(q), 1)
BY HeadTailProperties DEF IsRemoved

\* A job that enters the queue once, at place i, leaves it exact.
LEMMA ExactInsert ==
  ASSUME NEW t \in JobTable, NEW u \in JobTable, NEW q \in Seq(Jobs), NEW r \in Seq(Jobs),
         NEW k \in Jobs, NEW i \in 1 .. (Len(q) + 1),
         Exact(t, q), t[k].stage # "queued", u[k].stage = "queued",
         \A j \in Jobs : j # k => (u[j].stage = "queued" <=> t[j].stage = "queued"),
         IsInserted(q, r, i, k)
  PROVE  Exact(u, r)
<1> USE DEF IsInserted
<1>1. \A n \in 1 .. Len(q) : q[n] \in Jobs /\ q[n] # k
  BY DEF Exact
<1>2. \A m, n \in 1 .. Len(r) : m # n => r[m] # r[n]
  <2> TAKE m, n \in 1 .. Len(r)
  <2> HAVE m # n
  <2>0. \A x \in 1 .. Len(r) : x # i => r[x] # k
    <3> TAKE x \in 1 .. Len(r)
    <3> HAVE x # i
    <3> DEFINE x0 == IF x < i THEN x ELSE x - 1
    <3>1. x0 \in 1 .. Len(q) /\ r[x] = q[x0]
      OBVIOUS
    <3> QED BY <1>1, <3>1
  <2>1. CASE m = i
    BY <2>0, <2>1
  <2>2. CASE n = i
    BY <2>0, <2>2
  <2>3. CASE m # i /\ n # i
    <3> DEFINE m0 == IF m < i THEN m ELSE m - 1
               n0 == IF n < i THEN n ELSE n - 1
    <3>1. m0 \in 1 .. Len(q) /\ n0 \in 1 .. Len(q) /\ m0 # n0
      BY <2>3
    <3>2. r[m] = q[m0] /\ r[n] = q[n0]
      BY <2>3
    <3> HIDE DEF m0, n0
    <3>3. q[m0] # q[n0]
      BY <3>1 DEF Exact
    <3> QED BY <3>2, <3>3
  <2> QED BY <2>1, <2>2, <2>3
<1>3. ASSUME NEW j \in Jobs
      PROVE  u[j].stage = "queued" <=> \E n \in 1 .. Len(r) : r[n] = j
  <2>1. CASE j = k
    <3>1. r[i] = k /\ i \in 1 .. Len(r)
      OBVIOUS
    <3> QED BY <2>1, <3>1
  <2>2. CASE j # k
    <3>1. ASSUME NEW n \in 1 .. Len(r), r[n] = j
          PROVE  \E m \in 1 .. Len(q) : q[m] = j
      <4>1. CASE n < i
        BY <2>2, <3>1, <4>1
      <4>2. CASE n > i
        <5>1. n - 1 \in 1 .. Len(q) /\ r[n] = q[n - 1]
          BY <4>2
        <5> QED BY <3>1, <5>1
      <4> QED BY <2>2, <3>1, <4>1, <4>2
    <3>2. ASSUME NEW n \in 1 .. Len(q), q[n] = j
          PROVE  \E m \in 1 .. Len(r) : r[m] = j
      <4>1. CASE n < i
        BY <3>2, <4>1
      <4>2. CASE n >= i
        <5>1. n + 1 \in 1 .. Len(r) /\ r[n + 1] = q[(n + 1) - 1]
          BY <4>2
        <5> QED BY <3>2, <5>1
      <4> QED BY <4>1, <4>2
    <3> QED BY <2>2, <3>1, <3>2 DEF Exact
  <2> QED BY <2>1, <2>2
<1> QED BY <1>2, <1>3 DEF Exact

\* A job that leaves the queue from place i leaves it exact.
LEMMA ExactRemove ==
  ASSUME NEW t \in JobTable, NEW u \in JobTable, NEW q \in Seq(Jobs), NEW r \in Seq(Jobs),
         NEW i \in 1 .. Len(q),
         Exact(t, q), u[q[i]].stage # "queued",
         \A j \in Jobs : j # q[i] => (u[j].stage = "queued" <=> t[j].stage = "queued"),
         IsRemoved(q, r, i)
  PROVE  Exact(u, r)
<1> USE DEF IsRemoved
<1>1. \A m, n \in 1 .. Len(r) : m # n => r[m] # r[n]
  <2> TAKE m, n \in 1 .. Len(r)
  <2> HAVE m # n
  <2> DEFINE m0 == IF m < i THEN m ELSE m + 1
             n0 == IF n < i THEN n ELSE n + 1
  <2>1. m0 \in 1 .. Len(q) /\ n0 \in 1 .. Len(q) /\ m0 # n0
    OBVIOUS
  <2>2. r[m] = q[m0] /\ r[n] = q[n0]
    OBVIOUS
  <2> QED BY <2>1, <2>2 DEF Exact
<1>2. ASSUME NEW j \in Jobs
      PROVE  u[j].stage = "queued" <=> \E n \in 1 .. Len(r) : r[n] = j
  <2>1. ASSUME NEW n \in 1 .. Len(r), r[n] = j
        PROVE  u[j].stage = "queued"
    <3> DEFINE n0 == IF n < i THEN n ELSE n + 1
    <3>1. n0 \in 1 .. Len(q) /\ n0 # i /\ q[n0] = j
      BY <2>1
    <3>2. j # q[i] /\ t[j].stage = "queued"
      BY <3>1 DEF Exact
    <3> QED BY <3>2
  <2>2. ASSUME u[j].stage = "queued"
        PROVE  \E n \in 1 .. Len(r) : r[n] = j
    <3>1. j # q[i] /\ t[j].stage = "queued"
      BY <2>2
    <3>2. PICK m \in 1 .. Len(q) : q[m] = j
      BY <3>1 DEF Exact
    <3>3. CASE m < i
      BY <3>2, <3>3
    <3>4. CASE m > i
      <4>1. m - 1 \in 1 .. Len(r) /\ r[m - 1] = q[(m - 1) + 1]
        BY <3>4
      <4> QED BY <3>2, <4>1
    <3>5. m < i \/ m > i
      <4>1. m # i
        BY <3>1, <3>2
      <4> QED BY <4>1
    <3> QED BY <3>3, <3>4, <3>5
  <2> QED BY <2>1, <2>2
<1> QED BY <1>1, <1>2 DEF Exact

\* The head leaves the queue.
LEMMA ExactTail ==
  ASSUME NEW t \in JobTable, NEW u \in JobTable, NEW q \in Seq(Jobs), q # << >>,
         Exact(t, q), u[Head(q)].stage # "queued",
         \A k \in Jobs : k # Head(q) => u[k] = t[k]
  PROVE  Exact(u, Tail(q))
<1> DEFINE r == Tail(q)
<1>1. Head(q) = q[1] /\ 1 \in 1 .. Len(q) /\ r \in Seq(Jobs) /\ IsRemoved(q, r, 1)
  BY TailItems
<1> HIDE DEF r
<1>2. u[q[1]].stage # "queued"
  BY <1>1
<1>3. \A k \in Jobs : k # q[1] => (u[k].stage = "queued" <=> t[k].stage = "queued")
  BY <1>1
<1>4. Exact(u, r)
  BY <1>1, <1>2, <1>3, ExactRemove
<1> QED BY <1>4 DEF r

\* A table with the same waiting jobs agrees with the same queue.
LEMMA ExactSame ==
  ASSUME NEW t, NEW u, NEW q, Exact(t, q), SameQueued(t, u)
  PROVE  Exact(u, q)
BY DEF Exact, SameQueued

-----------------------------------------------------------------------------
\* The invariant through the shared steps.

\* processQueue keeps the invariant, whatever table, queue and map it starts from.
LEMMA ProcessQueueInv ==
  ASSUME NEW t \in JobTable, NEW q \in Seq(Jobs), NEW h \in Handles, NEW n \in Nat,
         QueueInv(t, q, h), ProcessQueue(t, q, h, n)
  PROVE  QueueInv(job', queue', running')
<1>1. CASE job' = t /\ queue' = q /\ running' = h
  BY <1>1
<1>2. CASE /\ q # << >>
           /\ \/ /\ job' = WithStage(t, Head(q), "delayed")
                 /\ running' = h
              \/ /\ job' = WithTimer(WithStage(t, Head(q), "marking"), Head(q), "armed")
                 /\ running' = [h EXCEPT ![t[Head(q)].ex] = Head(q)]
           /\ queue' = Tail(q)
  <2> DEFINE j == Head(q)
  <2>1. /\ j \in Jobs /\ j = q[1] /\ 1 \in 1 .. Len(q)
        /\ Tail(q) \in Seq(Jobs) /\ IsRemoved(q, Tail(q), 1)
    BY <1>2, TailItems
  <2> HIDE DEF j
  <2>2. t[j].stage = "queued"
    BY <2>1 DEF QueueInv, Exact
  <2>3. /\ "delayed" \in Stages /\ "marking" \in Stages /\ "armed" \in Timers
        /\ "marking" \in InFlight /\ "queued" \notin InFlight
    BY DEF Stages, InFlight, Timers
  <2>4. WithStage(t, j, "marking") \in JobTable /\ WithStage(t, j, "delayed") \in JobTable
    BY <2>1, <2>3, TableUpdate
  <2>5. /\ job' \in JobTable
        /\ job'[j].stage \in {"delayed", "marking"} /\ job'[j].ex = t[j].ex
        /\ \A k \in Jobs : k # j => job'[k] = t[k]
    <3>1. CASE job' = WithStage(t, j, "delayed")
      BY <2>1, <2>3, <2>4, <3>1, StageEffect
    <3>2. CASE job' = WithTimer(WithStage(t, j, "marking"), j, "armed")
      <4> DEFINE m == WithStage(t, j, "marking")
      <4>1. m \in JobTable /\ m[j].stage = "marking" /\ m[j].ex = t[j].ex
        BY <2>1, <2>3, <2>4, StageEffect
      <4>2. \A k \in Jobs : k # j => m[k] = t[k]
        BY <2>1, <2>3, StageEffect
      <4> HIDE DEF m
      <4>3. job' = WithTimer(m, j, "armed")
        BY <3>2 DEF m
      <4>4. job' \in JobTable
        BY <2>1, <2>3, <4>1, <4>3, TableUpdate
      <4>5. /\ job'[j].stage = "marking" /\ job'[j].ex = t[j].ex
            /\ \A k \in Jobs : k # j => job'[k] = t[k]
        BY <2>1, <2>3, <4>1, <4>2, <4>3, TimerEffect
      <4> QED BY <4>4, <4>5
    <3> QED BY <1>2, <3>1, <3>2 DEF j
  <2>6. Exact(job', queue')
    <3> DEFINE u == job'
    <3>1. /\ u \in JobTable /\ u[Head(q)].stage # "queued" /\ Exact(t, q)
          /\ \A k \in Jobs : k # Head(q) => u[k] = t[k]
      BY <2>5 DEF QueueInv, j
    <3> HIDE DEF u
    <3>2. Exact(u, Tail(q))
      BY <1>2, <3>1, ExactTail
    <3> QED BY <1>2, <3>2 DEF u
  <2>7. Clean(job')
    BY <2>2, <2>5 DEF QueueInv, Clean
  <2>8. Owned(job', running')
    <3>1. \A e \in Executions : h[e] # NoJob => h[e] \in Jobs /\ h[e] # j
      BY <2>2, <2>3 DEF QueueInv, Owned, Handles
    <3>2. Owned(job', h)
      BY <2>5, <3>1 DEF QueueInv, Owned
    <3>3. CASE running' = h
      BY <3>2, <3>3
    <3>4. CASE /\ job' = WithTimer(WithStage(t, j, "marking"), j, "armed")
               /\ running' = [h EXCEPT ![t[j].ex] = j]
      <4>1. job'[j].stage = "marking" /\ job'[j].timer = "armed"
        BY <2>1, <2>3, <2>4, <3>4, StageEffect, TimerEffect
      <4>2. \A e \in Executions : running'[e] = IF e = t[j].ex THEN j ELSE h[e]
        BY <3>4 DEF Handles
      <4> QED BY <2>3, <2>5, <3>2, <4>1, <4>2 DEF Owned
    <3> QED BY <1>2, <3>3, <3>4 DEF j
  <2> QED BY <2>6, <2>7, <2>8 DEF QueueInv
<1>3. \/ job' = t /\ queue' = q /\ running' = h
      \/ /\ q # << >>
         /\ \/ /\ job' = WithStage(t, Head(q), "delayed")
               /\ running' = h
            \/ /\ job' = WithTimer(WithStage(t, Head(q), "marking"), Head(q), "armed")
               /\ running' = [h EXCEPT ![t[Head(q)].ex] = Head(q)]
         /\ queue' = Tail(q)
  BY DEF ProcessQueue, HasSlot
<1> QED BY <1>1, <1>2, <1>3

\* What the two outcomes of handleExecutionError need of the tables it is given.
LEMMA HandleErrorInv ==
  ASSUME TypeOK, NEW j \in Jobs, NEW b \in BOOLEAN,
         NEW t \in JobTable, NEW u \in JobTable, NEW h \in Handles,
         HandleExecutionError(j, b, t, u),
         QueueInv(t, queue, h), QueueInv(u, queue, h),
         SameQueued(job, t),
         \A k \in Jobs : k # j => (t[k].stage = "free" <=> job[k].stage = "free"),
         job[j].stage # "free", job[j].ex \in Executions
  PROVE  QueueInv(job', queue', h)
<1>1. CASE job' = u /\ UNCHANGED queue
  BY <1>1
<1>2. CASE \E k \in Jobs : /\ job[k].stage = "free"
                          /\ job' = [Collect(t, j) EXCEPT ![k] = RetryOf(job[j])]
                          /\ queue' = <<k>> \o queue
  <2>1. PICK k \in Jobs : /\ job[k].stage = "free"
                         /\ job' = [Collect(t, j) EXCEPT ![k] = RetryOf(job[j])]
                         /\ queue' = <<k>> \o queue
    BY <1>2
  <2> DEFINE c == Collect(t, j)
  <2>2. c \in JobTable
    BY TableUpdate
  <2>3. /\ \A m \in Jobs : m # j => c[m] = t[m]
        /\ \/ c[j] = t[j]
           \/ c[j] = FreeJob /\ t[j].stage = "over"
    BY DEF Collect, JobTable
  <2> HIDE DEF c
  <2>4. k # j /\ t[k].stage = "free"
    BY <2>1
  <2>5. /\ job' \in JobTable
        /\ job'[k].stage = "queued" /\ job'[k].ex = job[j].ex
        /\ \A m \in Jobs : m # k => job'[m] = c[m]
    <3>1. /\ RetryOf(job[j]) \in JobRecord
          /\ RetryOf(job[j]).stage = "queued" /\ RetryOf(job[j]).ex = job[j].ex
      BY RetryOfType DEF TypeOK, RetryOf
    <3> QED BY <2>1, <2>2, <3>1, TableUpdate DEF c, JobTable
  <2>6. queue \in Seq(Jobs)
    BY DEF TypeOK
  <2>7. FreeJob.stage = "free"
    BY DEF FreeJob
  <2>8. \A m \in Jobs : m # k => (job'[m].stage = "queued" <=> t[m].stage = "queued")
    BY <2>3, <2>5, <2>7
  <2>9. Exact(job', queue')
    <3>1. queue' \in Seq(Jobs) /\ IsInserted(queue, queue', 1, k)
      BY <2>1, <2>6, PushItems
    <3>2. 1 \in 1 .. (Len(queue) + 1)
      BY <2>6
    <3>3. Exact(t, queue) /\ t[k].stage # "queued"
      BY <2>4 DEF QueueInv
    <3> QED BY <2>4, <2>5, <2>6, <2>8, <3>1, <3>2, <3>3, ExactInsert
  <2>10. Clean(job')
    BY <2>3, <2>4, <2>5, <2>7 DEF QueueInv, Clean
  <2>11. Owned(job', h)
    <3>1. \A e \in Executions : h[e] # NoJob =>
            h[e] \in Jobs /\ h[e] # k /\ c[h[e]] = t[h[e]]
      BY <2>3, <2>4 DEF QueueInv, Owned, Handles, InFlight
    <3> QED BY <2>5, <3>1 DEF QueueInv, Owned
  <2> QED BY <2>9, <2>10, <2>11 DEF QueueInv
<1> QED BY <1>1, <1>2 DEF HandleExecutionError

-----------------------------------------------------------------------------
\* The invariant, action by action.

\* An empty queue satisfies the invariant.
LEMMA InitInv == Init => IInv
<1> SUFFICES ASSUME Init PROVE IInv
  OBVIOUS
<1>1. TypeOK
  BY InitType
<1>2. \A j \in Jobs : job[j] = FreeJob /\ job[j].stage = "free"
  BY DEF Init, FreeJob
<1>3. Exact(job, queue)
  BY <1>2 DEF Init, Exact
<1>4. Owned(job, running) /\ Clean(job)
  BY <1>2 DEF Init, Owned, Clean
<1> QED BY <1>1, <1>3, <1>4 DEF IInv, QueueInv

\* A round scheduled by setImmediate keeps it.
LEMMA ImmediateInv == IInv /\ Immediate => QueueInv(job', queue', running')
<1> SUFFICES ASSUME IInv, Immediate PROVE QueueInv(job', queue', running')
  OBVIOUS
<1>1. /\ job \in JobTable /\ queue \in Seq(Jobs) /\ running \in Handles
      /\ immediates - 1 \in Nat /\ QueueInv(job, queue, running)
  BY DEF IInv, TypeOK, JobTable, Handles, Immediate
<1> QED BY <1>1, ProcessQueueInv DEF Immediate

\* A retry whose delay is over enters the queue again, at its front.
LEMMA DelayElapsedInv ==
  ASSUME IInv, NEW j \in Jobs, DelayElapsed(j)
  PROVE  QueueInv(job', queue', running')
<1> DEFINE s == WithStage(job, j, "queued")
           t == Due(s, j)
           q == <<j>> \o queue
<1>1. /\ job \in JobTable /\ queue \in Seq(Jobs) /\ running \in Handles
      /\ immediates \in Nat /\ QueueInv(job, queue, running)
      /\ job[j].stage = "delayed" /\ "queued" \in Stages
      /\ "delayed" \notin InFlight /\ "queued" \notin InFlight
  BY DEF IInv, TypeOK, JobTable, Handles, DelayElapsed, Stages, InFlight
<1>2. /\ s \in JobTable /\ s[j].stage = "queued" /\ s[j].ex = job[j].ex
      /\ \A k \in Jobs : k # j => s[k] = job[k]
  BY <1>1, TableUpdate, StageEffect
<1> HIDE DEF s
<1>3. /\ t \in JobTable /\ t[j].stage = "queued" /\ t[j].ex = job[j].ex
      /\ \A k \in Jobs : k # j => t[k] = job[k]
  BY <1>2, TableUpdate, DueEffect
<1>4. q \in Seq(Jobs) /\ IsInserted(queue, q, 1, j) /\ 1 \in 1 .. (Len(queue) + 1)
  BY <1>1, PushItems
<1>5. ProcessQueue(t, q, running, immediates)
  BY DEF DelayElapsed, s
<1> HIDE DEF t, q
<1>6. Exact(t, q)
  BY <1>1, <1>3, <1>4, ExactInsert DEF QueueInv
<1>7. Clean(t)
  BY <1>1, <1>3 DEF QueueInv, Clean
<1>8. Owned(t, running)
  BY <1>1, <1>3 DEF QueueInv, Owned, Handles
<1>9. QueueInv(t, q, running)
  BY <1>6, <1>7, <1>8 DEF QueueInv
<1> QED BY <1>1, <1>3, <1>4, <1>5, <1>9, ProcessQueueInv

\* A new execution is inserted by priority: at some place, once.
LEMMA EnqueueInv ==
  ASSUME IInv, NEW e \in Executions, Enqueue(e)
  PROVE  QueueInv(job', queue', running')
<1>1. /\ job \in JobTable /\ queue \in Seq(Jobs) /\ running \in Handles
      /\ immediates \in Nat /\ QueueInv(job, queue, running)
  BY DEF IInv, TypeOK, JobTable, Handles
<1>2. PICK p \in Priorities, r \in RequestedRetries, k \in Jobs, i \in 1 .. (Len(queue) + 1) :
        /\ job[k].stage = "free"
        /\ ProcessQueue([job EXCEPT ![k] =
                            [ex |-> e, priority |-> p, retryCount |-> 0,
                             maxRetries |-> OrDefault(r, defaultMaxRetries),
                             due |-> TRUE, stage |-> "queued", timer |-> "off"]],
                         InsertAt(queue, i, k), running, immediates)
  BY DEF Enqueue
<1> DEFINE new == [ex |-> e, priority |-> p, retryCount |-> 0,
                   maxRetries |-> OrDefault(r, defaultMaxRetries),
                   due |-> TRUE, stage |-> "queued", timer |-> "off"]
           t == [job EXCEPT ![k] = new]
           q == InsertAt(queue, i, k)
<1>3. new \in JobRecord /\ new.stage = "queued" /\ new.ex = e
  BY NewJobType
<1>4. ProcessQueue(t, q, running, immediates)
  BY <1>2
<1> HIDE DEF new
<1>5. /\ t \in JobTable /\ t[k].stage = "queued" /\ t[k].ex = e
      /\ \A m \in Jobs : m # k => t[m] = job[m]
  BY <1>1, <1>3, TableUpdate DEF JobTable
<1>6. q \in Seq(Jobs) /\ IsInserted(queue, q, i, k)
  BY <1>1, InsertAtItems
<1> HIDE DEF t, q
<1>7. Exact(t, q)
  BY <1>1, <1>2, <1>5, <1>6, ExactInsert DEF QueueInv
<1>8. Clean(t)
  BY <1>1, <1>5 DEF QueueInv, Clean
<1>9. Owned(t, running)
  BY <1>1, <1>2, <1>5 DEF QueueInv, Owned, Handles, InFlight
<1>10. QueueInv(t, q, running)
  BY <1>7, <1>8, <1>9 DEF QueueInv
<1> QED BY <1>1, <1>4, <1>5, <1>6, <1>10, ProcessQueueInv

\* The clock passing scheduledAt changes no stage.
LEMMA DelayPassesInv ==
  ASSUME IInv, NEW j \in Jobs, DelayPasses(j)
  PROVE  QueueInv(job', queue', running')
<1>1. /\ job \in JobTable /\ running \in Handles /\ QueueInv(job, queue, running)
      /\ job[j].stage = "queued" /\ "queued" \notin InFlight
  BY DEF IInv, TypeOK, JobTable, Handles, DelayPasses, InFlight
<1>2. /\ job'[j].stage = "queued" /\ job'[j].ex = job[j].ex
      /\ \A k \in Jobs : k # j => job'[k] = job[k]
  BY <1>1, DueEffect DEF DelayPasses
<1>3. Exact(job', queue)
  BY <1>1, <1>2, ExactSame DEF QueueInv, SameQueued
<1>4. Clean(job') /\ Owned(job', running)
  BY <1>1, <1>2 DEF QueueInv, Clean, Owned, Handles
<1> QED BY <1>3, <1>4 DEF DelayPasses, QueueInv

\* The queue in a table where some jobs have moved on: a job that is not as it was
\* has the same execution, or was given up, and it has not entered or left the queue.
Moved(t) ==
  \A k \in Jobs :
    \/ t[k] = job[k]
    \/ /\ job[k].stage \notin {"free", "queued"}
       /\ t[k] = FreeJob
    \/ /\ job[k].stage # "free" /\ t[k].stage # "free"
       /\ t[k].ex = job[k].ex
       /\ t[k].stage = "queued" <=> job[k].stage = "queued"

\* The map h has no other entries than before, and none for a job that has moved on.
Kept(t, h) ==
  \A e \in Executions : h[e] = NoJob \/ (h[e] = running[e] /\ t[h[e]] = job[h[e]])

\* Jobs that move on, and entries that are deleted, disturb no part of it.
LEMMA MovedInv ==
  ASSUME QueueInv(job, queue, running), NEW t, NEW h, Moved(t), Kept(t, h)
  PROVE  QueueInv(t, queue, h) /\ SameQueued(job, t)
<1>1. FreeJob.stage = "free"
  BY DEF FreeJob
<1>2. SameQueued(job, t)
  BY <1>1 DEF SameQueued, Moved
<1>3. Exact(t, queue)
  BY <1>2, ExactSame DEF QueueInv
<1>4. Clean(t)
  BY <1>1 DEF QueueInv, Clean, Moved
<1>5. Owned(t, h)
  BY DEF QueueInv, Owned, Kept
<1> QED BY <1>2, <1>3, <1>4, <1>5 DEF QueueInv

\* The catch block: it forgets the entry of the execution whoever's it is, so the
\* handle it clears is of no entry that is left.
LEMMA CaughtInv ==
  ASSUME IInv, NEW j \in Jobs, NEW b \in BOOLEAN, Caught(j, b),
         job[j].stage \in InFlight \cup {"saving"}
  PROVE  QueueInv(job', queue', running')
<1> DEFINE e == job[j].ex
           h == running[e]
           t == IF h = NoJob THEN job ELSE ClearTimer(job, h)
           over == WithStage(t, j, "over")
           failing == WithStage(t, j, "failing")
<1>1. /\ TypeOK /\ job \in JobTable /\ running \in Handles
      /\ QueueInv(job, queue, running)
      /\ job[j].stage \notin {"free", "queued"}
      /\ "over" \in Stages /\ "failing" \in Stages /\ "off" \in Timers
      /\ "queued" \notin InFlight /\ "free" \notin InFlight
  BY DEF IInv, TypeOK, JobTable, Handles, Stages, InFlight, Timers
<1>2. e \in Executions
  BY <1>1 DEF QueueInv, Clean
<1>3. h # NoJob => h \in Jobs /\ job[h].ex = e /\ job[h].stage \notin {"free", "queued"}
  BY <1>1, <1>2 DEF QueueInv, Owned, Handles
<1>4. /\ t \in JobTable
      /\ \A k \in Jobs : t[k].ex = job[k].ex /\ t[k].stage = job[k].stage
      /\ \A k \in Jobs : t[k] = job[k] \/ (k = h /\ h # NoJob)
  <2>1. CASE h = NoJob
    BY <1>1, <2>1
  <2>2. CASE h # NoJob
    <3>1. h \in Jobs /\ t = ClearTimer(job, h)
      BY <1>3, <2>2
    <3> DEFINE g == h
    <3> HIDE DEF g, t
    <3>2. g \in Jobs /\ t = ClearTimer(job, g) /\ g = h
      BY <3>1 DEF g
    <3>3. /\ ClearTimer(job, g) \in JobTable
          /\ \A k \in Jobs : ClearTimer(job, g)[k].ex = job[k].ex
                            /\ ClearTimer(job, g)[k].stage = job[k].stage
          /\ \A k \in Jobs : k # g => ClearTimer(job, g)[k] = job[k]
      BY <1>1, <3>2, ClearEffect
    <3> QED BY <2>2, <3>2, <3>3
  <2> QED BY <2>1, <2>2
<1>5. /\ running' = [running EXCEPT ![e] = NoJob]
      /\ HandleExecutionError(j, b, over, failing)
  BY DEF Caught
<1> HIDE DEF t
<1>6. ASSUME NEW s \in {"over", "failing"}
      PROVE  /\ WithStage(t, j, s) \in JobTable
             /\ WithStage(t, j, s)[j].stage = s /\ WithStage(t, j, s)[j].ex = e
             /\ \A k \in Jobs : k # j => WithStage(t, j, s)[k] = t[k]
  <2>1. s \in Stages
    BY <1>1
  <2>2. WithStage(t, j, s)[j].ex = t[j].ex
    BY <1>4, <2>1, StageEffect
  <2> QED BY <1>4, <2>1, <2>2, TableUpdate, StageEffect
<1> HIDE DEF over, failing
<1>7. running' \in Handles /\ \A x \in Executions : running'[x] = IF x = e THEN NoJob ELSE running[x]
  BY <1>1, <1>5 DEF Handles
<1>8. ASSUME NEW u \in JobTable, u = over \/ u = failing
      PROVE  QueueInv(u, queue, running') /\ SameQueued(job, u)
  <2>1. /\ u[j].stage \in {"over", "failing"} /\ u[j].ex = e
        /\ \A k \in Jobs : k # j => u[k] = t[k]
    BY <1>6, <1>8 DEF over, failing
  <2>2. Moved(u)
    BY <1>1, <1>3, <1>4, <2>1 DEF Moved
  <2>3. Kept(u, running')
    <3> SUFFICES ASSUME NEW x \in Executions, running'[x] # NoJob
                 PROVE  running'[x] = running[x] /\ u[running'[x]] = job[running'[x]]
      BY DEF Kept
    <3>1. x # e /\ running'[x] = running[x] /\ running[x] \in Jobs
      BY <1>1, <1>7 DEF Handles
    <3>2. job[running[x]].ex = x
      BY <1>1, <1>7, <3>1 DEF QueueInv, Owned
    <3>3. running[x] # j /\ (running[x] # h \/ h = NoJob)
      BY <1>3, <3>1, <3>2
    <3> QED BY <1>4, <2>1, <3>1, <3>3
  <2> QED BY <1>1, <2>2, <2>3, MovedInv
<1>9. over \in JobTable /\ failing \in JobTable
  BY <1>6 DEF over, failing
<1>10. \A k \in Jobs : k # j => (over[k].stage = "free" <=> job[k].stage = "free")
  BY <1>4, <1>6 DEF over
<1> DEFINE r == running'
<1> HIDE DEF r
<1>11. QueueInv(over, queue, r) /\ QueueInv(failing, queue, r) /\ SameQueued(job, over) /\ r \in Handles
  BY <1>7, <1>8, <1>9 DEF r
<1> QED BY <1>1, <1>2, <1>5, <1>9, <1>10, <1>11, HandleErrorInv DEF r

\* The steps of executeWorkflow.
LEMMA ExecuteInv ==
  ASSUME IInv, NEW j \in Jobs, ExecuteStep(j)
  PROVE  QueueInv(job', queue', running')
<1>1. /\ TypeOK /\ job \in JobTable /\ running \in Handles
      /\ QueueInv(job, queue, running)
      /\ "awaiting" \in Stages /\ "saving" \in Stages /\ "over" \in Stages
      /\ "marking" \in InFlight /\ "awaiting" \in InFlight
      /\ {"saving", "failing", "over", "queued", "free"} \cap InFlight = {}
  BY DEF IInv, TypeOK, JobTable, Handles, Stages, InFlight
<1>2. CASE MarkRefused(j) \/ N8nFails(j) \/ SaveRefused(j)
  <2>1. /\ job[j].stage \in InFlight \cup {"saving"}
        /\ \E b \in BOOLEAN : Caught(j, b)
    BY <1>1, <1>2 DEF MarkRefused, N8nFails, SaveRefused
  <2> QED BY <2>1, CaughtInv
<1>3. CASE MarkRunning(j)
  <2>1. job[j].stage = "marking" /\ job' = WithStage(job, j, "awaiting") /\ UNCHANGED <<queue, running>>
    BY <1>3 DEF MarkRunning
  <2>2. /\ job'[j].stage = "awaiting" /\ job'[j].ex = job[j].ex /\ job'[j].timer = job[j].timer
        /\ \A k \in Jobs : k # j => job'[k] = job[k]
    BY <1>1, <2>1, StageEffect
  <2>3. SameQueued(job, job')
    BY <2>1, <2>2 DEF SameQueued
  <2>4. Exact(job', queue)
    BY <1>1, <2>3, ExactSame DEF QueueInv
  <2>5. Clean(job') /\ Owned(job', running)
    BY <1>1, <2>1, <2>2 DEF QueueInv, Clean, Owned, Handles
  <2> QED BY <2>1, <2>4, <2>5 DEF QueueInv
<1>4. CASE N8nSucceeds(j)
  <2> DEFINE t == ClearTimer(job, j)
             u == WithStage(t, j, "saving")
  <2>1. /\ job[j].stage = "awaiting" /\ job' = u /\ UNCHANGED queue
        /\ running' = [running EXCEPT ![job[j].ex] = NoJob]
    BY <1>4 DEF N8nSucceeds
  <2>2. /\ t \in JobTable /\ t[j].ex = job[j].ex
        /\ \A k \in Jobs : k # j => t[k] = job[k]
    BY <1>1, ClearEffect
  <2> HIDE DEF t
  <2>3. /\ u[j].stage = "saving" /\ u[j].ex = job[j].ex
        /\ \A k \in Jobs : k # j => u[k] = job[k]
    BY <1>1, <2>2, StageEffect
  <2> HIDE DEF u
  <2>4. Moved(u)
    BY <1>1, <2>1, <2>3 DEF Moved
  <2>5. Kept(u, running')
    BY <1>1, <2>1, <2>3 DEF QueueInv, Owned, Handles, Kept
  <2> DEFINE r == running'
  <2> HIDE DEF r
  <2>6. QueueInv(u, queue, r)
    BY <1>1, <2>4, <2>5, MovedInv DEF r
  <2> QED BY <2>1, <2>6 DEF r
<1>5. CASE SaveResult(j) \/ WriteFailed(j)
  <2> DEFINE t == WithStage(job, j, "over")
             u == Collect(t, j)
  <2>1. /\ job[j].stage \in {"saving", "failing"} /\ job' = u /\ UNCHANGED <<queue, running>>
    BY <1>5 DEF SaveResult, WriteFailed
  <2>2. /\ t \in JobTable /\ t[j].stage = "over" /\ t[j].ex = job[j].ex
        /\ \A k \in Jobs : k # j => t[k] = job[k]
    BY <1>1, TableUpdate, StageEffect
  <2> HIDE DEF t
  <2>3. /\ u[j] = t[j] \/ u[j] = FreeJob
        /\ \A k \in Jobs : k # j => u[k] = job[k]
    BY <2>2 DEF Collect, JobTable
  <2> HIDE DEF u
  <2>4. Moved(u)
    BY <1>1, <2>1, <2>2, <2>3 DEF Moved
  <2>5. Kept(u, running)
    BY <1>1, <2>1, <2>3 DEF QueueInv, Owned, Handles, Kept
  <2>6. QueueInv(u, queue, running)
    BY <1>1, <2>4, <2>5, MovedInv
  <2> QED BY <2>1, <2>6
<1> QED BY <1>2, <1>3, <1>4, <1>5 DEF ExecuteStep

\* The steps of handleExecutionTimeout.
LEMMA TimerInv ==
  ASSUME IInv, NEW j \in Jobs, TimerStep(j)
  PROVE  QueueInv(job', queue', running')
<1>1. /\ TypeOK /\ job \in JobTable /\ running \in Handles
      /\ QueueInv(job, queue, running)
      /\ "stopping" \in Timers /\ "off" \in Timers /\ "failing" \in Timers
      /\ job[j].timer # "off"
  BY DEF IInv, TypeOK, JobTable, Handles, Timers, TimerStep, TimerFires, TimerStopped, TimerWriteFailed
<1>2. job[j].stage # "free" /\ job[j].ex \in Executions
  <2>1. FreeJob.timer = "off"
    BY DEF FreeJob
  <2> QED BY <1>1, <2>1 DEF QueueInv, Clean
<1>3. CASE TimerFires(j)
  <2> DEFINE u == WithTimer(job, j, "stopping")
             r == running'
  <2>1. /\ job[j].timer = "armed" /\ job' = u /\ UNCHANGED queue
        /\ r = [running EXCEPT ![job[j].ex] = NoJob]
    BY <1>3 DEF TimerFires
  <2>2. /\ u[j].stage = job[j].stage /\ u[j].ex = job[j].ex
        /\ \A k \in Jobs : k # j => u[k] = job[k]
    BY <1>1, TimerEffect
  <2> HIDE DEF u, r
  <2>3. Moved(u)
    BY <1>2, <2>2 DEF Moved
  <2>4. Kept(u, r)
    BY <1>1, <1>2, <2>1, <2>2 DEF QueueInv, Owned, Handles, Kept
  <2>5. QueueInv(u, queue, r)
    BY <1>1, <2>3, <2>4, MovedInv
  <2> QED BY <2>1, <2>5 DEF r
<1>4. ASSUME NEW t \in JobTable, job[j].timer # "armed",
             t[j].stage = job[j].stage, t[j].ex = job[j].ex,
             \A k \in Jobs : k # j => t[k] = job[k]
      PROVE  QueueInv(t, queue, running) /\ SameQueued(job, t)
  <2>1. Moved(t)
    BY <1>2, <1>4 DEF Moved
  <2>2. Kept(t, running)
    BY <1>1, <1>4 DEF QueueInv, Owned, Handles, Kept
  <2> QED BY <1>1, <2>1, <2>2, MovedInv
<1> DEFINE off == WithTimer(job, j, "off")
           failing == WithTimer(job, j, "failing")
<1>5. /\ off \in JobTable /\ failing \in JobTable
      /\ off[j].stage = job[j].stage /\ off[j].ex = job[j].ex
      /\ failing[j].stage = job[j].stage /\ failing[j].ex = job[j].ex
      /\ \A k \in Jobs : k # j => off[k] = job[k] /\ failing[k] = job[k]
  <2>1. off \in JobTable /\ failing \in JobTable
    BY <1>1, TableUpdate
  <2> QED BY <1>1, <2>1, TimerEffect
<1>6. CASE TimerStopped(j)
  <2>1. job[j].timer # "armed" /\ HandleExecutionError(j, TRUE, off, failing) /\ running' = running
    BY <1>6 DEF TimerStopped
  <2> HIDE DEF off, failing
  <2>2. /\ QueueInv(off, queue, running) /\ SameQueued(job, off)
        /\ QueueInv(failing, queue, running)
    BY <1>4, <1>5, <2>1
  <2>3. \A k \in Jobs : k # j => (off[k].stage = "free" <=> job[k].stage = "free")
    BY <1>5
  <2>4. QueueInv(job', queue', running)
    BY <1>1, <1>2, <1>5, <2>1, <2>2, <2>3, HandleErrorInv
  <2> QED BY <2>1, <2>4
<1>7. CASE TimerWriteFailed(j)
  <2> DEFINE u == Collect(off, j)
  <2>1. job[j].timer # "armed" /\ job' = u /\ UNCHANGED <<queue, running>>
    BY <1>7 DEF TimerWriteFailed
  <2> HIDE DEF off
  <2>2. /\ u[j] = off[j] \/ (u[j] = FreeJob /\ off[j].stage = "over")
        /\ \A k \in Jobs : k # j => u[k] = job[k]
    BY <1>5 DEF Collect, JobTable
  <2> HIDE DEF u
  <2>3. Moved(u)
    BY <1>2, <1>5, <2>2 DEF Moved
  <2>4. Kept(u, running)
    BY <1>1, <2>1, <2>2 DEF QueueInv, Owned, Handles, Kept
  <2>5. QueueInv(u, queue, running)
    BY <1>1, <2>3, <2>4, MovedInv
  <2> QED BY <2>1, <2>5
<1> QED BY <1>3, <1>6, <1>7 DEF TimerStep

\* The requests of clients, and their later steps, which touch no queue state.
LEMMA ClientInv ==
  ASSUME IInv, NEW c \in Clients,
         ClientStep(c) \/ \E e \in Executions : Request(c, e)
  PROVE  QueueInv(job', queue', running')
<1>1. /\ TypeOK /\ job \in JobTable /\ queue \in Seq(Jobs) /\ running \in Handles
      /\ QueueInv(job, queue, running)
  BY DEF IInv, TypeOK, JobTable, Handles
<1>2. CASE UNCHANGED memory
  BY <1>1, <1>2 DEF memory
<1>3. ASSUME NEW e \in Executions, CancelQueued(c, e)
      PROVE  QueueInv(job', queue', running')
  <2>1. PICK i \in 1 .. Len(queue) : /\ job' = [job EXCEPT ![queue[i]] = FreeJob]
                                    /\ queue' = RemoveAt(queue, i)
    BY <1>3 DEF CancelQueued, Splice
  <2> DEFINE u == job'
             q == RemoveAt(queue, i)
  <2>2. queue[i] \in Jobs /\ job[queue[i]].stage = "queued"
    BY <1>1 DEF QueueInv, Exact
  <2>3. FreeJob \in JobRecord /\ FreeJob.stage = "free"
    BY DEF FreeJob, JobRecord, Stages, Timers
  <2>4. /\ u \in JobTable /\ u[queue[i]] = FreeJob
        /\ \A k \in Jobs : k # queue[i] => u[k] = job[k]
    BY <1>1, <2>1, <2>2, <2>3, TableUpdate DEF JobTable
  <2>5. q \in Seq(Jobs) /\ IsRemoved(queue, q, i)
    BY <1>1, RemoveAtItems
  <2> HIDE DEF u, q
  <2>6. Exact(u, q)
    <3>1. u[queue[i]].stage # "queued"
      BY <2>3, <2>4
    <3>2. \A k \in Jobs : k # queue[i] => (u[k].stage = "queued" <=> job[k].stage = "queued")
      BY <2>4
    <3> QED BY <1>1, <2>4, <2>5, <3>1, <3>2, ExactRemove DEF QueueInv
  <2>7. Clean(u)
    BY <1>1, <2>3, <2>4 DEF QueueInv, Clean
  <2>8. Owned(u, running)
    BY <1>1, <2>2, <2>4 DEF QueueInv, Owned, Handles, InFlight
  <2> QED BY <1>3, <2>1, <2>6, <2>7, <2>8 DEF QueueInv, CancelQueued, u, q
<1>4. ASSUME NEW e \in Executions, CancelRunning(c, e)
      PROVE  QueueInv(job', queue', running')
  <2> DEFINE g == running[e]
             u == ClearTimer(job, g)
             r == running'
  <2>1. /\ g \in Jobs /\ job' = u /\ UNCHANGED queue
        /\ \A x \in Executions : r[x] = IF x = e THEN NoJob ELSE running[x]
    BY <1>1, <1>4 DEF CancelRunning, Handles
  <2>2. job[g].ex = e /\ job[g].stage \notin {"free", "queued"}
    BY <1>1, <1>4 DEF CancelRunning, QueueInv, Owned, InFlight
  <2>3. \A x \in Executions : x # e => running[x] # g \/ running[x] = NoJob
    BY <1>1, <2>2 DEF QueueInv, Owned
  <2>4. \A x \in Executions : running[x] \in Jobs \cup {NoJob}
    BY <1>1 DEF Handles
  <2> HIDE DEF g
  <2>5. /\ \A k \in Jobs : u[k].ex = job[k].ex /\ u[k].stage = job[k].stage
        /\ \A k \in Jobs : k # g => u[k] = job[k]
    BY <1>1, <2>1, ClearEffect
  <2> HIDE DEF u, r
  <2>6. Moved(u)
    BY <2>2, <2>5 DEF Moved
  <2>7. Kept(u, r)
    BY <2>1, <2>3, <2>4, <2>5 DEF Kept
  <2>8. QueueInv(u, queue, r)
    BY <1>1, <2>6, <2>7, MovedInv
  <2> QED BY <2>1, <2>8 DEF r
<1>5. \/ UNCHANGED memory
      \/ \E e \in Executions : CancelQueued(c, e) \/ CancelRunning(c, e)
  BY DEF ClientStep, Request, CancelStopped, CancelChecked, CancelWritten, CancelRefused,
         DeleteRow, CancelElsewhere, CancelDirect, DeleteChecked
<1> QED BY <1>2, <1>3, <1>4, <1>5

\* A dead process holds nothing.
LEMMA ForgetInv ==
  ASSUME IInv, ForgetAll
  PROVE  QueueInv(job', queue', running')
<1>1. FreeJob.stage = "free"
  BY DEF FreeJob
<1>2. \A j \in Jobs : job'[j] = FreeJob
  BY DEF ForgetAll
<1>3. Exact(job', queue')
  BY <1>1, <1>2 DEF ForgetAll, Exact
<1>4. Clean(job')
  BY <1>1, <1>2 DEF Clean
<1>5. Owned(job', running')
  BY DEF ForgetAll, Owned
<1> QED BY <1>3, <1>4, <1>5 DEF QueueInv

\* The queue and the jobs that wait agree, and every handle that is kept belongs to
\* an attempt in flight, in every reachable state and for every number of jobs.
THEOREM Inductive == Spec => []IInv
<1>1. IInv /\ [Next]_vars => IInv'
  <2> SUFFICES ASSUME IInv, [Next]_vars PROVE IInv'
    OBVIOUS
  <2>1. TypeOK'
    BY TypeStep DEF IInv
  <2>2. QueueInv(job', queue', running')
    <3>1. QueueInv(job, queue, running)
      BY DEF IInv
    <3>2. CASE UNCHANGED vars
      BY <3>1, <3>2 DEF vars, memory
    <3>3. CASE Immediate
      BY <3>3, ImmediateInv
    <3>4. ASSUME NEW j \in Jobs,
                 ExecuteStep(j) \/ TimerStep(j) \/ DelayElapsed(j) \/ DelayPasses(j) \/ FailedWriteRefused(j)
          PROVE  QueueInv(job', queue', running')
      BY <3>4, ExecuteInv, TimerInv, DelayElapsedInv, DelayPassesInv, ForgetInv DEF FailedWriteRefused
    <3>5. ASSUME NEW e \in Executions, CreateExecution(e) \/ Enqueue(e)
          PROVE  QueueInv(job', queue', running')
      BY <3>1, <3>5, EnqueueInv DEF CreateExecution, memory
    <3>6. ASSUME NEW c \in Clients, ClientStep(c) \/ \E e \in Executions : Request(c, e)
          PROVE  QueueInv(job', queue', running')
      BY <3>6, ClientInv
    <3>7. CASE Crash
      BY <3>7, ForgetInv DEF Crash
    <3>8. CASE Restart
      BY <3>1, <3>8 DEF Restart, memory
    <3> QED BY <3>2, <3>3, <3>4, <3>5, <3>6, <3>7, <3>8 DEF Next
  <2> QED BY <2>1, <2>2 DEF IInv, QueueInv, Exact, Owned, Clean
<1> QED BY <1>1, InitInv, PTL DEF Spec

\* No waiting job is lost or twice in the queue (splice, unshift, shift, cancel).
THEOREM QueueIsExact == Spec => []QueueExact
<1>1. IInv => QueueExact
  BY IInvImplies
<1> QED BY <1>1, Inductive, PTL

\* No slot is held by an attempt that is over, and no entry by another execution's.
THEOREM HandlesAreOwned == Spec => []HandleOwner
<1>1. IInv => HandleOwner
  BY IInvImplies
<1> QED BY <1>1, Inductive, PTL

-----------------------------------------------------------------------------
(***************************************************************************)
(* Slots.  Seen through Occupied(running), every step claims one slot,     *)
(* gives one back, gives all back or does nothing.                         *)
(***************************************************************************)

\* Setting and deleting an entry of runningExecutions.
LEMMA SetEntry ==
  ASSUME NEW h \in Handles, NEW e \in Executions, NEW j \in Jobs
  PROVE  Occupied([h EXCEPT ![e] = j]) = Occupied(h) \cup {e}
BY QueueAssumption DEF Occupied, Handles

\* runningExecutions.delete frees the slot of that execution only.
LEMMA DeleteEntry ==
  ASSUME NEW h \in Handles, NEW e \in Executions
  PROVE  Occupied([h EXCEPT ![e] = NoJob]) = Occupied(h) \ {e}
BY DEF Occupied, Handles

\* Outside the executions there is nothing to set.
LEMMA NoEntry ==
  ASSUME NEW h \in Handles, NEW e, e \notin Executions, NEW v
  PROVE  [h EXCEPT ![e] = v] = h
BY DEF Handles

\* What a step may do to the set of occupied slots.
SlotStep ==
  \/ Occupied(running') = Occupied(running)
  \/ \E e \in Executions : HasSlot(running) /\ Occupied(running') = Occupied(running) \cup {e}
  \/ \E e \in Occupied(running) : Occupied(running') = Occupied(running) \ {e}
  \/ Occupied(running') = {}

\* A round of processQueue claims one slot at most, and only when one is free.
LEMMA ProcessQueueSlots ==
  ASSUME running \in Handles, NEW t, NEW q \in Seq(Jobs), NEW n,
         ProcessQueue(t, q, running, n)
  PROVE  SlotStep
<1> DEFINE e == t[Head(q)].ex
<1>1. CASE running' = running
  BY <1>1 DEF SlotStep
<1>2. CASE q # << >> /\ HasSlot(running) /\ running' = [running EXCEPT ![e] = Head(q)]
  <2>1. Head(q) \in Jobs
    BY <1>2, TailItems
  <2> HIDE DEF e
  <2>2. CASE e \in Executions
    BY <1>2, <2>1, <2>2, SetEntry DEF SlotStep, HasSlot
  <2>3. CASE e \notin Executions
    BY <1>2, <2>3, NoEntry DEF SlotStep
  <2> QED BY <2>2, <2>3
<1> QED BY <1>1, <1>2 DEF ProcessQueue, HasSlot

\* Deleting an entry gives back one slot or none.
LEMMA DeleteSlots ==
  ASSUME running \in Handles, NEW e, running' = [running EXCEPT ![e] = NoJob]
  PROVE  SlotStep
<1>1. CASE e \in Executions
  <2>1. Occupied(running') = Occupied(running) \ {e}
    BY <1>1, DeleteEntry
  <2>2. CASE e \in Occupied(running)
    BY <2>1, <2>2 DEF SlotStep
  <2>3. CASE e \notin Occupied(running)
    <3>1. Occupied(running') = Occupied(running)
      BY <2>1, <2>3
    <3> QED BY <3>1 DEF SlotStep
  <2> QED BY <2>2, <2>3
<1>2. CASE e \notin Executions
  BY <1>2, NoEntry DEF SlotStep
<1> QED BY <1>1, <1>2

\* Every step of the queue is a step of the slots.
LEMMA NextSlots ==
  ASSUME TypeOK, [Next]_vars
  PROVE  SlotStep
<1>0. /\ running \in Handles /\ job \in JobTable /\ queue \in Seq(Jobs)
  BY DEF TypeOK, Handles, JobTable
<1>1. CASE running' = running
  BY <1>1 DEF SlotStep
<1>2. CASE \E e : running' = [running EXCEPT ![e] = NoJob]
  BY <1>0, <1>2, DeleteSlots
<1>3. CASE ForgetAll
  BY <1>3 DEF ForgetAll, SlotStep, Occupied
<1>4. CASE Immediate
  BY <1>0, <1>4, ProcessQueueSlots DEF Immediate
<1>5. ASSUME NEW j \in Jobs, DelayElapsed(j) PROVE SlotStep
  <2>1. <<j>> \o queue \in Seq(Jobs)
    BY <1>0
  <2> QED BY <1>0, <1>5, <2>1, ProcessQueueSlots DEF DelayElapsed
<1>6. ASSUME NEW e \in Executions, Enqueue(e) PROVE SlotStep
  <2>1. PICK k \in Jobs, i \in 1 .. (Len(queue) + 1) :
          \E t : ProcessQueue(t, InsertAt(queue, i, k), running, immediates)
    BY <1>6 DEF Enqueue
  <2>2. InsertAt(queue, i, k) \in Seq(Jobs)
    BY <1>0, InsertAtType
  <2> QED BY <1>0, <2>1, <2>2, ProcessQueueSlots
<1>7. ASSUME NEW j \in Jobs, ExecuteStep(j) \/ TimerStep(j)
      PROVE  running' = running \/ \E e : running' = [running EXCEPT ![e] = NoJob]
  BY <1>7 DEF ExecuteStep, TimerStep, MarkRunning, MarkRefused, N8nSucceeds, N8nFails,
       SaveResult, SaveRefused, WriteFailed, Caught, TimerFires, TimerStopped, TimerWriteFailed
<1>8. ASSUME NEW c \in Clients, ClientStep(c) \/ \E e \in Executions : Request(c, e)
      PROVE  running' = running \/ \E e : running' = [running EXCEPT ![e] = NoJob]
  BY <1>8 DEF ClientStep, Request, CancelStopped, CancelChecked, CancelWritten, CancelRefused,
       DeleteRow, CancelQueued, CancelRunning, CancelElsewhere, CancelDirect, DeleteChecked, memory
<1>9. CASE UNCHANGED vars
  BY <1>1, <1>9 DEF vars, memory
<1>10. CASE Next
  BY <1>1, <1>2, <1>3, <1>4, <1>5, <1>6, <1>7, <1>8, <1>10
     DEF Next, DelayPasses, FailedWriteRefused, CreateExecution, Crash, Restart, memory
<1> QED BY <1>9, <1>10

\* runningExecutions never holds more entries than maxConcurrentExecutions, for every
\* limit, number of executions and mixture of answers, timeouts, retries and cancels.
THEOREM LimitHolds == Spec => []ConcurrencyLimit
<1>1. \A h : IsFiniteSet(Occupied(h))
  BY QueueAssumption, FS_Subset DEF Occupied
<1>2. Init => ConcurrencyLimit
  <2> SUFFICES ASSUME Init PROVE ConcurrencyLimit
    OBVIOUS
  <2>1. Occupied(running) = {}
    BY DEF Init, Occupied
  <2> QED BY <2>1, FS_EmptySet, OptionsAreNat DEF ConcurrencyLimit
<1>3. TypeOK /\ ConcurrencyLimit /\ [Next]_vars => ConcurrencyLimit'
  <2> SUFFICES ASSUME TypeOK, ConcurrencyLimit, [Next]_vars PROVE ConcurrencyLimit'
    OBVIOUS
  <2> DEFINE a == Occupied(running)
             b == Occupied(running')
  <2>1. IsFiniteSet(a) /\ Cardinality(a) \in Nat
    BY <1>1, FS_CardinalityType
  <2>2. CASE b = a
    BY <2>2 DEF ConcurrencyLimit
  <2>3. ASSUME NEW e \in Executions, HasSlot(running), b = a \cup {e}
        PROVE  Cardinality(b) <= maxConcurrentExecutions
    <3>1. Cardinality(b) <= Cardinality(a) + 1
      BY <2>1, <2>3, FS_AddElement
    <3>2. Cardinality(a) < maxConcurrentExecutions
      BY <2>3 DEF HasSlot
    <3>3. Cardinality(b) \in Nat
      BY <1>1, FS_CardinalityType
    <3> HIDE DEF a, b
    <3> QED BY <2>1, <3>1, <3>2, <3>3, OptionsAreNat
  <2>4. CASE b \subseteq a
    <3>1. Cardinality(b) <= Cardinality(a) /\ Cardinality(b) \in Nat
      BY <1>1, <2>1, <2>4, FS_Subset, FS_CardinalityType
    <3>2. Cardinality(a) <= maxConcurrentExecutions
      BY DEF ConcurrencyLimit
    <3>3. Cardinality(b) <= maxConcurrentExecutions
      <4> HIDE DEF a, b
      <4> QED BY <2>1, <3>1, <3>2, OptionsAreNat
    <3> QED BY <3>3 DEF ConcurrencyLimit
  <2>5. SlotStep
    BY NextSlots
  <2> QED BY <2>2, <2>3, <2>4, <2>5 DEF SlotStep, ConcurrencyLimit
<1> QED BY <1>2, <1>3, TypeCorrect, PTL DEF Spec

\* The queue implements the counting semaphore: no step takes two slots, takes one
\* beyond the limit, or gives back a slot together with taking another.
THEOREM ImplementsSlots == Spec => SlotsSpec
<1>1. Init => Slots!Init
  BY DEF Init, Slots!Init, Occupied
<1>2. TypeOK /\ [Next]_vars => [Slots!Next]_(Occupied(running))
  <2> SUFFICES ASSUME TypeOK, [Next]_vars
               PROVE  Slots!Next \/ Occupied(running') = Occupied(running)
    BY DEF Occupied
  <2>1. SlotStep
    BY NextSlots
  <2>2. ASSUME NEW e \in Executions, HasSlot(running),
               Occupied(running') = Occupied(running) \cup {e}
        PROVE  Slots!Claim(e)
    <3>1. Cardinality(Occupied(running)) < maxConcurrentExecutions
      BY <2>2 DEF HasSlot
    <3>2. Occupied(running)' = Occupied(running) \cup {e}
      BY <2>2 DEF Occupied
    <3>3. Slots!Cardinality(Occupied(running)) = Cardinality(Occupied(running))
      BY DEF Slots!Cardinality, Cardinality
    <3> QED BY <3>1, <3>2, <3>3 DEF Slots!Claim
  <2>3. ASSUME NEW e \in Occupied(running), Occupied(running') = Occupied(running) \ {e}
        PROVE  Slots!Release(e) /\ e \in Executions
    BY <2>3 DEF Occupied, Slots!Release
  <2>4. CASE Occupied(running') = {}
    BY <2>4 DEF Occupied, Slots!ReleaseAll, Slots!Next
  <2> QED BY <2>1, <2>2, <2>3, <2>4 DEF SlotStep, Slots!Next
<1> QED BY <1>1, <1>2, TypeCorrect, PTL DEF Spec, SlotsSpec, Slots!Spec

-----------------------------------------------------------------------------
(***************************************************************************)
(* Settled executions.  No step gives a job to an execution that has none, *)
(* except Enqueue, and no request finds one to cancel.                     *)
(***************************************************************************)

NoJobOf(t, e) == \A j \in Jobs : t[j].ex # e

\* No update of a job table gives a job to an execution.
LEMMA UpdateKeepsNone ==
  ASSUME NEW t \in JobTable, NEW j \in Jobs, NEW e \in Executions, NoJobOf(t, e)
  PROVE  /\ \A s \in Stages : NoJobOf(WithStage(t, j, s), e)
         /\ \A m \in Timers : NoJobOf(WithTimer(t, j, m), e)
         /\ NoJobOf(Due(t, j), e)
         /\ \A r \in JobRecord : r.ex # e => NoJobOf([t EXCEPT ![j] = r], e)
         /\ NoJobOf(Collect(t, j), e)
         /\ NoJobOf(ClearTimer(t, j), e)
<1>1. \A s \in Stages : NoJobOf(WithStage(t, j, s), e)
  BY DEF NoJobOf, WithStage, JobTable, JobRecord
<1>2. \A m \in Timers : NoJobOf(WithTimer(t, j, m), e)
  BY DEF NoJobOf, WithTimer, JobTable, JobRecord
<1>3. NoJobOf(Due(t, j), e)
  BY DEF NoJobOf, Due, JobTable, JobRecord
<1>4. \A r \in JobRecord : r.ex # e => NoJobOf([t EXCEPT ![j] = r], e)
  BY DEF NoJobOf, JobTable
<1>5. NoJobOf(Collect(t, j), e)
  <2>1. FreeJob.ex # e
    BY QueueAssumption DEF FreeJob
  <2> QED BY <2>1 DEF NoJobOf, Collect, JobTable
<1>6. NoJobOf(ClearTimer(t, j), e)
  BY ClearEffect DEF NoJobOf
<1> QED BY <1>1, <1>2, <1>3, <1>4, <1>5, <1>6

\* Nor does a round of processQueue.
LEMMA ProcessQueueKeepsNone ==
  ASSUME NEW t \in JobTable, NEW q \in Seq(Jobs), NEW h, NEW n, NEW e \in Executions,
         NoJobOf(t, e), ProcessQueue(t, q, h, n)
  PROVE  NoJobOf(job', e)
<1> DEFINE j == Head(q)
           m == WithStage(t, j, "marking")
<1>1. CASE job' = t
  BY <1>1
<1>2. CASE q # << >> /\ (job' = WithStage(t, j, "delayed") \/ job' = WithTimer(m, j, "armed"))
  <2>1. j \in Jobs
    BY <1>2, TailItems
  <2>2. "delayed" \in Stages /\ "marking" \in Stages /\ "armed" \in Timers
    BY DEF Stages, InFlight, Timers
  <2> HIDE DEF j
  <2>3. m \in JobTable /\ NoJobOf(m, e) /\ NoJobOf(WithStage(t, j, "delayed"), e)
    BY <2>1, <2>2, UpdateKeepsNone, TableUpdate
  <2> HIDE DEF m
  <2>4. NoJobOf(WithTimer(m, j, "armed"), e)
    BY <2>1, <2>2, <2>3, UpdateKeepsNone
  <2> QED BY <1>2, <2>3, <2>4
<1> QED BY <1>1, <1>2 DEF ProcessQueue, HasSlot

\* Nor the error path, whose retry is a job of the execution that failed.
LEMMA HandleErrorKeepsNone ==
  ASSUME TypeOK, NEW j \in Jobs, NEW b, NEW t \in JobTable, NEW u \in JobTable,
         NEW e \in Executions, NoJobOf(job, e), NoJobOf(t, e), NoJobOf(u, e),
         HandleExecutionError(j, b, t, u)
  PROVE  NoJobOf(job', e)
<1>1. CASE job' = u
  BY <1>1
<1>2. ASSUME NEW k \in Jobs, job' = [Collect(t, j) EXCEPT ![k] = RetryOf(job[j])]
      PROVE  NoJobOf(job', e)
  <2> DEFINE c == Collect(t, j)
             r == RetryOf(job[j])
  <2>1. r \in JobRecord
    BY RetryOfType DEF TypeOK
  <2>2. r.ex # e
    BY DEF RetryOf, NoJobOf
  <2>3. c \in JobTable /\ NoJobOf(c, e)
    BY TableUpdate, UpdateKeepsNone
  <2> HIDE DEF c, r
  <2>4. NoJobOf([c EXCEPT ![k] = r], e)
    BY <2>1, <2>2, <2>3, UpdateKeepsNone
  <2> QED BY <1>2, <2>4 DEF c, r
<1> QED BY <1>1, <1>2 DEF HandleExecutionError

\* Nor the catch block in front of it.
LEMMA CaughtKeepsNone ==
  ASSUME TypeOK, NEW j \in Jobs, NEW b, NEW e \in Executions, NoJobOf(job, e), Caught(j, b)
  PROVE  NoJobOf(job', e)
<1> DEFINE h == running[job[j].ex]
           t == IF h = NoJob THEN job ELSE ClearTimer(job, h)
           over == WithStage(t, j, "over")
           failing == WithStage(t, j, "failing")
<1>1. job \in JobTable /\ running \in Handles /\ "over" \in Stages /\ "failing" \in Stages
  BY DEF TypeOK, JobTable, Handles, Stages
<1>2. t \in JobTable /\ NoJobOf(t, e)
  <2>1. CASE h \in Jobs
    BY <1>1, <2>1, ClearEffect, UpdateKeepsNone
  <2>2. CASE h \notin Jobs
    <3>1. t = job
      BY <1>1, <2>2 DEF Handles, ClearTimer, WithTimer, JobTable
    <3> QED BY <1>1, <3>1
  <2> QED BY <2>1, <2>2
<1>3. HandleExecutionError(j, b, over, failing)
  BY DEF Caught
<1> HIDE DEF t
<1>4. over \in JobTable /\ failing \in JobTable /\ NoJobOf(over, e) /\ NoJobOf(failing, e)
  BY <1>1, <1>2, UpdateKeepsNone, TableUpdate
<1> HIDE DEF over, failing
<1> QED BY <1>3, <1>4, HandleErrorKeepsNone

\* An execution that has no job and is not being submitted gets none in any step.
LEMMA NextKeepsNone ==
  ASSUME IInv, [Next]_vars, NEW e \in Executions, NoJobOf(job, e), submit[e] # "created"
  PROVE  NoJobOf(job', e)
<1>1. /\ TypeOK /\ job \in JobTable /\ queue \in Seq(Jobs) /\ running \in Handles
      /\ "queued" \in Stages /\ "awaiting" \in Stages /\ "saving" \in Stages
      /\ "over" \in Stages
      /\ "off" \in Timers /\ "stopping" \in Timers /\ "failing" \in Timers
  BY DEF IInv, TypeOK, JobTable, Handles, Stages, InFlight, Timers
<1>2. CASE UNCHANGED job
  BY <1>2
<1>3. CASE ForgetAll
  <2>1. FreeJob.ex # e
    BY QueueAssumption DEF FreeJob
  <2> QED BY <1>3, <2>1 DEF ForgetAll, NoJobOf
<1>4. CASE Immediate
  BY <1>1, <1>4, ProcessQueueKeepsNone DEF Immediate
<1>5. ASSUME NEW j \in Jobs, DelayElapsed(j) PROVE NoJobOf(job', e)
  <2> DEFINE s == WithStage(job, j, "queued")
  <2>1. s \in JobTable /\ NoJobOf(s, e)
    BY <1>1, UpdateKeepsNone, TableUpdate
  <2>2. ProcessQueue(Due(s, j), <<j>> \o queue, running, immediates)
    BY <1>5 DEF DelayElapsed
  <2> HIDE DEF s
  <2>3. Due(s, j) \in JobTable /\ NoJobOf(Due(s, j), e) /\ <<j>> \o queue \in Seq(Jobs)
    BY <1>1, <2>1, UpdateKeepsNone, TableUpdate
  <2> QED BY <2>2, <2>3, ProcessQueueKeepsNone
<1>6. ASSUME NEW j \in Jobs, DelayPasses(j) PROVE NoJobOf(job', e)
  BY <1>1, <1>6, UpdateKeepsNone DEF DelayPasses
<1>7. ASSUME NEW x \in Executions, Enqueue(x) PROVE NoJobOf(job', e)
  <2>1. PICK p \in Priorities, r \in RequestedRetries, k \in Jobs, i \in 1 .. (Len(queue) + 1) :
          ProcessQueue([job EXCEPT ![k] =
                          [ex |-> x, priority |-> p, retryCount |-> 0,
                           maxRetries |-> OrDefault(r, defaultMaxRetries),
                           due |-> TRUE, stage |-> "queued", timer |-> "off"]],
                       InsertAt(queue, i, k), running, immediates)
    BY <1>7 DEF Enqueue
  <2> DEFINE new == [ex |-> x, priority |-> p, retryCount |-> 0,
                     maxRetries |-> OrDefault(r, defaultMaxRetries),
                     due |-> TRUE, stage |-> "queued", timer |-> "off"]
             t == [job EXCEPT ![k] = new]
  <2>2. new \in JobRecord /\ new.ex # e
    BY <1>7, NewJobType DEF Enqueue
  <2>3. ProcessQueue(t, InsertAt(queue, i, k), running, immediates)
    BY <2>1
  <2> HIDE DEF new
  <2>4. t \in JobTable /\ NoJobOf(t, e)
    BY <1>1, <2>2, UpdateKeepsNone, TableUpdate
  <2> HIDE DEF t
  <2>5. InsertAt(queue, i, k) \in Seq(Jobs)
    BY <1>1, InsertAtType
  <2> QED BY <2>3, <2>4, <2>5, ProcessQueueKeepsNone
<1>8. ASSUME NEW j \in Jobs, ExecuteStep(j) PROVE NoJobOf(job', e)
  <2>1. CASE \E b : Caught(j, b)
    BY <1>1, <2>1, CaughtKeepsNone
  <2>2. CASE MarkRunning(j)
    BY <1>1, <2>2, UpdateKeepsNone DEF MarkRunning
  <2>3. CASE N8nSucceeds(j)
    <3>1. ClearTimer(job, j) \in JobTable /\ NoJobOf(ClearTimer(job, j), e)
      BY <1>1, UpdateKeepsNone, TableUpdate
    <3> QED BY <1>1, <2>3, <3>1, UpdateKeepsNone DEF N8nSucceeds
  <2>4. CASE SaveResult(j) \/ WriteFailed(j)
    <3>1. /\ WithStage(job, j, "over") \in JobTable
          /\ NoJobOf(WithStage(job, j, "over"), e)
      BY <1>1, UpdateKeepsNone, TableUpdate
    <3> QED BY <2>4, <3>1, UpdateKeepsNone DEF SaveResult, WriteFailed
  <2> QED BY <1>8, <2>1, <2>2, <2>3, <2>4 DEF ExecuteStep, MarkRefused, N8nFails, SaveRefused
<1>9. ASSUME NEW j \in Jobs, TimerStep(j) PROVE NoJobOf(job', e)
  <2>1. /\ WithTimer(job, j, "off") \in JobTable /\ WithTimer(job, j, "failing") \in JobTable
        /\ NoJobOf(WithTimer(job, j, "off"), e) /\ NoJobOf(WithTimer(job, j, "failing"), e)
        /\ NoJobOf(WithTimer(job, j, "stopping"), e)
    BY <1>1, UpdateKeepsNone, TableUpdate
  <2>2. CASE TimerFires(j)
    BY <2>1, <2>2 DEF TimerFires
  <2>3. CASE TimerStopped(j)
    BY <1>1, <2>1, <2>3, HandleErrorKeepsNone DEF TimerStopped
  <2>4. CASE TimerWriteFailed(j)
    BY <2>1, <2>4, UpdateKeepsNone DEF TimerWriteFailed
  <2> QED BY <1>9, <2>2, <2>3, <2>4 DEF TimerStep
<1>10. ASSUME NEW c \in Clients, NEW x \in Executions, CancelQueued(c, x) PROVE NoJobOf(job', e)
  <2>1. PICK i \in 1 .. Len(queue) : job' = [job EXCEPT ![queue[i]] = FreeJob]
    BY <1>10 DEF CancelQueued
  <2>2. queue[i] \in Jobs
    BY <1>1
  <2>3. FreeJob \in JobRecord /\ FreeJob.ex # e
    BY QueueAssumption DEF FreeJob, JobRecord, Stages, Timers
  <2> QED BY <1>1, <2>1, <2>2, <2>3, UpdateKeepsNone
<1>11. ASSUME NEW c \in Clients, NEW x \in Executions, CancelRunning(c, x) PROVE NoJobOf(job', e)
  <2>1. running[x] \in Jobs
    BY <1>1, <1>11 DEF CancelRunning, Handles
  <2> QED BY <1>1, <1>11, <2>1, UpdateKeepsNone DEF CancelRunning
<1>12. ASSUME NEW c \in Clients, ClientStep(c) \/ \E x \in Executions : Request(c, x)
       PROVE  NoJobOf(job', e)
  BY <1>2, <1>10, <1>11, <1>12
     DEF ClientStep, Request, CancelStopped, CancelChecked, CancelWritten, CancelRefused,
         DeleteRow, CancelElsewhere, CancelDirect, DeleteChecked, memory
<1>13. CASE Next
  BY <1>2, <1>3, <1>4, <1>5, <1>6, <1>7, <1>8, <1>9, <1>12, <1>13
     DEF Next, FailedWriteRefused, CreateExecution, Crash, Restart, memory
<1>14. CASE UNCHANGED vars
  BY <1>2, <1>14 DEF vars, memory
<1> QED BY <1>13, <1>14

\* What is to be shown of one settled execution e.
KeptSettled(e) ==
  /\ row'[e] \in {row[e], "none"}
  /\ submit'[e] = "done"
  /\ \A c \in Clients : client'[c].ex = e => client'[c].pc \notin {"stopping", "writing"}

\* The parts of Settled that no job is about survive every step as well.
LEMMA NextKeepsSettled ==
  ASSUME IInv, [Next]_vars, NEW e \in Executions, Settled(e)
  PROVE  KeptSettled(e)
<1>1. /\ TypeOK /\ job \in JobTable /\ queue \in Seq(Jobs) /\ running \in Handles
      /\ QueueInv(job, queue, running)
  BY DEF IInv, TypeOK, JobTable, Handles
<1>2. /\ row \in [Executions -> {"none"} \cup Active \cup Terminal]
      /\ submit \in [Executions -> {"new", "created", "done"}]
      /\ client \in [Clients -> ClientRecord]
  BY <1>1 DEF TypeOK
<1>3. /\ row[e] \in Terminal /\ row[e] \notin Active /\ submit[e] = "done"
      /\ NoJobOf(job, e)
      /\ \A c \in Clients : client[c].ex = e => client[c].pc \notin {"stopping", "writing"}
  BY DEF Settled, NoJobOf, Terminal, Active
<1>4. ~Waiting(e) /\ running[e] = NoJob
  <2>1. \A i \in 1 .. Len(queue) : queue[i] \in Jobs
    BY <1>1
  <2>2. running[e] # NoJob => running[e] \in Jobs /\ job[running[e]].ex = e
    BY <1>1 DEF QueueInv, Owned, Handles
  <2> QED BY <1>3, <2>1, <2>2 DEF Waiting, NoJobOf
<1>5. IdleClient.pc = "idle"
  BY DEF IdleClient
<1>6. CASE UNCHANGED <<row, submit, client>>
  BY <1>3, <1>6 DEF KeptSettled
<1>7. ASSUME NEW j \in Jobs, ExecuteStep(j) \/ TimerStep(j) PROVE KeptSettled(e)
  <2>1. job[j].ex # e
    BY <1>3 DEF NoJobOf
  <2>2. /\ UNCHANGED <<submit, client>>
        /\ \/ row' = row
           \/ \E status : row' = [row EXCEPT ![job[j].ex] = status]
    BY <1>7 DEF ExecuteStep, TimerStep, MarkRunning, MarkRefused, N8nSucceeds, N8nFails,
         SaveResult, SaveRefused, WriteFailed, TimerFires, TimerStopped, TimerWriteFailed
  <2> QED BY <1>2, <1>3, <2>1, <2>2 DEF KeptSettled
<1>8. ASSUME NEW x \in Executions, CreateExecution(x) \/ Enqueue(x) PROVE KeptSettled(e)
  <2>1. x # e
    BY <1>3, <1>8 DEF CreateExecution, Enqueue
  <2>2. /\ UNCHANGED client
        /\ row' = row \/ row' = [row EXCEPT ![x] = "PENDING"]
        /\ \E s : submit' = [submit EXCEPT ![x] = s]
    BY <1>8 DEF CreateExecution, Enqueue
  <2> QED BY <1>2, <1>3, <2>1, <2>2 DEF KeptSettled
<1>9. CASE ForgetAll
  BY <1>2, <1>3, <1>5, <1>9 DEF ForgetAll, KeptSettled
<1>10. ASSUME NEW c \in Clients, ClientStep(c) PROVE KeptSettled(e)
  <2>1. UNCHANGED submit
    BY <1>10 DEF ClientStep, CancelStopped, CancelChecked, CancelWritten, CancelRefused, DeleteRow
  <2>2. row'[e] \in {row[e], "none"}
    BY <1>2, <1>3, <1>10
       DEF ClientStep, CancelStopped, CancelChecked, CancelWritten, CancelRefused, DeleteRow
  <2>3. \/ client' = [client EXCEPT ![c] = IdleClient]
        \/ client[c].ex # e /\ client' = [client EXCEPT ![c] = [pc |-> "writing", ex |-> client[c].ex]]
    BY <1>3, <1>10
       DEF ClientStep, CancelStopped, CancelChecked, CancelWritten, CancelRefused, DeleteRow, Goes
  <2> QED BY <1>2, <1>3, <1>5, <2>1, <2>2, <2>3 DEF KeptSettled
<1>11. ASSUME NEW c \in Clients, NEW x \in Executions, Request(c, x) PROVE KeptSettled(e)
  <2>1. UNCHANGED <<row, submit>>
    BY <1>11 DEF Request, CancelQueued, CancelRunning, CancelElsewhere, CancelDirect, DeleteChecked
  <2>2. ASSUME x = e PROVE ~(CancelQueued(c, x) \/ CancelRunning(c, x) \/ CancelDirect(c, x))
    BY <1>3, <1>4, <2>2 DEF CancelQueued, CancelRunning, CancelDirect, Waiting
  <2>3. CASE x = e
    <3>1. \E pc \in {"checking", "removing"} : client' = [client EXCEPT ![c] = [pc |-> pc, ex |-> x]]
      BY <1>11, <2>2, <2>3 DEF Request, CancelElsewhere, DeleteChecked, Goes
    <3> QED BY <1>2, <1>3, <2>1, <3>1 DEF KeptSettled
  <2>4. CASE x # e
    <3>1. \E pc : client' = [client EXCEPT ![c] = [pc |-> pc, ex |-> x]]
      BY <1>11 DEF Request, CancelQueued, CancelRunning, CancelElsewhere, CancelDirect, DeleteChecked, Goes
    <3> QED BY <1>2, <1>3, <2>1, <2>4, <3>1 DEF KeptSettled
  <2> QED BY <2>3, <2>4
<1>12. CASE Next
  BY <1>6, <1>7, <1>8, <1>9, <1>10, <1>11, <1>12
     DEF Next, Immediate, DelayElapsed, DelayPasses, FailedWriteRefused, Crash, Restart
<1>13. CASE UNCHANGED vars
  BY <1>6, <1>13 DEF vars
<1> QED BY <1>12, <1>13

\* Once the queue is through with an execution, no timer, answer, retry, cancel, delete
\* of others, crash or restart changes its status, whatever the numbers of all of them.
THEOREM SettledIsFinal == Spec => SettledStays
<1>1. IInv /\ [Next]_vars =>
        [\A e \in Executions : Settled(e) =>
           \/ row'[e] = "none"
           \/ row'[e] = row[e] /\ Settled(e)']_vars
  <2> SUFFICES ASSUME IInv, [Next]_vars, NEW e \in Executions, Settled(e), row'[e] # "none"
               PROVE  row'[e] = row[e] /\ Settled(e)'
    OBVIOUS
  <2>1. NoJobOf(job, e) /\ submit[e] = "done" /\ row[e] \in Terminal
    BY DEF Settled, NoJobOf
  <2>2. NoJobOf(job', e)
    BY <2>1, NextKeepsNone
  <2>3. KeptSettled(e)
    BY NextKeepsSettled
  <2> QED BY <2>1, <2>2, <2>3 DEF KeptSettled, Settled, NoJobOf
<1> QED BY <1>1, Inductive, PTL DEF Spec, SettledStays

-----------------------------------------------------------------------------
(***************************************************************************)
(* Owners.  As long as nothing crashed and no write was refused, what ends *)
(* an owner's charge of an execution hands it on, to a retry or a request, *)
(* or writes a status that is final.                                       *)
(***************************************************************************)

\* Job j of table t is in charge of e.
HeldBy(t, j, e) == t[j].ex = e /\ (t[j].stage \in Busy \/ t[j].timer \in {"stopping", "failing"})

JobHolds(t, e) == \E j \in Jobs : HeldBy(t, j, e)

ClientHolds(e) == \E c \in Clients : client[c].ex = e /\ client[c].pc \in {"stopping", "writing"}

LEMMA HeldParts == \A e : Held(e) <=> submit[e] = "created" \/ JobHolds(job, e) \/ ClientHolds(e)
  BY DEF Held, JobHolds, HeldBy, ClientHolds

\* A change of one job that leaves it in charge leaves every execution its owner.
LEMMA HeldAfter ==
  ASSUME NEW t, NEW u, NEW j \in Jobs, NEW e, \A i \in Jobs \ {j} : u[i] = t[i],
         HeldBy(t, j, e) => JobHolds(u, e)
  PROVE  JobHolds(t, e) => JobHolds(u, e)
BY DEF JobHolds, HeldBy

\* A free job is in charge of nothing.
LEMMA FreeHoldsNone == ASSUME NEW t, Clean(t), NEW k \in Jobs, t[k].stage = "free", NEW e PROVE ~HeldBy(t, k, e)
BY DEF Clean, FreeJob, HeldBy, Busy, InFlight

\* A cleared handle had not fired.
LEMMA ClearHolds ==
  ASSUME NEW t \in JobTable, NEW j \in Jobs
  PROVE  \A e : \A i \in Jobs : HeldBy(t, i, e) => HeldBy(ClearTimer(t, j), i, e)
<1>1. CASE t[j].timer = "armed"
  <2>1. "off" \in Timers /\ ClearTimer(t, j) = WithTimer(t, j, "off")
    BY <1>1 DEF Timers, ClearTimer
  <2> QED BY <1>1, <2>1, TimerEffect DEF HeldBy
<1>2. CASE t[j].timer # "armed"
  BY <1>2 DEF ClearTimer
<1> QED BY <1>1, <1>2

\* A stage in which a job is in charge, and any change of a timer that has not fired.
LEMMA BusyHolds ==
  ASSUME NEW t \in JobTable, NEW j \in Jobs, NEW s \in Stages, s \in Busy
  PROVE  /\ \A e : \A i \in Jobs : HeldBy(t, i, e) => HeldBy(WithStage(t, j, s), i, e)
         /\ HeldBy(WithStage(t, j, s), j, t[j].ex)
<1> DEFINE u == WithStage(t, j, s)
<1>1. /\ \A k \in Jobs : k # j => u[k] = t[k]
      /\ u[j].stage = s /\ u[j].ex = t[j].ex
  BY StageEffect
<1> HIDE DEF u
<1>2. (\A e : \A i \in Jobs : HeldBy(t, i, e) => HeldBy(u, i, e)) /\ HeldBy(u, j, t[j].ex)
  BY <1>1 DEF HeldBy
<1> QED BY <1>2 DEF u

\* In such a stage its timer does not matter.
LEMMA TimerHolds ==
  ASSUME NEW t \in JobTable, NEW j \in Jobs, NEW m \in Timers, t[j].stage \in Busy \/ m \in {"stopping", "failing"}
  PROVE  \A e : \A i \in Jobs : HeldBy(t, i, e) => HeldBy(WithTimer(t, j, m), i, e)
BY TimerEffect DEF HeldBy

LEMMA ProcessQueueHolds ==
  ASSUME NEW t \in JobTable, NEW q \in Seq(Jobs), NEW h, NEW n, NEW e, JobHolds(t, e), ProcessQueue(t, q, h, n)
  PROVE  JobHolds(job', e)
<1> DEFINE j == Head(q)
           m == WithStage(t, j, "marking")
<1>1. CASE job' = t
  BY <1>1
<1>2. CASE q # << >> /\ (job' = WithStage(t, j, "delayed") \/ job' = WithTimer(m, j, "armed"))
  <2>1. j \in Jobs
    BY <1>2, TailItems
  <2>2. /\ "delayed" \in Stages /\ "delayed" \in Busy /\ "marking" \in Stages /\ "marking" \in Busy
        /\ "armed" \in Timers
    BY DEF Stages, InFlight, Timers, Busy
  <2> HIDE DEF j
  <2>3. \A i \in Jobs : HeldBy(t, i, e) => HeldBy(WithStage(t, j, "delayed"), i, e) /\ HeldBy(m, i, e)
    BY <2>1, <2>2, BusyHolds
  <2>4. m \in JobTable /\ m[j].stage = "marking"
    BY <2>1, <2>2, StageEffect, TableUpdate
  <2> HIDE DEF m
  <2>5. \A i \in Jobs : HeldBy(m, i, e) => HeldBy(WithTimer(m, j, "armed"), i, e)
    BY <2>1, <2>2, <2>4, TimerHolds
  <2> QED BY <1>2, <2>3, <2>5 DEF JobHolds
<1> QED BY <1>1, <1>2 DEF ProcessQueue, HasSlot

\* The error path: in one table the job that failed is through, and a retry takes over;
\* in the other it is about to write FAILED.
LEMMA HandleErrorHolds ==
  ASSUME TypeOK, Clean(job), NEW j \in Jobs, NEW b, NEW t \in JobTable, NEW u \in JobTable, NEW e,
         \A i \in Jobs \ {j} : HeldBy(job, i, e) => HeldBy(t, i, e),
         \A i \in Jobs : HeldBy(job, i, e) => HeldBy(u, i, e),
         HandleExecutionError(j, b, t, u), JobHolds(job, e)
  PROVE  JobHolds(job', e)
<1>1. CASE job' = u
  BY <1>1 DEF JobHolds
<1>2. ASSUME NEW k \in Jobs, job[k].stage = "free", job' = [Collect(t, j) EXCEPT ![k] = RetryOf(job[j])]
      PROVE  JobHolds(job', e)
  <2> DEFINE c == Collect(t, j)
  <2>1. c \in JobTable /\ \A i \in Jobs \ {j} : c[i] = t[i]
    BY TableUpdate DEF Collect, JobTable
  <2> HIDE DEF c
  <2>2. job'[k] = RetryOf(job[j]) /\ \A i \in Jobs \ {j, k} : job'[i] = t[i]
    BY <1>2, <2>1 DEF c, JobTable
  <2>3. HeldBy(job', k, job[j].ex)
    BY <2>2 DEF HeldBy, RetryOf, Busy
  <2>4. PICK i \in Jobs : HeldBy(job, i, e)
    BY DEF JobHolds
  <2>5. i # k
    BY <1>2, <2>4, FreeHoldsNone
  <2>6. CASE i = j
    BY <2>3, <2>4, <2>6 DEF JobHolds, HeldBy
  <2>7. CASE i # j
    <3>1. HeldBy(t, i, e) /\ job'[i] = t[i]
      BY <2>2, <2>4, <2>5, <2>7
    <3> QED BY <3>1 DEF JobHolds, HeldBy
  <2> QED BY <2>6, <2>7
<1> QED BY <1>1, <1>2 DEF HandleExecutionError

LEMMA CaughtHolds ==
  ASSUME TypeOK, Clean(job), NEW j \in Jobs, NEW b, NEW e, Caught(j, b), JobHolds(job, e)
  PROVE  JobHolds(job', e)
<1> DEFINE h == running[job[j].ex]
           t == IF h = NoJob THEN job ELSE ClearTimer(job, h)
           over == WithStage(t, j, "over")
           failing == WithStage(t, j, "failing")
<1>1. job \in JobTable /\ running \in Handles /\ "over" \in Stages /\ "failing" \in Stages /\ "failing" \in Busy
  BY DEF TypeOK, JobTable, Handles, Stages, Busy
<1>2. t \in JobTable /\ \A i \in Jobs : HeldBy(job, i, e) => HeldBy(t, i, e)
  <2>1. CASE h \in Jobs
    BY <1>1, <2>1, ClearEffect, ClearHolds
  <2>2. CASE h \notin Jobs
    <3>1. t = job
      BY <1>1, <2>2 DEF Handles, ClearTimer, WithTimer, JobTable
    <3> QED BY <1>1, <3>1
  <2> QED BY <2>1, <2>2
<1>3. HandleExecutionError(j, b, over, failing)
  BY DEF Caught
<1> HIDE DEF t
<1>4. over \in JobTable /\ failing \in JobTable /\ \A i \in Jobs \ {j} : over[i] = t[i]
  BY <1>1, <1>2, StageEffect, TableUpdate
<1>5. \A i \in Jobs : HeldBy(t, i, e) => HeldBy(failing, i, e)
  BY <1>1, <1>2, BusyHolds
<1>6. \A i \in Jobs \ {j} : HeldBy(t, i, e) => HeldBy(over, i, e)
  BY <1>4 DEF HeldBy
<1> HIDE DEF over, failing
<1> QED BY <1>2, <1>3, <1>4, <1>5, <1>6, HandleErrorHolds

\* No step of the queue, its timers or their awaits takes an execution's last owner from it
\* while the execution waits or runs.
LEMMA JobStepHolds ==
  ASSUME IInv, NEW e \in Executions, Held(e), row'[e] \in Active,
         \/ Immediate
         \/ \E j \in Jobs : ExecuteStep(j) \/ TimerStep(j) \/ DelayElapsed(j) \/ DelayPasses(j)
  PROVE  Held(e)'
<1>1. /\ TypeOK /\ job \in JobTable /\ queue \in Seq(Jobs) /\ Clean(job)
      /\ row \in [Executions -> {"none"} \cup Active \cup Terminal]
      /\ "queued" \in Stages /\ "queued" \in Busy /\ "awaiting" \in Stages /\ "awaiting" \in Busy
      /\ "saving" \in Stages /\ "saving" \in Busy /\ "over" \in Stages
      /\ "off" \in Timers /\ "stopping" \in Timers /\ "failing" \in Timers
  BY DEF IInv, QueueInv, TypeOK, JobTable, Stages, InFlight, Timers, Busy
<1>2. UNCHANGED <<submit, client>>
  BY DEF Immediate, ExecuteStep, MarkRunning, MarkRefused, N8nSucceeds, N8nFails, SaveResult, SaveRefused,
     WriteFailed, TimerStep, TimerFires, TimerStopped, TimerWriteFailed, DelayElapsed, DelayPasses
<1>3. SUFFICES ASSUME JobHolds(job, e) PROVE JobHolds(job', e)
  <2>1. \/ submit[e] = "created" \/ JobHolds(job, e) \/ ClientHolds(e)
    BY HeldParts
  <2>2. (submit[e] = "created" \/ ClientHolds(e)) => Held(e)'
    BY <1>2 DEF Held, ClientHolds
  <2>3. JobHolds(job', e) => Held(e)'
    BY DEF Held, JobHolds, HeldBy
  <2> QED BY <2>1, <2>2, <2>3
<1>4. CASE Immediate
  BY <1>1, <1>3, <1>4, ProcessQueueHolds DEF Immediate
<1>5. ASSUME NEW j \in Jobs, DelayElapsed(j) PROVE JobHolds(job', e)
  <2> DEFINE s == WithStage(job, j, "queued")
             d == Due(s, j)
  <2>1. s \in JobTable /\ JobHolds(s, e)
    BY <1>1, <1>3, BusyHolds, TableUpdate DEF JobHolds
  <2>2. ProcessQueue(d, <<j>> \o queue, running, immediates)
    BY <1>5 DEF DelayElapsed
  <2> HIDE DEF s
  <2>3. /\ d \in JobTable /\ \A i \in Jobs \ {j} : d[i] = s[i]
        /\ d[j].ex = s[j].ex /\ d[j].stage = s[j].stage /\ d[j].timer = s[j].timer
    BY <2>1, DueEffect, TableUpdate
  <2> HIDE DEF d
  <2>4. JobHolds(d, e)
    BY <2>1, <2>3 DEF JobHolds, HeldBy
  <2>5. <<j>> \o queue \in Seq(Jobs)
    BY <1>1
  <2> QED BY <2>2, <2>3, <2>4, <2>5, ProcessQueueHolds
<1>6. ASSUME NEW j \in Jobs, DelayPasses(j) PROVE JobHolds(job', e)
  BY <1>1, <1>3, <1>6, DueEffect DEF DelayPasses, JobHolds, HeldBy
<1>7. ASSUME NEW j \in Jobs, NEW u \in JobTable, \A i \in Jobs \ {j} : u[i] = job[i],
             job' = Collect(u, j), row' = [row EXCEPT ![job[j].ex] = "SUCCESS"] \/ row' = [row EXCEPT ![job[j].ex] = "FAILED"]
      PROVE  JobHolds(job', e)
  <2>1. job[j].ex # e
    BY <1>1, <1>7 DEF Active
  <2>2. \A i \in Jobs \ {j} : job'[i] = job[i]
    BY <1>7 DEF Collect, JobTable
  <2> QED BY <1>3, <2>1, <2>2 DEF JobHolds, HeldBy
<1>8. ASSUME NEW j \in Jobs, ExecuteStep(j) PROVE JobHolds(job', e)
  <2>1. CASE \E b : Caught(j, b)
    BY <1>1, <1>3, <2>1, CaughtHolds
  <2>2. CASE MarkRunning(j)
    BY <1>1, <1>3, <2>2, BusyHolds DEF MarkRunning, JobHolds
  <2>3. CASE N8nSucceeds(j)
    <3> DEFINE t == ClearTimer(job, j)
    <3>1. t \in JobTable /\ \A i \in Jobs : HeldBy(job, i, e) => HeldBy(t, i, e)
      BY <1>1, ClearHolds, TableUpdate
    <3>2. job' = WithStage(t, j, "saving")
      BY <2>3 DEF N8nSucceeds
    <3> HIDE DEF t
    <3> QED BY <1>1, <1>3, <3>1, <3>2, BusyHolds DEF JobHolds
  <2>4. CASE SaveResult(j) \/ WriteFailed(j)
    <3>1. WithStage(job, j, "over") \in JobTable /\ \A i \in Jobs \ {j} : WithStage(job, j, "over")[i] = job[i]
      BY <1>1, StageEffect, TableUpdate
    <3> QED BY <1>7, <2>4, <3>1 DEF SaveResult, WriteFailed
  <2> QED BY <1>8, <2>1, <2>2, <2>3, <2>4 DEF ExecuteStep, MarkRefused, N8nFails, SaveRefused
<1>9. ASSUME NEW j \in Jobs, TimerStep(j) PROVE JobHolds(job', e)
  <2> DEFINE off == WithTimer(job, j, "off")
             failing == WithTimer(job, j, "failing")
  <2>1. /\ off \in JobTable /\ failing \in JobTable /\ \A i \in Jobs \ {j} : off[i] = job[i]
    BY <1>1, TimerEffect, TableUpdate
  <2>2. \A i \in Jobs : HeldBy(job, i, e) => HeldBy(failing, i, e)
    BY <1>1, TimerHolds
  <2>3. \A i \in Jobs : HeldBy(job, i, e) => HeldBy(WithTimer(job, j, "stopping"), i, e)
    BY <1>1, TimerHolds
  <2>4. CASE TimerFires(j)
    BY <1>3, <2>3, <2>4 DEF TimerFires, JobHolds
  <2>5. CASE TimerStopped(j)
    <3>1. HandleExecutionError(j, TRUE, off, failing)
      BY <2>5 DEF TimerStopped
    <3> HIDE DEF off, failing
    <3>2. \A i \in Jobs \ {j} : HeldBy(job, i, e) => HeldBy(off, i, e)
      BY <2>1 DEF HeldBy
    <3> QED BY <1>1, <1>3, <2>1, <2>2, <3>1, <3>2, HandleErrorHolds
  <2>6. CASE TimerWriteFailed(j)
    BY <1>7, <2>1, <2>6 DEF TimerWriteFailed
  <2> QED BY <1>9, <2>4, <2>5, <2>6 DEF TimerStep
<1> QED BY <1>4, <1>5, <1>6, <1>8, <1>9

LEMMA EnqueueHolds ==
  ASSUME IInv, NEW e \in Executions, Held(e), NEW x \in Executions, Enqueue(x)
  PROVE  Held(e)'
<1>1. /\ TypeOK /\ job \in JobTable /\ queue \in Seq(Jobs) /\ Clean(job)
      /\ submit \in [Executions -> {"new", "created", "done"}]
  BY DEF IInv, QueueInv, TypeOK, JobTable
<1>2. UNCHANGED client /\ submit' = [submit EXCEPT ![x] = "done"]
  BY DEF Enqueue
<1>3. PICK p \in Priorities, r \in RequestedRetries, k \in Jobs, i \in 1 .. (Len(queue) + 1) :
        /\ job[k].stage = "free"
        /\ ProcessQueue([job EXCEPT ![k] =
                          [ex |-> x, priority |-> p, retryCount |-> 0,
                           maxRetries |-> OrDefault(r, defaultMaxRetries),
                           due |-> TRUE, stage |-> "queued", timer |-> "off"]],
                       InsertAt(queue, i, k), running, immediates)
  BY DEF Enqueue
<1> DEFINE new == [ex |-> x, priority |-> p, retryCount |-> 0,
                   maxRetries |-> OrDefault(r, defaultMaxRetries),
                   due |-> TRUE, stage |-> "queued", timer |-> "off"]
           t == [job EXCEPT ![k] = new]
<1>4. new \in JobRecord /\ new.ex = x /\ new.stage = "queued"
  BY NewJobType
<1>5. ProcessQueue(t, InsertAt(queue, i, k), running, immediates)
  BY <1>3
<1> HIDE DEF new
<1>6. t \in JobTable /\ t[k] = new /\ \A l \in Jobs \ {k} : t[l] = job[l]
  BY <1>1, <1>4, TableUpdate DEF JobTable
<1>7. InsertAt(queue, i, k) \in Seq(Jobs)
  BY <1>1, InsertAtType
<1> HIDE DEF t
<1>8. JobHolds(t, e) => JobHolds(job', e)
  BY <1>5, <1>6, <1>7, ProcessQueueHolds
<1>9. CASE e = x
  <2>1. JobHolds(t, e)
    BY <1>4, <1>6, <1>9 DEF JobHolds, HeldBy, Busy
  <2> QED BY <1>8, <2>1 DEF Held, JobHolds, HeldBy
<1>10. CASE e # x
  <2>1. submit'[e] = submit[e]
    BY <1>1, <1>2, <1>10
  <2>2. JobHolds(job, e) => JobHolds(t, e)
    BY <1>1, <1>3, <1>6, FreeHoldsNone DEF JobHolds, HeldBy
  <2> QED BY <1>2, <1>8, <2>1, <2>2 DEF Held, JobHolds, HeldBy
<1> QED BY <1>9, <1>10

LEMMA ClientStepHolds ==
  ASSUME IInv, NEW e \in Executions, Held(e), row'[e] \in Active, NEW c \in Clients,
         ClientStep(c) \/ \E x \in Executions : Request(c, x), faults' = 0
  PROVE  Held(e)'
<1>1. /\ job \in JobTable /\ queue \in Seq(Jobs) /\ Clean(job) /\ running \in Handles
      /\ row \in [Executions -> {"none"} \cup Active \cup Terminal] /\ client \in [Clients -> ClientRecord]
      /\ faults \in Nat
  BY DEF IInv, QueueInv, TypeOK, JobTable, Handles
<1>2. "none" \notin Active /\ "CANCELLED" \notin Active /\ IdleClient.pc = "idle"
  BY DEF Active, IdleClient
<1>3. UNCHANGED submit
  BY DEF ClientStep, CancelStopped, CancelChecked, CancelWritten, CancelRefused, DeleteRow, Request, CancelQueued,
     CancelRunning, CancelElsewhere, CancelDirect, DeleteChecked
<1>4. /\ submit[e] = "created" => Held(e)'
      /\ JobHolds(job', e) => Held(e)'
      /\ ClientHolds(e)' => Held(e)'
  BY <1>3 DEF Held, JobHolds, HeldBy, ClientHolds
<1>5. \/ submit[e] = "created" \/ JobHolds(job, e) \/ ClientHolds(e)
  BY HeldParts
<1>6. ASSUME client[c].pc \in {"stopping", "writing"} /\ client[c].ex = e =>
               client'[c].pc \in {"stopping", "writing"} /\ client'[c].ex = e,
             \A d \in Clients \ {c} : client'[d] = client[d]
      PROVE  ClientHolds(e) => ClientHolds(e)'
  BY <1>6 DEF ClientHolds
<1>7. CASE ClientStep(c)
  <2>1. UNCHANGED job
    BY <1>7 DEF ClientStep, CancelStopped, CancelChecked, CancelWritten, CancelRefused, DeleteRow, memory
  <2>2. CASE CancelStopped(c)
    <3>1. client' = [client EXCEPT ![c] = [pc |-> "writing", ex |-> client[c].ex]]
      BY <2>2 DEF CancelStopped, Goes
    <3> QED BY <1>1, <1>4, <1>5, <1>6, <2>1, <3>1
  <2>3. CASE CancelChecked(c)
    <3>1. client[c].pc = "checking" /\ \E y : client' = [client EXCEPT ![c] = y]
      BY <2>3 DEF CancelChecked, Goes
    <3> QED BY <1>1, <1>4, <1>5, <1>6, <2>1, <3>1
  <2>4. CASE CancelWritten(c)
    <3>1. client' = [client EXCEPT ![c] = IdleClient] /\ row' = [row EXCEPT ![client[c].ex] = "CANCELLED"]
      BY <2>4 DEF CancelWritten
    <3>2. client[c].ex # e
      BY <1>1, <1>2, <3>1
    <3> QED BY <1>1, <1>4, <1>5, <1>6, <2>1, <3>1, <3>2
  <2>5. CASE CancelRefused(c)
    <3>1. client' = [client EXCEPT ![c] = IdleClient] /\ row' = row /\ row[client[c].ex] = "none"
      BY <1>1, <2>5 DEF CancelRefused, WriteRefused
    <3>2. client[c].ex # e
      BY <1>2, <3>1
    <3> QED BY <1>1, <1>4, <1>5, <1>6, <2>1, <3>1, <3>2
  <2>6. CASE DeleteRow(c)
    <3>1. client[c].pc = "removing" /\ client' = [client EXCEPT ![c] = IdleClient]
      BY <2>6 DEF DeleteRow
    <3> QED BY <1>1, <1>4, <1>5, <1>6, <2>1, <3>1
  <2> QED BY <1>7, <2>2, <2>3, <2>4, <2>5, <2>6 DEF ClientStep
<1>8. ASSUME NEW x \in Executions, Request(c, x) PROVE Held(e)'
  <2>1. client[c].pc = "idle" /\ \E y : client' = [client EXCEPT ![c] = y]
    BY <1>8 DEF Request, CancelQueued, CancelRunning, CancelElsewhere, CancelDirect, DeleteChecked, Begin, Goes
  <2>2. ClientHolds(e) => ClientHolds(e)'
    BY <1>1, <1>6, <2>1
  <2>3. CASE UNCHANGED job
    BY <1>4, <1>5, <2>2, <2>3
  <2>4. CASE CancelQueued(c, x)
    <3>1. PICK i \in 1 .. Len(queue) : job[queue[i]].ex = x /\ job' = [job EXCEPT ![queue[i]] = FreeJob]
      BY <2>4 DEF CancelQueued
    <3>2. client' = [client EXCEPT ![c] = [pc |-> "writing", ex |-> x]]
      BY <2>4 DEF CancelQueued, Goes
    <3>3. CASE e = x
      <4>1. ClientHolds(e)'
        BY <1>1, <3>2, <3>3 DEF ClientHolds
      <4> QED BY <1>4, <4>1
    <3>4. CASE e # x
      <4>1. JobHolds(job, e) => JobHolds(job', e)
        BY <1>1, <3>1, <3>4 DEF JobHolds, HeldBy, JobTable
      <4> QED BY <1>4, <1>5, <2>2, <4>1
    <3> QED BY <3>3, <3>4
  <2>5. CASE CancelRunning(c, x)
    <3>1. running[x] \in Jobs /\ job' = ClearTimer(job, running[x])
      BY <1>1, <2>5 DEF CancelRunning, Handles
    <3>2. JobHolds(job, e) => JobHolds(job', e)
      BY <1>1, <3>1, ClearHolds DEF JobHolds
    <3> QED BY <1>4, <1>5, <2>2, <3>2
  <2> QED BY <1>8, <2>3, <2>4, <2>5 DEF Request, CancelElsewhere, CancelDirect, DeleteChecked, memory
<1> QED BY <1>7, <1>8

\* A row becomes PENDING or RUNNING by a step of somebody in charge of it.
LEMMA ActiveIsHeld ==
  ASSUME IInv, NEW e \in Executions, row[e] \notin Active, row'[e] \in Active, Next
  PROVE  Held(e)'
<1>1. /\ job \in JobTable /\ row \in [Executions -> {"none"} \cup Active \cup Terminal]
      /\ submit \in [Executions -> {"new", "created", "done"}]
      /\ "awaiting" \in Stages /\ "awaiting" \in Busy
  BY DEF IInv, TypeOK, JobTable, Stages, InFlight, Busy
<1> DEFINE wrote == \E x : \E s \in {"SUCCESS", "FAILED", "CANCELLED", "none"} : row' = [row EXCEPT ![x] = s]
<1>2. \/ \E x \in Executions : CreateExecution(x)
      \/ \E j \in Jobs : MarkRunning(j)
      \/ wrote \/ UNCHANGED row
  <2>1. ASSUME NEW j \in Jobs, ExecuteStep(j) \/ TimerStep(j) \/ DelayElapsed(j) \/ DelayPasses(j)
        PROVE  MarkRunning(j) \/ wrote \/ UNCHANGED row
    BY <2>1 DEF ExecuteStep, MarkRefused, N8nSucceeds, N8nFails, SaveResult, SaveRefused, WriteFailed, TimerStep,
       TimerFires, TimerStopped, TimerWriteFailed, DelayElapsed, DelayPasses
  <2>2. ASSUME NEW c \in Clients, ClientStep(c) \/ \E x \in Executions : Request(c, x) PROVE wrote \/ UNCHANGED row
    BY <2>2 DEF ClientStep, CancelStopped, CancelChecked, CancelWritten, CancelRefused, DeleteRow, Request,
       CancelQueued, CancelRunning, CancelElsewhere, CancelDirect, DeleteChecked
  <2> HIDE DEF wrote
  <2> QED BY <2>1, <2>2 DEF Next, Immediate, FailedWriteRefused, Enqueue, ForgetAll, Crash, Restart
<1>3. ASSUME NEW x \in Executions, CreateExecution(x) PROVE Held(e)'
  <2>1. x = e /\ submit'[e] = "created"
    BY <1>1, <1>3 DEF CreateExecution
  <2> QED BY <2>1 DEF Held
<1>4. ASSUME NEW j \in Jobs, MarkRunning(j) PROVE Held(e)'
  <2>1. job[j].ex = e
    BY <1>1, <1>4 DEF MarkRunning
  <2>2. HeldBy(job', j, e)
    BY <1>1, <1>4, <2>1, BusyHolds DEF MarkRunning
  <2> QED BY <2>2 DEF HeldBy, Held
<1>5. ~wrote
  BY <1>1 DEF Active
<1> QED BY <1>2, <1>3, <1>4, <1>5

\* As long as no process died and no write was refused, no execution is left PENDING or
\* RUNNING with nobody in charge of it, whatever the numbers of executions, attempts,
\* retries, timeouts and requests that overlap.
THEOREM NobodyIsOrphaned == Spec => []NoOrphan
<1>1. Init => NoOrphan
  BY DEF Init, NoOrphan, Active
<1>2. IInv /\ NoOrphan /\ [Next]_vars => NoOrphan'
  <2> SUFFICES ASSUME IInv, NoOrphan, [Next]_vars, up', restarts' = 0, faults' = 0,
                      NEW e \in Executions, row'[e] \in Active
               PROVE  Held(e)'
    BY DEF NoOrphan
  <2>1. CASE UNCHANGED vars
    BY <2>1 DEF vars, memory, world, NoOrphan, Held
  <2>2. CASE Next
    <3>1. faults \in Nat /\ restarts \in Nat
      BY DEF IInv, TypeOK
    <3>2. ~ForgetAll /\ ~Restart
      BY <3>1 DEF ForgetAll, Restart
    <3>3. up /\ restarts = 0 /\ faults = 0
      <4>1. UNCHANGED <<up, restarts>> /\ (faults' = faults \/ faults' = faults + 1)
        BY <2>2, <3>2 DEF Next, Immediate, ExecuteStep, MarkRunning, MarkRefused, N8nSucceeds, N8nFails, SaveResult,
           SaveRefused, WriteFailed, TimerStep, TimerFires, TimerStopped, TimerWriteFailed, DelayElapsed, DelayPasses,
           FailedWriteRefused, CreateExecution, Enqueue, ClientStep, CancelStopped, CancelChecked, CancelWritten,
           CancelRefused, DeleteRow, Request, CancelQueued, CancelRunning, CancelElsewhere, CancelDirect,
           DeleteChecked, Crash, WriteRefused, world
      <4> QED BY <3>1, <4>1
    <3>4. CASE row[e] \notin Active
      BY <2>2, <3>4, ActiveIsHeld
    <3>5. CASE row[e] \in Active
      <4>1. Held(e)
        BY <3>3, <3>5 DEF NoOrphan
      <4>2. ASSUME NEW x \in Executions, CreateExecution(x) PROVE Held(e)'
        <5>1. UNCHANGED <<job, client>> /\ (submit'[e] = submit[e] \/ submit'[e] = "created")
          BY <4>2 DEF CreateExecution, memory, IInv, TypeOK
        <5> QED BY <4>1, <5>1 DEF Held
      <4> QED BY <2>2, <3>2, <4>1, <4>2, JobStepHolds, EnqueueHolds, ClientStepHolds DEF Next, FailedWriteRefused, Crash
    <3> QED BY <3>4, <3>5
  <2> QED BY <2>1, <2>2
<1> QED BY <1>1, <1>2, Inductive, PTL DEF Spec

-----------------------------------------------------------------------------
(***************************************************************************)
(* Retries.  The live attempts of one execution are nodes of a binary      *)
(* tree: an attempt that was retried n times stands at depth n, and each   *)
(* of its two ends, that of executeWorkflow and that of its timer, has one *)
(* subtree to put a retry into.  A node is named by the depths at which    *)
(* its path took the timer's side, so there are 2^n of depth n.            *)
(***************************************************************************)

\* executeWorkflow, and the timer, of the job with record r may still ask for a retry.
StageOpen(r) == r.stage \in {"queued", "delayed", "saving"} \cup InFlight
TimerOpen(r) == r.stage \in {"queued", "delayed"} \/ r.timer \in {"armed", "stopping"}

\* A job that waits has no timer.
Quiet(r) == r.stage \in {"queued", "delayed"} => r.timer = "off"

\* The record of no job.
Gone(r) == r.ex \notin Executions /\ Quiet(r) /\ r.retryCount <= r.maxRetries

\* What becomes of the record r of a job that ends, or stays the same attempt.
Thins(r, s) ==
  \/ Gone(s)
  \/ /\ s.ex = r.ex /\ s.retryCount = r.retryCount /\ s.maxRetries = r.maxRetries
     /\ StageOpen(s) => StageOpen(r)
     /\ TimerOpen(s) => TimerOpen(r)
     /\ Quiet(r) => Quiet(s)

Thinner(t, u) == \A i \in Jobs : Thins(t[i], u[i])

\* Job k is the retry that an end of j has asked for, which is its last word.
Grows(t, u, j, k) ==
  /\ t[j].ex \in Executions /\ t[k].ex \notin Executions
  /\ t[j].retryCount < t[j].maxRetries
  /\ u[k] = RetryOf(t[j])
  /\ \A i \in Jobs \ {k} : Thins(t[i], u[i])
  /\ \/ StageOpen(t[j]) /\ ~StageOpen(u[j])
     \/ TimerOpen(t[j]) /\ ~TimerOpen(u[j])

\* Job k is the first of execution e.
Roots(t, u, e, k) ==
  /\ NoJobOf(t, e)
  /\ u[k].ex = e /\ u[k].retryCount = 0 /\ Quiet(u[k])
  /\ \A i \in Jobs \ {k} : Thins(t[i], u[i])

\* Job j is in the subtree of i that p puts it in.
Below(t, p, i, j) == t[i].retryCount < t[j].retryCount /\ p[j] \cap 1 .. t[i].retryCount = p[i]

\* The paths p make the jobs of table t such a tree.
Fan(t, p) ==
  /\ \A i \in Jobs : t[i].ex \in Executions => p[i] \subseteq 1 .. t[i].retryCount
  /\ \A i, j \in Jobs :
       t[i].ex \in Executions /\ t[i].ex = t[j].ex =>
         /\ i # j /\ t[i].retryCount = t[j].retryCount => p[i] # p[j]
         /\ Below(t, p, i, j) =>
              IF t[i].retryCount + 1 \in p[j] THEN ~TimerOpen(t[i]) ELSE ~StageOpen(t[i])

FanInv ==
  /\ \E p \in [Jobs -> SUBSET Nat] : Fan(job, p)
  /\ \A i \in Jobs : Quiet(job[i]) /\ job[i].retryCount <= job[i].maxRetries
  /\ \A e \in Executions : submit[e] # "done" => NoJobOf(job, e)

LEMMA FreeIsGone == Gone(FreeJob)
  BY QueueAssumption DEF Gone, FreeJob, Quiet

\* Thinning keeps the tree.
LEMMA FanThins ==
  ASSUME NEW t \in JobTable, NEW u \in JobTable, NEW p, Fan(t, p), Thinner(t, u)
  PROVE  Fan(u, p)
<1>1. \A i \in Jobs : u[i].ex \in Executions =>
        /\ t[i].ex = u[i].ex /\ t[i].retryCount = u[i].retryCount
        /\ StageOpen(u[i]) => StageOpen(t[i])
        /\ TimerOpen(u[i]) => TimerOpen(t[i])
  BY DEF Gone, Thinner, Thins
<1> QED BY <1>1 DEF Fan, Below

\* So does a first job.
LEMMA FanRoots ==
  ASSUME NEW t \in JobTable, NEW u \in JobTable, NEW p \in [Jobs -> SUBSET Nat], Fan(t, p),
         NEW e \in Executions, NEW k \in Jobs, Roots(t, u, e, k)
  PROVE  \E r \in [Jobs -> SUBSET Nat] : Fan(u, r)
<1> DEFINE r == [p EXCEPT ![k] = {}]
<1>1. \A i \in Jobs \ {k} : u[i].ex \in Executions =>
        /\ t[i].ex = u[i].ex /\ t[i].retryCount = u[i].retryCount /\ u[i].ex # e
        /\ StageOpen(u[i]) => StageOpen(t[i])
        /\ TimerOpen(u[i]) => TimerOpen(t[i])
  BY DEF Gone, Roots, Thins, NoJobOf
<1>2. r \in [Jobs -> SUBSET Nat] /\ r[k] = {} /\ \A i \in Jobs \ {k} : r[i] = p[i]
  OBVIOUS
<1> HIDE DEF r
<1>3. u[k].ex = e /\ u[k].retryCount = 0
  BY DEF Roots
<1>4. Fan(u, r)
  <2>1. \A i \in Jobs : u[i].ex \in Executions => r[i] \subseteq 1 .. u[i].retryCount
    BY <1>1, <1>2, <1>3 DEF Fan
  <2>2. ASSUME NEW i \in Jobs, NEW j \in Jobs, u[i].ex \in Executions, u[i].ex = u[j].ex
        PROVE  /\ i # j /\ u[i].retryCount = u[j].retryCount => r[i] # r[j]
               /\ Below(u, r, i, j) =>
                    IF u[i].retryCount + 1 \in r[j] THEN ~TimerOpen(u[i]) ELSE ~StageOpen(u[i])
    <3>1. CASE i = k \/ j = k
      <4>1. i = j
        BY <1>1, <1>3, <2>2, <3>1
      <4> QED BY <4>1 DEF Below, JobTable, JobRecord
    <3>2. CASE i # k /\ j # k
      BY <1>1, <1>2, <2>2, <3>2 DEF Fan, Below
    <3> QED BY <3>1, <3>2
  <2> QED BY <2>1, <2>2 DEF Fan
<1> QED BY <1>2, <1>4

\* And so does a retry: it goes below the job it retries, on the side that asked for it.
LEMMA FanGrows ==
  ASSUME NEW t \in JobTable, NEW u \in JobTable, NEW p \in [Jobs -> SUBSET Nat], Fan(t, p),
         NEW j \in Jobs, NEW k \in Jobs, Grows(t, u, j, k)
  PROVE  \E r \in [Jobs -> SUBSET Nat] : Fan(u, r)
<1> DEFINE n == t[j].retryCount
<1>1. PICK q : /\ q = p[j] \/ q = p[j] \cup {n + 1}
               /\ IF n + 1 \in q THEN TimerOpen(t[j]) /\ ~TimerOpen(u[j]) ELSE StageOpen(t[j]) /\ ~StageOpen(u[j])
  <2>1. n \in Nat /\ p[j] \subseteq 1 .. n
    BY DEF Grows, Fan, JobTable, JobRecord
  <2>2. n + 1 \notin p[j] /\ n + 1 \in p[j] \cup {n + 1}
    BY <2>1
  <2> QED BY <2>2 DEF Grows
<1> DEFINE r == [p EXCEPT ![k] = q]
<1>2. /\ n \in Nat /\ p[j] \subseteq 1 .. n /\ q \subseteq 1 .. (n + 1) /\ q \cap 1 .. n = p[j]
      /\ \A m \in Nat : m < n => q \cap 1 .. m = p[j] \cap 1 .. m /\ (m + 1 \in q <=> m + 1 \in p[j])
  <2>1. n \in Nat /\ p[j] \subseteq 1 .. n
    BY DEF Grows, Fan, JobTable, JobRecord
  <2>2. q \subseteq 1 .. (n + 1) /\ q \cap 1 .. n = p[j]
    BY <1>1, <2>1
  <2>3. \A m \in Nat : m < n => q \cap 1 .. m = p[j] \cap 1 .. m /\ (m + 1 \in q <=> m + 1 \in p[j])
    BY <1>1, <2>1
  <2> QED BY <2>1, <2>2, <2>3
<1>3. /\ \A i \in Jobs \ {k} : u[i].ex \in Executions =>
           /\ t[i].ex = u[i].ex /\ t[i].retryCount = u[i].retryCount
           /\ StageOpen(u[i]) => StageOpen(t[i])
           /\ TimerOpen(u[i]) => TimerOpen(t[i])
      /\ u[k].ex = t[j].ex /\ u[k].retryCount = n + 1 /\ j # k /\ t[j].ex \in Executions
  BY DEF Gone, Grows, Thins, RetryOf
<1>4. r \in [Jobs -> SUBSET Nat] /\ r[k] = q /\ \A i \in Jobs \ {k} : r[i] = p[i]
  <2>1. q \in SUBSET Nat
    BY <1>2
  <2> HIDE DEF n
  <2> QED BY <2>1
<1> HIDE DEF r
<1>5. \A i \in Jobs : t[i].retryCount \in Nat
  BY DEF JobTable, JobRecord
<1>6. ASSUME NEW i \in Jobs, i # k, u[i].ex = t[j].ex
      PROVE  /\ t[i].retryCount = n + 1 => p[i] # q
             /\ n + 1 < t[i].retryCount => p[i] \cap 1 .. (n + 1) # q
  <2>1. ASSUME n < t[i].retryCount, p[i] \cap 1 .. (n + 1) = q PROVE FALSE
    <3>1. p[i] \cap 1 .. n = p[j] /\ (n + 1 \in p[i] <=> n + 1 \in q)
      BY <1>2, <2>1
    <3>2. t[j].ex = t[i].ex /\ Below(t, p, j, i)
      BY <1>3, <1>6, <2>1, <3>1 DEF Below
    <3>3. IF n + 1 \in p[i] THEN ~TimerOpen(t[j]) ELSE ~StageOpen(t[j])
      BY <1>3, <3>2 DEF Fan
    <3> QED BY <1>1, <3>1, <3>3
  <2>2. t[i].ex \in Executions /\ p[i] \subseteq 1 .. t[i].retryCount
    BY <1>3, <1>6 DEF Fan
  <2>3. t[i].retryCount = n + 1 => p[i] \cap 1 .. (n + 1) = p[i]
    BY <2>2
  <2> QED BY <1>2, <1>5, <2>1, <2>3
<1>7. ASSUME NEW i \in Jobs, i # k, u[i].ex = t[j].ex, t[i].retryCount < n + 1, q \cap 1 .. t[i].retryCount = p[i]
      PROVE  IF t[i].retryCount + 1 \in q THEN ~TimerOpen(u[i]) ELSE ~StageOpen(u[i])
  <2>1. t[i].ex = t[j].ex /\ t[i].ex \in Executions
    BY <1>3, <1>7
  <2>2. CASE t[i].retryCount = n
    <3>1. p[i] = p[j]
      BY <1>2, <1>7, <2>2
    <3>2. i = j
      BY <2>1, <2>2, <3>1 DEF Fan
    <3> QED BY <1>1, <3>2
  <2>3. CASE t[i].retryCount < n
    <3>1. p[j] \cap 1 .. t[i].retryCount = p[i] /\ (t[i].retryCount + 1 \in q <=> t[i].retryCount + 1 \in p[j])
      BY <1>2, <1>5, <1>7, <2>3
    <3>2. Below(t, p, i, j)
      BY <2>3, <3>1 DEF Below
    <3>3. IF t[i].retryCount + 1 \in p[j] THEN ~TimerOpen(t[i]) ELSE ~StageOpen(t[i])
      BY <2>1, <3>2 DEF Fan
    <3> QED BY <1>3, <1>7, <2>1, <3>1, <3>3
  <2> QED BY <1>2, <1>5, <1>7, <2>2, <2>3
<1> HIDE DEF n
<1>8. \A i \in Jobs : u[i].ex \in Executions => r[i] \subseteq 1 .. u[i].retryCount
  BY <1>2, <1>3, <1>4 DEF Fan
<1>9. ASSUME NEW a \in Jobs, NEW b \in Jobs, u[a].ex \in Executions, u[a].ex = u[b].ex
      PROVE  /\ a # b /\ u[a].retryCount = u[b].retryCount => r[a] # r[b]
             /\ Below(u, r, a, b) =>
                  IF u[a].retryCount + 1 \in r[b] THEN ~TimerOpen(u[a]) ELSE ~StageOpen(u[a])
  <2>1. CASE a # k /\ b # k
    BY <1>3, <1>4, <1>9, <2>1 DEF Fan, Below
  <2>2. CASE a = k /\ b # k
    <3>1. u[b].ex = t[j].ex /\ u[b].retryCount = t[b].retryCount
      BY <1>3, <1>9, <2>2
    <3> QED BY <1>3, <1>4, <1>6, <2>2, <3>1 DEF Below
  <2>3. CASE a # k /\ b = k
    <3>1. u[a].ex = t[j].ex /\ u[a].retryCount = t[a].retryCount
      BY <1>3, <1>9, <2>3
    <3> QED BY <1>3, <1>4, <1>6, <1>7, <2>3, <3>1 DEF Below
  <2>4. CASE a = k /\ b = k
    BY <1>2, <1>3, <2>4 DEF Below
  <2> QED BY <2>1, <2>2, <2>3, <2>4
<1> QED BY <1>4, <1>8, <1>9 DEF Fan

\* A tree has at most 2^n nodes at depth n.
LEMMA FanIsNarrow ==
  ASSUME NEW t \in JobTable, NEW p \in [Jobs -> SUBSET Nat], Fan(t, p), NEW e \in Executions, NEW n \in Nat
  PROVE  Cardinality({j \in Jobs : t[j].ex = e /\ t[j].retryCount = n}) <= 2 ^ n
<1> DEFINE S == {j \in Jobs : t[j].ex = e /\ t[j].retryCount = n}
           f == [j \in S |-> p[j]]
<1>1. f \in Injection(S, SUBSET (1 .. n))
  <2>1. \A j \in S : p[j] \in SUBSET (1 .. n)
    BY DEF Fan
  <2>2. \A i, j \in S : p[i] = p[j] => i = j
    BY DEF Fan
  <2> QED BY <2>1, <2>2 DEF Injection, IsInjective
<1>2. IsFiniteSet(1 .. n) /\ Cardinality(1 .. n) = n
  BY FS_Interval
<1>3. IsFiniteSet(SUBSET (1 .. n)) /\ Cardinality(SUBSET (1 .. n)) = 2 ^ n
  BY <1>2, FS_SUBSET
<1>4. Cardinality(S) <= Cardinality(SUBSET (1 .. n))
  BY <1>1, <1>3, FS_Injection
<1> QED BY <1>3, <1>4

\* The updates of a job table, but for those that end a job's part in its own retries.
LEMMA UpdateThins ==
  ASSUME NEW t \in JobTable, NEW j \in Jobs
  PROVE  /\ \A s \in Stages : (StageOpen([t[j] EXCEPT !.stage = s]) => StageOpen(t[j]))
                                /\ (TimerOpen([t[j] EXCEPT !.stage = s]) => TimerOpen(t[j]))
                                /\ (Quiet(t[j]) => Quiet([t[j] EXCEPT !.stage = s]))
                              => Thinner(t, WithStage(t, j, s))
         /\ \A m \in Timers : (TimerOpen([t[j] EXCEPT !.timer = m]) => TimerOpen(t[j]))
                                /\ (Quiet(t[j]) => Quiet([t[j] EXCEPT !.timer = m]))
                              => Thinner(t, WithTimer(t, j, m))
         /\ Thinner(t, Due(t, j))
         /\ Thinner(t, ClearTimer(t, j))
         /\ Thinner(t, Collect(t, j))
         /\ Thinner(t, t)
<1>1. \A i \in Jobs : Thins(t[i], t[i])
  BY DEF Thins
<1>2. ASSUME NEW s \in Stages, StageOpen([t[j] EXCEPT !.stage = s]) => StageOpen(t[j]),
             TimerOpen([t[j] EXCEPT !.stage = s]) => TimerOpen(t[j]),
             Quiet(t[j]) => Quiet([t[j] EXCEPT !.stage = s])
      PROVE  Thinner(t, WithStage(t, j, s))
  BY <1>1, <1>2 DEF Thinner, Thins, WithStage, JobTable, JobRecord
<1>3. ASSUME NEW m \in Timers, TimerOpen([t[j] EXCEPT !.timer = m]) => TimerOpen(t[j]),
             Quiet(t[j]) => Quiet([t[j] EXCEPT !.timer = m])
      PROVE  Thinner(t, WithTimer(t, j, m))
  <2>1. StageOpen([t[j] EXCEPT !.timer = m]) => StageOpen(t[j])
    BY DEF StageOpen, JobTable, JobRecord
  <2> QED BY <1>1, <1>3, <2>1 DEF Thinner, Thins, WithTimer, JobTable, JobRecord
<1>4. Thinner(t, Due(t, j))
  <2>1. Thins(t[j], [t[j] EXCEPT !.due = TRUE])
    BY DEF Thins, StageOpen, TimerOpen, Quiet, JobTable, JobRecord
  <2> QED BY <1>1, <2>1 DEF Thinner, Due, JobTable, JobRecord
<1>5. Thinner(t, ClearTimer(t, j))
  <2>1. "off" \in Timers /\ ~(TimerOpen([t[j] EXCEPT !.timer = "off"]) /\ ~TimerOpen(t[j])) /\ Quiet([t[j] EXCEPT !.timer = "off"])
    BY DEF Timers, TimerOpen, Quiet, JobTable, JobRecord
  <2> QED BY <1>1, <1>3, <2>1 DEF ClearTimer, Thinner
<1>6. Thinner(t, Collect(t, j))
  BY <1>1, FreeIsGone DEF Collect, Thinner, Thins, JobTable
<1> QED BY <1>1, <1>2, <1>3, <1>4, <1>5, <1>6 DEF Thinner

\* Thinning twice is thinning.
LEMMA ThinnerTwice ==
  ASSUME NEW t, NEW u, NEW v, Thinner(t, u), Thinner(u, v)
  PROVE  Thinner(t, v)
BY DEF Thinner, Thins, Gone

\* A round of processQueue, whose head waits.
LEMMA ProcessQueueThins ==
  ASSUME NEW t \in JobTable, NEW q \in Seq(Jobs), NEW h, NEW n, ProcessQueue(t, q, h, n),
         q # << >> => t[Head(q)].stage = "queued"
  PROVE  Thinner(t, job')
<1> DEFINE j == Head(q)
           m == WithStage(t, j, "marking")
<1>1. CASE job' = t
  BY <1>1 DEF Thinner, Thins
<1>2. CASE q # << >> /\ (job' = WithStage(t, j, "delayed") \/ job' = WithTimer(m, j, "armed"))
  <2>1. j \in Jobs /\ t[j].stage = "queued"
    BY <1>2, TailItems
  <2> HIDE DEF j
  <2>2. t[j] \in JobRecord
    BY <2>1 DEF JobTable
  <2>3. Thins(t[j], [t[j] EXCEPT !.stage = "delayed"])
    BY <2>1, <2>2 DEF Thins, StageOpen, TimerOpen, Quiet, JobRecord
  <2>4. Thins(t[j], [[t[j] EXCEPT !.stage = "marking"] EXCEPT !.timer = "armed"])
    BY <2>1, <2>2 DEF Thins, StageOpen, TimerOpen, Quiet, InFlight, JobRecord
  <2>5. \A i \in Jobs : job'[i] = t[i] \/ (i = j /\ (\/ job'[i] = [t[j] EXCEPT !.stage = "delayed"]
                                                     \/ job'[i] = [[t[j] EXCEPT !.stage = "marking"] EXCEPT !.timer = "armed"]))
    BY <1>2, <2>1 DEF WithStage, WithTimer, JobTable
  <2>6. \A i \in Jobs : Thins(t[i], t[i])
    BY DEF Thins
  <2> QED BY <2>3, <2>4, <2>5, <2>6 DEF Thinner
<1> QED BY <1>1, <1>2 DEF ProcessQueue, HasSlot

\* The error path: one table says that the end of j is through, the other that it writes FAILED.
LEMMA HandleErrorFan ==
  ASSUME TypeOK, Clean(job), NEW j \in Jobs, NEW o, NEW t \in JobTable, NEW u \in JobTable,
         job[j].ex \in Executions, Thinner(job, t), Thinner(job, u),
         \/ StageOpen(job[j]) /\ ~StageOpen(t[j])
         \/ TimerOpen(job[j]) /\ ~TimerOpen(t[j]),
         HandleExecutionError(j, o, t, u)
  PROVE  Thinner(job, job') \/ \E k \in Jobs : Grows(job, job', j, k)
<1>1. CASE job' = u
  BY <1>1
<1>2. ASSUME NEW k \in Jobs, job[k].stage = "free", CanRetry(job[j]), job' = [Collect(t, j) EXCEPT ![k] = RetryOf(job[j])]
      PROVE  Grows(job, job', j, k)
  <2> DEFINE c == Collect(t, j)
  <2>1. c \in JobTable /\ Thinner(t, c) /\ (c[j] = t[j] \/ c[j] = FreeJob)
    BY TableUpdate, UpdateThins DEF Collect, JobTable
  <2>2. Thinner(job, c)
    BY <2>1, ThinnerTwice
  <2> HIDE DEF c
  <2>3. job[k].ex \notin Executions /\ k # j
    BY <1>2, QueueAssumption DEF Clean, FreeJob
  <2>4. job'[k] = RetryOf(job[j]) /\ \A i \in Jobs \ {k} : job'[i] = c[i]
    BY <1>2, <2>1 DEF c, JobTable
  <2>5. ~StageOpen(FreeJob) /\ ~TimerOpen(FreeJob)
    BY DEF FreeJob, StageOpen, TimerOpen, InFlight
  <2>6. \/ StageOpen(job[j]) /\ ~StageOpen(job'[j])
        \/ TimerOpen(job[j]) /\ ~TimerOpen(job'[j])
    BY <2>1, <2>3, <2>4, <2>5
  <2> QED BY <1>2, <2>2, <2>3, <2>4, <2>6 DEF Grows, Thinner, CanRetry
<1> QED BY <1>1, <1>2 DEF HandleExecutionError

LEMMA CaughtFan ==
  ASSUME IInv, NEW j \in Jobs, NEW o, Caught(j, o), job[j].stage \in InFlight \cup {"saving"}
  PROVE  Thinner(job, job') \/ \E k \in Jobs : Grows(job, job', j, k)
<1> DEFINE h == running[job[j].ex]
           t == IF h = NoJob THEN job ELSE ClearTimer(job, h)
           over == WithStage(t, j, "over")
           failing == WithStage(t, j, "failing")
<1>1. /\ TypeOK /\ Clean(job) /\ job \in JobTable /\ running \in Handles
      /\ "over" \in Stages /\ "failing" \in Stages
  BY DEF IInv, QueueInv, TypeOK, JobTable, Handles, Stages
<1>2. job[j].ex \in Executions
  BY <1>1 DEF Clean, InFlight
<1>3. t \in JobTable /\ Thinner(job, t) /\ t[j].stage = job[j].stage
  <2>1. h \in Jobs \/ h = NoJob
    BY <1>1, <1>2 DEF Handles
  <2>2. CASE h = NoJob
    BY <1>1, <2>2, UpdateThins
  <2>3. CASE h # NoJob
    BY <1>1, <2>1, <2>3, UpdateThins, ClearEffect
  <2> QED BY <2>2, <2>3
<1>4. HandleExecutionError(j, o, over, failing)
  BY DEF Caught
<1> HIDE DEF t
<1>5. /\ over \in JobTable /\ failing \in JobTable
      /\ Thinner(t, over) /\ Thinner(t, failing) /\ ~StageOpen(over[j])
  <2>1. over \in JobTable /\ failing \in JobTable /\ over[j].stage = "over"
    BY <1>1, <1>3, TableUpdate, StageEffect
  <2>2. ASSUME NEW s \in {"over", "failing"} PROVE Thinner(t, WithStage(t, j, s))
    <3>1. /\ ~StageOpen([t[j] EXCEPT !.stage = s])
          /\ TimerOpen([t[j] EXCEPT !.stage = s]) => TimerOpen(t[j])
          /\ Quiet([t[j] EXCEPT !.stage = s])
      BY <1>3 DEF StageOpen, TimerOpen, Quiet, InFlight, JobTable, JobRecord
    <3> QED BY <1>1, <1>3, <3>1, UpdateThins
  <2> QED BY <2>1, <2>2 DEF StageOpen, InFlight
<1>6. StageOpen(job[j])
  BY DEF StageOpen
<1> HIDE DEF over, failing
<1>7. Thinner(job, over) /\ Thinner(job, failing)
  BY <1>3, <1>5, ThinnerTwice
<1> QED BY <1>1, <1>2, <1>4, <1>5, <1>6, <1>7, HandleErrorFan

\* The first job of an execution, which may start at once.
LEMMA EnqueueRoots ==
  ASSUME IInv, NEW e \in Executions, NoJobOf(job, e), Enqueue(e)
  PROVE  \E k \in Jobs : Roots(job, job', e, k)
<1>1. job \in JobTable /\ queue \in Seq(Jobs) /\ Clean(job) /\ Exact(job, queue)
  BY DEF IInv, QueueInv, TypeOK, JobTable
<1>2. PICK p \in Priorities, r \in RequestedRetries, k \in Jobs, i \in 1 .. (Len(queue) + 1) :
        ProcessQueue([job EXCEPT ![k] = [ex |-> e, priority |-> p, retryCount |-> 0,
                                         maxRetries |-> OrDefault(r, defaultMaxRetries),
                                         due |-> TRUE, stage |-> "queued", timer |-> "off"]],
                     InsertAt(queue, i, k), running, immediates)
  BY DEF Enqueue
<1> DEFINE new == [ex |-> e, priority |-> p, retryCount |-> 0,
                   maxRetries |-> OrDefault(r, defaultMaxRetries),
                   due |-> TRUE, stage |-> "queued", timer |-> "off"]
           t == [job EXCEPT ![k] = new]
           q == InsertAt(queue, i, k)
<1>3. new \in JobRecord /\ new.ex = e /\ new.retryCount = 0 /\ new.stage = "queued" /\ Quiet(new)
  BY NewJobType DEF Quiet
<1>4. ProcessQueue(t, q, running, immediates)
  BY <1>2
<1> HIDE DEF new
<1>5. t \in JobTable /\ t[k] = new /\ \A l \in Jobs \ {k} : t[l] = job[l]
  BY <1>1, <1>3 DEF JobTable
<1> HIDE DEF t
<1>6. q \in Seq(Jobs) /\ (q # << >> => t[Head(q)].stage = "queued")
  <2>1. q \in Seq(Jobs) /\ IsInserted(queue, q, i, k)
    BY <1>1, InsertAtItems
  <2> HIDE DEF q
  <2>2. Len(q) = Len(queue) + 1 /\ Head(q) = q[1]
    BY <2>1 DEF IsInserted
  <2>3. q[1] = k \/ (1 \in 1 .. Len(queue) /\ q[1] = queue[1])
    BY <1>1, <2>1, <2>2 DEF IsInserted
  <2>4. 1 \in 1 .. Len(queue) => queue[1] \in Jobs /\ job[queue[1]].stage = "queued"
    BY <1>1 DEF Exact
  <2>5. CASE q[1] = k
    BY <1>3, <1>5, <2>1, <2>2, <2>5
  <2>6. CASE q[1] # k
    BY <1>5, <2>1, <2>2, <2>3, <2>4, <2>6
  <2> QED BY <2>5, <2>6
<1> HIDE DEF q
<1>7. Thinner(t, job')
  BY <1>4, <1>5, <1>6, ProcessQueueThins
<1>8. ASSUME job'[k].ex = e
      PROVE  Roots(job, job', e, k)
  <2>1. job'[k].retryCount = 0 /\ Quiet(job'[k])
    BY <1>3, <1>5, <1>7, <1>8 DEF Thinner, Thins, Gone
  <2> QED BY <1>5, <1>7, <1>8, <2>1 DEF Roots, Thinner
<1>9. job'[k].ex = e
  <2>1. CASE job' = t
    BY <1>3, <1>5, <2>1
  <2>2. CASE q # << >> /\ (job' = WithStage(t, Head(q), "delayed") \/ job' = WithTimer(WithStage(t, Head(q), "marking"), Head(q), "armed"))
    <3>1. Head(q) \in Jobs
      BY <1>6, <2>2, TailItems
    <3> QED BY <1>3, <1>5, <2>2, <3>1 DEF WithStage, WithTimer, JobTable, JobRecord
  <2> QED BY <1>4, <2>1, <2>2 DEF ProcessQueue, HasSlot
<1> QED BY <1>8, <1>9

\* Every other step thins the jobs out, or is a retry that an end of a job asks for.
LEMMA NextThins ==
  ASSUME IInv, \A i \in Jobs : Quiet(job[i]), Next, \A e \in Executions : ~Enqueue(e)
  PROVE  Thinner(job, job') \/ \E j, k \in Jobs : Grows(job, job', j, k)
<1>1. /\ TypeOK /\ job \in JobTable /\ queue \in Seq(Jobs) /\ running \in Handles /\ Clean(job) /\ Exact(job, queue)
      /\ "queued" \in Stages /\ "awaiting" \in Stages /\ "saving" \in Stages /\ "over" \in Stages
      /\ "off" \in Timers /\ "stopping" \in Timers /\ "failing" \in Timers
  BY DEF IInv, QueueInv, TypeOK, JobTable, Handles, Stages, InFlight, Timers
<1>2. CASE UNCHANGED job
  BY <1>2 DEF Thinner, Thins
<1>3. CASE ForgetAll
  BY <1>3, FreeIsGone DEF ForgetAll, Thinner, Thins
<1>4. CASE Immediate
  <2>1. queue # << >> => job[Head(queue)].stage = "queued"
    BY <1>1, TailItems DEF Exact
  <2> QED BY <1>1, <1>4, <2>1, ProcessQueueThins DEF Immediate
<1>5. ASSUME NEW j \in Jobs, NEW s \in Stages,
             \/ job[j].stage = "delayed" /\ s = "queued"
             \/ job[j].stage = "marking" /\ s = "awaiting"
             \/ job[j].stage = "awaiting" /\ s = "saving"
             \/ job[j].stage \in {"saving", "failing"} /\ s = "over"
      PROVE  Thins(job[j], [job[j] EXCEPT !.stage = s])
  <2>1. job[j] \in JobRecord
    BY <1>1 DEF JobTable
  <2> QED BY <1>5, <2>1 DEF Thins, StageOpen, TimerOpen, Quiet, InFlight, JobRecord
<1>6. ASSUME NEW j \in Jobs, NEW s \in Stages,
             \/ job[j].stage = "delayed" /\ s = "queued"
             \/ job[j].stage = "marking" /\ s = "awaiting"
             \/ job[j].stage = "awaiting" /\ s = "saving"
             \/ job[j].stage \in {"saving", "failing"} /\ s = "over"
      PROVE  Thinner(job, WithStage(job, j, s))
  BY <1>1, <1>5, <1>6 DEF Thinner, Thins, WithStage, JobTable
<1>7. ASSUME NEW j \in Jobs, DelayElapsed(j) PROVE Thinner(job, job')
  <2> DEFINE s == WithStage(job, j, "queued")
             d == Due(s, j)
             q == <<j>> \o queue
  <2>1. s \in JobTable /\ Thinner(job, s) /\ s[j].stage = "queued"
    <3>1. job[j].stage = "delayed"
      BY <1>7 DEF DelayElapsed
    <3>2. Thinner(job, s)
      BY <1>1, <1>6, <3>1
    <3> QED BY <1>1, <3>2, StageEffect, TableUpdate
  <2>2. ProcessQueue(d, q, running, immediates)
    BY <1>7 DEF DelayElapsed
  <2> HIDE DEF s
  <2>3. d \in JobTable /\ Thinner(s, d) /\ d[j].stage = "queued"
    BY <2>1, DueEffect, TableUpdate, UpdateThins
  <2> HIDE DEF d
  <2>4. q \in Seq(Jobs) /\ Head(q) = j
    BY <1>1
  <2> HIDE DEF q
  <2>5. Thinner(d, job')
    BY <2>2, <2>3, <2>4, ProcessQueueThins
  <2>6. Thinner(job, d)
    BY <2>1, <2>3, ThinnerTwice
  <2> QED BY <2>5, <2>6, ThinnerTwice
<1>8. ASSUME NEW j \in Jobs, DelayPasses(j) PROVE Thinner(job, job')
  BY <1>1, <1>8, UpdateThins DEF DelayPasses
<1>9. ASSUME NEW j \in Jobs, ExecuteStep(j) PROVE Thinner(job, job') \/ \E k \in Jobs : Grows(job, job', j, k)
  <2>1. CASE MarkRefused(j) \/ N8nFails(j) \/ SaveRefused(j)
    BY <2>1, CaughtFan DEF MarkRefused, N8nFails, SaveRefused, InFlight
  <2>2. CASE MarkRunning(j)
    BY <1>1, <1>6, <2>2 DEF MarkRunning
  <2>3. CASE N8nSucceeds(j)
    <3> DEFINE t == ClearTimer(job, j)
    <3>1. t \in JobTable /\ Thinner(job, t) /\ t[j].stage = "awaiting"
      BY <1>1, <2>3, ClearEffect, UpdateThins DEF N8nSucceeds
    <3>2. job' = WithStage(t, j, "saving")
      BY <2>3 DEF N8nSucceeds
    <3> HIDE DEF t
    <3>3. Thins(t[j], [t[j] EXCEPT !.stage = "saving"])
      BY <3>1 DEF Thins, StageOpen, TimerOpen, Quiet, InFlight, JobTable, JobRecord
    <3>4. Thinner(t, job')
      BY <3>1, <3>2, <3>3 DEF Thinner, Thins, WithStage, JobTable
    <3> QED BY <3>1, <3>4, ThinnerTwice
  <2>4. CASE SaveResult(j) \/ WriteFailed(j)
    <3> DEFINE t == WithStage(job, j, "over")
    <3>1. t \in JobTable /\ Thinner(job, t)
      BY <1>1, <1>6, <2>4, TableUpdate DEF SaveResult, WriteFailed
    <3>2. job' = Collect(t, j)
      BY <2>4 DEF SaveResult, WriteFailed
    <3> HIDE DEF t
    <3>3. Thinner(t, job')
      BY <3>1, <3>2, UpdateThins
    <3> QED BY <3>1, <3>3, ThinnerTwice
  <2> QED BY <1>9, <2>1, <2>2, <2>3, <2>4 DEF ExecuteStep
<1>10. ASSUME NEW j \in Jobs, TimerStep(j) PROVE Thinner(job, job') \/ \E k \in Jobs : Grows(job, job', j, k)
  <2> DEFINE off == WithTimer(job, j, "off")
             failing == WithTimer(job, j, "failing")
             stopping == WithTimer(job, j, "stopping")
  <2>1. job[j].timer \in {"armed", "stopping", "failing"} /\ job[j] \in JobRecord
    BY <1>1, <1>10 DEF TimerStep, TimerFires, TimerStopped, TimerWriteFailed, JobTable
  <2>2. job[j].stage \notin {"queued", "delayed"}
    BY <2>1 DEF Quiet
  <2>3. /\ ~TimerOpen([job[j] EXCEPT !.timer = "off"]) /\ ~TimerOpen([job[j] EXCEPT !.timer = "failing"])
        /\ \A m \in Timers : Quiet([job[j] EXCEPT !.timer = m])
    BY <1>1, <2>1, <2>2 DEF TimerOpen, Quiet, JobRecord
  <2>4. off \in JobTable /\ failing \in JobTable /\ Thinner(job, off) /\ Thinner(job, failing) /\ ~TimerOpen(off[j])
    <3>1. off[j] = [job[j] EXCEPT !.timer = "off"]
      BY <1>1 DEF WithTimer, JobTable
    <3> QED BY <1>1, <2>3, <3>1, UpdateThins, TableUpdate
  <2>5. CASE TimerFires(j)
    <3>1. TimerOpen(job[j])
      BY <2>5 DEF TimerFires, TimerOpen
    <3>2. Thinner(job, stopping)
      BY <1>1, <2>3, <3>1, UpdateThins
    <3> QED BY <2>5, <3>2 DEF TimerFires
  <2>6. CASE TimerStopped(j)
    <3>1. HandleExecutionError(j, TRUE, off, failing) /\ TimerOpen(job[j])
      BY <2>6 DEF TimerStopped, TimerOpen
    <3>2. job[j].ex \in Executions
      BY <1>1, <2>1 DEF Clean, FreeJob
    <3> HIDE DEF off, failing
    <3> QED BY <1>1, <2>4, <3>1, <3>2, HandleErrorFan
  <2>7. CASE TimerWriteFailed(j)
    <3>1. job' = Collect(off, j)
      BY <2>7 DEF TimerWriteFailed
    <3> HIDE DEF off
    <3>2. Thinner(off, job')
      BY <2>4, <3>1, UpdateThins
    <3> QED BY <2>4, <3>2, ThinnerTwice
  <2> QED BY <1>10, <2>5, <2>6, <2>7 DEF TimerStep
<1>11. ASSUME NEW c \in Clients, NEW e \in Executions, CancelQueued(c, e) PROVE Thinner(job, job')
  BY <1>1, <1>11, FreeIsGone DEF CancelQueued, Thinner, Thins, JobTable
<1>12. ASSUME NEW c \in Clients, NEW e \in Executions, CancelRunning(c, e) PROVE Thinner(job, job')
  <2>1. running[e] \in Jobs /\ job' = ClearTimer(job, running[e])
    BY <1>1, <1>12 DEF CancelRunning, Handles
  <2> QED BY <1>1, <2>1, UpdateThins
<1>13. \/ UNCHANGED job \/ ForgetAll \/ Immediate
       \/ \E j \in Jobs : ExecuteStep(j) \/ TimerStep(j) \/ DelayElapsed(j) \/ DelayPasses(j)
       \/ \E c \in Clients, e \in Executions : CancelQueued(c, e) \/ CancelRunning(c, e)
  BY DEF Next, CreateExecution, FailedWriteRefused, Crash, Restart, ClientStep, CancelStopped, CancelChecked, CancelWritten,
     CancelRefused, DeleteRow, Request, CancelElsewhere, CancelDirect, DeleteChecked, memory
<1> QED BY <1>2, <1>3, <1>4, <1>7, <1>8, <1>9, <1>10, <1>11, <1>12, <1>13

\* A timeout and n8n's late answer may each retry an attempt, and what they start is an
\* attempt like the first: of any number of attempts, timeouts, answers, cancels and restarts
\* no execution has more than 2^n that were retried n times, and none beyond its maxRetries.
THEOREM RetriesFanOut == Spec => []RetryFanOut
<1>1. Init => FanInv
  <2>1. SUFFICES ASSUME Init PROVE FanInv
    OBVIOUS
  <2>2. \A i \in Jobs : Gone(job[i])
    BY <2>1, FreeIsGone DEF Init
  <2>3. [j \in Jobs |-> {}] \in [Jobs -> SUBSET Nat] /\ Fan(job, [j \in Jobs |-> {}])
    BY <2>2 DEF Fan, Gone
  <2> QED BY <2>2, <2>3 DEF FanInv, NoJobOf, Gone
<1>2. IInv /\ IInv' /\ FanInv /\ [Next]_vars => FanInv'
  <2> SUFFICES ASSUME IInv, IInv', FanInv, [Next]_vars PROVE FanInv'
    OBVIOUS
  <2>1. job \in JobTable /\ job' \in JobTable /\ submit \in [Executions -> {"new", "created", "done"}]
    BY DEF IInv, TypeOK, JobTable
  <2>2. PICK p \in [Jobs -> SUBSET Nat] : Fan(job, p)
    BY DEF FanInv
  <2>3. ASSUME NEW e \in Executions, Enqueue(e) PROVE FanInv'
    <3>1. submit[e] = "created" /\ submit' = [submit EXCEPT ![e] = "done"]
      BY <2>3 DEF Enqueue
    <3>2. NoJobOf(job, e)
      BY <3>1 DEF FanInv
    <3>3. PICK k \in Jobs : Roots(job, job', e, k)
      BY <2>3, <3>2, EnqueueRoots
    <3>4. \E r \in [Jobs -> SUBSET Nat] : Fan(job', r)
      BY <2>1, <2>2, <3>3, FanRoots
    <3>5. \A i \in Jobs : Quiet(job'[i]) /\ job'[i].retryCount <= job'[i].maxRetries
      <4>1. \A i \in Jobs \ {k} : Quiet(job'[i]) /\ job'[i].retryCount <= job'[i].maxRetries
        BY <3>3 DEF Roots, Thins, Gone, FanInv
      <4>2. Quiet(job'[k]) /\ job'[k].retryCount = 0 /\ job'[k].maxRetries \in Nat
        BY <2>1, <3>3 DEF Roots, JobTable, JobRecord
      <4> QED BY <4>1, <4>2
    <3>6. \A x \in Executions : submit'[x] # "done" => NoJobOf(job', x)
      BY <2>1, <3>1, <3>3 DEF FanInv, Roots, Thins, Gone, NoJobOf
    <3> QED BY <3>4, <3>5, <3>6 DEF FanInv
  <2>4. ASSUME \A e \in Executions : ~Enqueue(e) PROVE FanInv'
    <3>1. Thinner(job, job') \/ \E j, k \in Jobs : Grows(job, job', j, k)
      <4>1. CASE UNCHANGED vars
        BY <4>1 DEF vars, memory, Thinner, Thins
      <4>2. CASE Next
        BY <2>4, <4>2, NextThins DEF FanInv
      <4> QED BY <4>1, <4>2
    <3>2. \A x \in Executions : submit'[x] # "done" => submit[x] # "done"
      BY <2>1, <2>4 DEF Next, vars, Immediate, ExecuteStep, MarkRunning, MarkRefused, N8nSucceeds, N8nFails, SaveResult,
         SaveRefused, WriteFailed, TimerStep, TimerFires, TimerStopped, TimerWriteFailed, DelayElapsed, DelayPasses,
         FailedWriteRefused, CreateExecution, ClientStep, CancelStopped, CancelChecked, CancelWritten,
         CancelRefused, DeleteRow, Request, CancelQueued, CancelRunning, CancelElsewhere, CancelDirect,
         DeleteChecked, Crash, Restart, ForgetAll
    <3>3. CASE Thinner(job, job')
      <4>1. Fan(job', p)
        BY <2>1, <2>2, <3>3, FanThins
      <4>2. \A i \in Jobs : Quiet(job'[i]) /\ job'[i].retryCount <= job'[i].maxRetries
        BY <3>3 DEF Thinner, Thins, Gone, FanInv
      <4>3. \A x \in Executions : submit'[x] # "done" => NoJobOf(job', x)
        BY <3>2, <3>3 DEF Thinner, Thins, Gone, FanInv, NoJobOf
      <4> QED BY <4>1, <4>2, <4>3 DEF FanInv
    <3>4. ASSUME NEW j \in Jobs, NEW k \in Jobs, Grows(job, job', j, k) PROVE FanInv'
      <4>1. \E r \in [Jobs -> SUBSET Nat] : Fan(job', r)
        BY <2>1, <2>2, <3>4, FanGrows
      <4>2. Quiet(job'[k]) /\ job'[k].retryCount <= job'[k].maxRetries /\ job'[k].ex = job[j].ex
        <5>1. job[j].retryCount \in Nat /\ job[j].maxRetries \in Nat
          BY <2>1 DEF JobTable, JobRecord
        <5> QED BY <3>4, <5>1 DEF Grows, RetryOf, Quiet
      <4>3. \A i \in Jobs \ {k} : Quiet(job'[i]) /\ job'[i].retryCount <= job'[i].maxRetries
        BY <3>4 DEF Grows, Thins, Gone, FanInv
      <4>4. \A x \in Executions : submit'[x] # "done" => NoJobOf(job', x)
        BY <3>2, <3>4, <4>2 DEF Grows, Thins, Gone, FanInv, NoJobOf
      <4> QED BY <4>1, <4>2, <4>3, <4>4 DEF FanInv
    <3> QED BY <3>1, <3>3, <3>4
  <2> QED BY <2>3, <2>4
<1>3. IInv /\ FanInv => RetryFanOut
  <2> SUFFICES ASSUME IInv, FanInv PROVE RetryFanOut
    OBVIOUS
  <2>1. job \in JobTable
    BY DEF IInv, TypeOK, JobTable
  <2>2. \A n \in {job[j].retryCount : j \in Jobs} : n \in Nat
    BY <2>1 DEF JobTable, JobRecord
  <2>3. PICK p \in [Jobs -> SUBSET Nat] : Fan(job, p)
    BY DEF FanInv
  <2> QED BY <2>1, <2>2, <2>3, FanIsNarrow DEF FanInv, RetryFanOut
<1> QED BY <1>1, <1>2, <1>3, Inductive, PTL DEF Spec
=============================================================================
