-------------------------- MODULE ExecutionLifecycle --------------------------
(***************************************************************************)
(* The life of an execution that is triggered over HTTP and run by n8n:    *)
(* ExecutionService.triggerExecution, cancelExecution, retryExecution and  *)
(* deleteExecution against the callbacks n8n sends to the three webhook    *)
(* routes and to POST /executions/webhook.  A step is what runs between    *)
(* two awaits; the writes of a row are those of ExecutionRepository.update *)
(* (an absent field leaves the column alone).                              *)
(***************************************************************************)
EXTENDS Naturals, FiniteSets

CONSTANTS
  Executions,     \* ids of rows
  Callers,        \* concurrent HTTP requests of users
  NoExecution,
  MaxDeliveries,  \* bound on the callbacks that arrive, repeated ones included
  MaxFaults       \* bound on refused writes and on crashes of the process

ASSUME LifecycleAssumption ==
  /\ IsFiniteSet(Executions)
  /\ NoExecution \notin Executions
  /\ MaxDeliveries \in Nat
  /\ MaxFaults \in Nat

VARIABLES
  row,        \* the rows of the executions table
  call,       \* what each caller's request is doing, and to which execution
  n8n,        \* the run of each execution inside n8n
  mail,       \* the callbacks n8n has sent; they stay, so one may arrive twice or late
  handling,   \* handleWebhookCallback between its read and its write
  deliveries, faults,
  \* History, read by properties alone.
  heard,      \* of n8n's run of each execution: no report of its end was written yet, it was
              \* ("end"), or it was and a start or progress report after it ("late")
  lost        \* the executions whose request was lost or refused when the row was its to write

vars == <<row, call, n8n, mail, handling, deliveries, faults, heard, lost>>

Active == {"PENDING", "RUNNING"}
Finished == {"SUCCESS", "FAILED", "CANCELLED"}

Rows == [status : {"none"} \cup Active \cup Finished,
         finishedAt : BOOLEAN, errorMessage : BOOLEAN, linked : BOOLEAN]

NoRow == [status |-> "none", finishedAt |-> FALSE, errorMessage |-> FALSE, linked |-> FALSE]

\* "retrying": a FAILED original was read.  "starting": the row is PENDING.  "calling":
\* n8n's answer is awaited.  "linking", "failing", "cancelling", "removing": that write is.
Steps == {"idle", "retrying", "starting", "calling", "linking", "failing",
          "cancelling", "removing"}

\* What a callback can say.  "unfinished" is POST /n8n/complete with finished = false,
\* "progress" is POST /n8n with it; "legacyOk" and "legacyFail" go to /executions/webhook.
Kinds == {"start", "progress", "unfinished", "ok", "fail", "legacyOk", "legacyFail"}

TypeOK ==
  /\ row \in [Executions -> Rows]
  /\ call \in [Callers -> [pc : Steps, ex : Executions \cup {NoExecution}]]
  /\ n8n \in [Executions -> {"off", "asked", "refused", "running", "ok", "fail"}]
  /\ mail \subseteq Kinds \X Executions
  /\ handling \subseteq {"legacyOk", "legacyFail"} \X Executions
  /\ deliveries \in Nat /\ faults \in Nat
  /\ heard \in [Executions -> {"nothing", "end", "late"}] /\ lost \subseteq Executions

Idle == [pc |-> "idle", ex |-> NoExecution]

Init ==
  /\ row = [e \in Executions |-> NoRow]
  /\ call = [c \in Callers |-> Idle]
  /\ n8n = [e \in Executions |-> "off"]
  /\ mail = {} /\ handling = {}
  /\ deliveries = 0 /\ faults = 0
  /\ heard = [e \in Executions |-> "nothing"] /\ lost = {}

Exists(e) == row[e].status # "none"

MutantWritten(r, status, error) ==
  [r EXCEPT !.status = status, !.finishedAt = @ \/ status \in {"SUCCESS", "FAILED"},
            !.errorMessage = @ \/ error]

\* ExecutionRepository.update with a status: finishedAt comes with a final one, and
\* nothing is ever cleared.
Written(r, status, error) ==
  [r EXCEPT !.status = status, !.finishedAt = @ \/ status \in Finished,
            !.errorMessage = @ \/ error]

Write(e, status, error) ==
  /\ Exists(e)
  /\ row' = [row EXCEPT ![e] = Written(@, status, error)]

\* The update throws: the row is gone, or the database fails.
Refused(e) ==
  \/ ~Exists(e) /\ UNCHANGED faults
  \/ Exists(e) /\ faults < MaxFaults /\ faults' = faults + 1

Goto(c, pc, e) == call' = [call EXCEPT ![c] = [pc |-> pc, ex |-> e]]
Return(c) == call' = [call EXCEPT ![c] = Idle]
At(c, pc) == call[c].pc = pc

-----------------------------------------------------------------------------
\* triggerExecution.

\* An id nothing refers to stands for a new one.
Fresh(e) == ~Exists(e) /\ n8n[e] = "off" /\ \A c \in Callers : call[c].ex # e

Created(e) == row' = [row EXCEPT ![e] = [NoRow EXCEPT !.status = "PENDING"]] /\ lost' = lost \ {e}

Trigger(c) ==
  /\ At(c, "idle")
  /\ \E e \in Executions : Fresh(e) /\ Created(e) /\ Goto(c, "starting", e)
  /\ UNCHANGED <<n8n, mail, handling, deliveries, faults, heard>>

MutantStart(c) ==
  /\ At(c, "starting")
  /\ Exists(call[c].ex)
  /\ n8n' = [n8n EXCEPT ![call[c].ex] = "asked"]
  /\ Goto(c, "calling", call[c].ex)
  /\ UNCHANGED <<row, mail, handling, deliveries, faults, heard, lost>>

\* The RUNNING write, then the request to n8n.
Start(c) ==
  LET e == call[c].ex IN
  /\ At(c, "starting")
  /\ Write(e, "RUNNING", FALSE)
  /\ n8n' = [n8n EXCEPT ![e] = "asked"]
  /\ Goto(c, "calling", e)
  /\ UNCHANGED <<mail, handling, deliveries, faults, heard, lost>>

StartRefused(c) ==
  /\ At(c, "starting")
  /\ Refused(call[c].ex)
  /\ Return(c)
  /\ lost' = lost \cup {call[c].ex}
  /\ UNCHANGED <<row, n8n, mail, handling, deliveries, heard>>

\* n8n's answer, with or without an id of its own.
Answered(c) ==
  /\ At(c, "calling")
  /\ n8n[call[c].ex] \in {"running", "ok", "fail"}
  /\ Goto(c, "linking", call[c].ex) \/ Return(c)
  /\ UNCHANGED <<row, n8n, mail, handling, deliveries, faults, heard, lost>>

\* An error, or the 30 s timeout of a request that n8n may have accepted all the same.
CallFailed(c) ==
  /\ At(c, "calling")
  /\ Goto(c, "failing", call[c].ex)
  /\ UNCHANGED <<row, n8n, mail, handling, deliveries, faults, heard, lost>>

Link(c) ==
  /\ At(c, "linking") /\ Exists(call[c].ex)
  /\ row' = [row EXCEPT ![call[c].ex].linked = TRUE]
  /\ Return(c)
  /\ UNCHANGED <<n8n, mail, handling, deliveries, faults, heard, lost>>

\* The n8nExecutionId is written inside the try block of the request: when that write
\* is refused the execution is failed, although n8n runs it.
LinkRefused(c) ==
  /\ At(c, "linking")
  /\ Refused(call[c].ex)
  /\ Goto(c, "failing", call[c].ex)
  /\ UNCHANGED <<row, n8n, mail, handling, deliveries, heard, lost>>

MutantFail(c) ==
  /\ At(c, "failing")
  /\ Return(c)
  /\ UNCHANGED <<row, n8n, mail, handling, deliveries, faults, heard, lost>>

Fail(c) ==
  /\ At(c, "failing")
  /\ Write(call[c].ex, "FAILED", TRUE)
  /\ Return(c)
  /\ UNCHANGED <<n8n, mail, handling, deliveries, faults, heard, lost>>

FailRefused(c) ==
  /\ At(c, "failing")
  /\ Refused(call[c].ex)
  /\ Return(c)
  /\ lost' = lost \cup {call[c].ex}
  /\ UNCHANGED <<row, n8n, mail, handling, deliveries, heard>>

\* retryExecution: the original is read, then a trigger of its own follows.
RetryChecked(c) ==
  /\ At(c, "idle")
  /\ \E e \in Executions : row[e].status = "FAILED" /\ Goto(c, "retrying", e)
  /\ UNCHANGED <<row, n8n, mail, handling, deliveries, faults, heard, lost>>

RetryTriggers(c) ==
  /\ At(c, "retrying")
  /\ \E e \in Executions : Fresh(e) /\ Created(e) /\ Goto(c, "starting", e)
  /\ UNCHANGED <<n8n, mail, handling, deliveries, faults, heard>>

-----------------------------------------------------------------------------
\* cancelExecution and deleteExecution: a read and a write each.

MutantCancelChecked(c) ==
  /\ At(c, "idle")
  /\ \E e \in Executions : Exists(e) /\ Goto(c, "cancelling", e)
  /\ UNCHANGED <<row, n8n, mail, handling, deliveries, faults, heard, lost>>

CancelChecked(c) ==
  /\ At(c, "idle")
  /\ \E e \in Executions : row[e].status \in Active /\ Goto(c, "cancelling", e)
  /\ UNCHANGED <<row, n8n, mail, handling, deliveries, faults, heard, lost>>

Cancel(c) ==
  /\ At(c, "cancelling")
  /\ Write(call[c].ex, "CANCELLED", FALSE)
  /\ Return(c)
  /\ UNCHANGED <<n8n, mail, handling, deliveries, faults, heard, lost>>

CancelRefused(c) ==
  /\ At(c, "cancelling")
  /\ Refused(call[c].ex)
  /\ Return(c)
  /\ UNCHANGED <<row, n8n, mail, handling, deliveries, heard, lost>>

DeleteChecked(c) ==
  /\ At(c, "idle")
  /\ \E e \in Executions :
       /\ Exists(e) /\ row[e].status # "RUNNING"
       /\ Goto(c, "removing", e)
  /\ UNCHANGED <<row, n8n, mail, handling, deliveries, faults, heard, lost>>

Remove(c) ==
  /\ At(c, "removing")
  /\ row' = [row EXCEPT ![call[c].ex] = NoRow]
  /\ Return(c)
  /\ UNCHANGED <<n8n, mail, handling, deliveries, faults, heard, lost>>

-----------------------------------------------------------------------------
\* n8n.

N8nRuns(e) ==
  /\ n8n[e] = "asked"
  /\ n8n' = [n8n EXCEPT ![e] = "running"]
  /\ mail' = mail \cup ({"start", "progress", "unfinished"} \X {e})
  /\ UNCHANGED <<row, call, handling, deliveries, faults, heard, lost>>

\* n8n is down, answers with an error, or never sees the request.
N8nRefuses(e) ==
  /\ n8n[e] = "asked"
  /\ n8n' = [n8n EXCEPT ![e] = "refused"]
  /\ UNCHANGED <<row, call, mail, handling, deliveries, faults, heard, lost>>

N8nFinishes(e) ==
  /\ n8n[e] = "running"
  /\ \/ /\ n8n' = [n8n EXCEPT ![e] = "ok"]
        /\ mail' = mail \cup ({"ok", "legacyOk"} \X {e})
     \/ /\ n8n' = [n8n EXCEPT ![e] = "fail"]
        /\ mail' = mail \cup ({"fail", "legacyFail"} \X {e})
  /\ UNCHANGED <<row, call, handling, deliveries, faults, heard, lost>>

MutantPayloadStatus(kind) == IF kind \in {"ok", "unfinished"} THEN "SUCCESS" ELSE "FAILED"

\* Mutant: "running" is stored as it comes.
MutantStatusName(kind) ==
  IF kind = "ok" THEN "SUCCESS" ELSE IF kind = "fail" THEN "FAILED" ELSE "running"

\* getExecutionStatusFromPayload, and what its callers make of "running": a failure.
PayloadStatus(kind) == IF kind = "ok" THEN "SUCCESS" ELSE "FAILED"

\* The write of handleExecutionStart, handleExecutionComplete and processWebhookPayload.
CallbackWrite(kind, e) ==
  \/ kind \in {"start", "progress"} /\ Write(e, "RUNNING", FALSE)
  \/ kind \in {"unfinished", "ok", "fail"} /\ Write(e, PayloadStatus(kind), kind = "fail")

\* The history of a callback's write.
Noted(kind, e) ==
  heard' = [heard EXCEPT ![e] = IF kind \in {"ok", "fail", "legacyOk", "legacyFail"} THEN "end"
                                ELSE IF kind \in {"start", "progress"} /\ @ = "end" THEN "late" ELSE @]

\* A callback arrives at one of the /n8n routes: in any order, any number of times.  When
\* its write is refused the answer is 500 and the row is as it was.
Callback(m) ==
  /\ m \in mail /\ deliveries < MaxDeliveries
  /\ deliveries' = deliveries + 1
  /\ CallbackWrite(m[1], m[2]) /\ Noted(m[1], m[2])
  /\ UNCHANGED <<call, n8n, mail, handling, faults, lost>>

\* handleWebhookCallback reads the row, ignores a callback for none, and writes later.
LegacyRead(m) ==
  /\ m \in mail /\ m[1] \in {"legacyOk", "legacyFail"}
  /\ deliveries < MaxDeliveries
  /\ deliveries' = deliveries + 1
  /\ Exists(m[2])
  /\ handling' = handling \cup {m}
  /\ UNCHANGED <<row, call, n8n, mail, faults, heard, lost>>

LegacyWrite(m) ==
  /\ m \in handling
  /\ Write(m[2], IF m[1] = "legacyOk" THEN "SUCCESS" ELSE "FAILED", m[1] = "legacyFail")
  /\ Noted(m[1], m[2])
  /\ handling' = handling \ {m}
  /\ UNCHANGED <<call, n8n, mail, deliveries, faults, lost>>

LegacyRefused(m) ==
  /\ m \in handling
  /\ Refused(m[2])
  /\ handling' = handling \ {m}
  /\ UNCHANGED <<row, call, n8n, mail, deliveries, heard, lost>>

\* The process dies and is restarted: the requests are lost, n8n runs on.
Crash ==
  /\ faults < MaxFaults
  /\ faults' = faults + 1
  /\ call' = [c \in Callers |-> Idle]
  /\ handling' = {}
  /\ lost' = lost \cup {call[c].ex : c \in {d \in Callers : call[d].pc \in {"starting", "calling", "failing"}}}
  /\ UNCHANGED <<row, n8n, mail, deliveries, heard>>

-----------------------------------------------------------------------------
CallStep(c) ==
  \/ Start(c) \/ StartRefused(c) \/ Answered(c) \/ CallFailed(c)
  \/ Link(c) \/ LinkRefused(c) \/ Fail(c) \/ FailRefused(c)
  \/ Cancel(c) \/ CancelRefused(c) \/ Remove(c)

Request(c) ==
  Trigger(c) \/ RetryChecked(c) \/ RetryTriggers(c) \/ CancelChecked(c) \/ DeleteChecked(c)

Webhook ==
  \E m \in mail : Callback(m) \/ LegacyRead(m) \/ LegacyWrite(m) \/ LegacyRefused(m)

Next ==
  \/ \E c \in Callers : Request(c) \/ CallStep(c)
  \/ \E e \in Executions : N8nRuns(e) \/ N8nRefuses(e) \/ N8nFinishes(e)
  \/ Webhook
  \/ Crash

Spec == Init /\ [][Next]_vars

\* The database answers, and axios ends every request after 30 s.  n8n need not answer,
\* finish or call back.
Fairness == \A c \in Callers : WF_vars(CallStep(c))
LiveSpec == Spec /\ Fairness

-----------------------------------------------------------------------------
(***************************************************************************)
(* Properties.                                                             *)
(***************************************************************************)

\* Whichever of the five writers ended it and in whatever order the others came, a
\* finished execution has a finish time: durations and analytics rest on it.
FinishedHasTime == \A e \in Executions : row[e].status \in Finished => row[e].finishedAt

\* No order of callbacks, timeouts and retries makes an execution SUCCESS that n8n has
\* not completed without error.
SuccessIsReported == \A e \in Executions : row[e].status = "SUCCESS" => n8n[e] = "ok"

InHand(e, steps) == \E c \in Callers : call[c].ex = e /\ call[c].pc \in steps

\* Nothing waits for nobody, but for two reasons that are named.  A PENDING row has the
\* request that starts it; a RUNNING one has the request that is at n8n for it or will fail
\* it, or its run in n8n, the end of which is still to be reported.  The reasons: the
\* request was lost, in a crash or with a refused write; or a report of the start or of
\* progress was written after the one of the end ("late").
ActiveHasOwner ==
  \A e \in Executions :
    /\ row[e].status = "PENDING" => InHand(e, {"starting"}) \/ e \in lost
    /\ row[e].status = "RUNNING" =>
         /\ heard[e] # "end"
         /\ n8n[e] \in {"running", "ok", "fail"} \/ InHand(e, {"calling", "failing"}) \/ e \in lost

\* An execution n8n never ran and no request is about to write.
Settled(e) ==
  /\ row[e].status \in Finished
  /\ n8n[e] \in {"off", "refused"}
  /\ ~InHand(e, {"starting", "calling", "linking", "failing", "cancelling"})

\* An execution that ended without n8n keeps its final status until it is deleted: no
\* cancel, retry, delete check, crash or other execution's callback brings it back.
SettledStays ==
  [][\A e \in Executions : Settled(e) =>
       row'[e].status = "none" \/ (row'[e].status = row[e].status /\ Settled(e)')]_vars

\* A PENDING execution is started, failed, cancelled or deleted in the end, when no
\* write is refused and the process lives.
PendingIsStarted ==
  \A e \in Executions : row[e].status = "PENDING" ~> row[e].status # "PENDING"
=============================================================================
