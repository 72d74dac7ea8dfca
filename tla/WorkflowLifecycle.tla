-------------------------- MODULE WorkflowLifecycle --------------------------
(***************************************************************************)
(* Workflows and the executions that hang on them: WorkflowService and its *)
(* repository (create, duplicate, the two ways to change a status, soft    *)
(* and hard delete), createExecution as the HTTP trigger and the queue's   *)
(* submission reach it, and the foreign key of executions with its         *)
(* cascade.  Every call is a chain of database calls; one action is one.   *)
(***************************************************************************)
EXTENDS Naturals, FiniteSets

CONSTANTS
  Workflows, Executions,   \* ids of rows
  Callers,                 \* concurrent requests of the owner
  NoWorkflow

WorkflowAssumption == NoWorkflow \notin Workflows

Statuses == {"DRAFT", "ACTIVE", "INACTIVE"}
Active == {"PENDING", "RUNNING"}
Finished == {"SUCCESS", "FAILED", "CANCELLED"}

VARIABLES
  status,     \* the workflows table; "none": no such row
  exec,       \* the executions table: workflow and status
  call,       \* what each caller's request has read, and what it does next
  counted,    \* executions that were there when a caller's delete counted them
  revived     \* executions a late callback has made active again

vars == <<status, exec, call, counted, revived>>

Calls == [pc : {"idle", "copying", "updating", "validated", "moving", "softening",
                "found", "counted", "submitting", "creating"},
          wf : Workflows \cup {NoWorkflow}, to : Statuses \cup {"none"}]

Idle == [pc |-> "idle", wf |-> NoWorkflow, to |-> "none"]

TypeOK ==
  /\ status \in [Workflows -> Statuses \cup {"none"}]
  /\ exec \in [Executions -> [wf : Workflows \cup {NoWorkflow},
                              status : {"none"} \cup Active \cup Finished]]
  /\ call \in [Callers -> Calls]
  /\ counted \in [Callers -> SUBSET Executions]
  /\ revived \subseteq Executions

NoExec == [wf |-> NoWorkflow, status |-> "none"]

Init ==
  /\ status = [w \in Workflows |-> "none"]
  /\ exec = [e \in Executions |-> NoExec]
  /\ call = [c \in Callers |-> Idle]
  /\ counted = [c \in Callers |-> {}]
  /\ revived = {}

Of(w) == {e \in Executions : exec[e].wf = w /\ exec[e].status # "none"}

At(c, pc) == call[c].pc = pc
Goto(c, pc, w, to) == call' = [call EXCEPT ![c] = [pc |-> pc, wf |-> w, to |-> to]]
Return(c) == call' = [call EXCEPT ![c] = Idle]
Rest == UNCHANGED <<exec, counted, revived>>

\* findByIdAndUserId at the start of a request.
Begin(c, w) == At(c, "idle") /\ status[w] # "none"

\* prisma.workflow.update, which throws when the row is gone.
SetStatus(c, from, s) ==
  /\ At(c, from)
  /\ status' = IF status[call[c].wf] = "none" THEN status ELSE [status EXCEPT ![call[c].wf] = s]
  /\ Return(c)
  /\ Rest

-----------------------------------------------------------------------------
\* createWorkflow; duplicateWorkflow reads the original first and makes a DRAFT.

Create(c) ==
  /\ At(c, "idle")
  /\ \E w \in Workflows, s \in Statuses :
       /\ status[w] = "none" /\ Of(w) = {} /\ \A d \in Callers : call[d].wf # w
       /\ status' = [status EXCEPT ![w] = s]
  /\ UNCHANGED call /\ Rest

DuplicateRead(c, w) == Begin(c, w) /\ Goto(c, "copying", w, "DRAFT") /\ UNCHANGED status /\ Rest

DuplicateCreate(c) ==
  /\ At(c, "copying")
  /\ \E w \in Workflows :
       /\ status[w] = "none" /\ Of(w) = {} /\ \A d \in Callers : call[d].wf # w
       /\ status' = [status EXCEPT ![w] = "DRAFT"]
  /\ Return(c) /\ Rest

\* updateWorkflow (PUT): a status may come with it and is not checked against the old one.
UpdateFound(c, w) ==
  /\ Begin(c, w)
  /\ \E s \in Statuses : Goto(c, "updating", w, s)
  /\ UNCHANGED status /\ Rest

Update(c) == SetStatus(c, "updating", call[c].to)

\* updateWorkflowStatus (PATCH): getWorkflowById and validateStatusTransition, then the
\* repository looks the row up once more, then writes.
ValidateTransition(from, to) == to # from

StatusValidated(c, w) ==
  /\ Begin(c, w)
  /\ \E s \in Statuses : ValidateTransition(status[w], s) /\ Goto(c, "validated", w, s)
  /\ UNCHANGED status /\ Rest

StatusFound(c) ==
  /\ At(c, "validated")
  /\ IF status[call[c].wf] = "none" THEN Return(c) ELSE Goto(c, "moving", call[c].wf, call[c].to)
  /\ UNCHANGED status /\ Rest

UpdateStatus(c) == SetStatus(c, "moving", call[c].to)

SoftDeleteFound(c, w) ==
  Begin(c, w) /\ Goto(c, "softening", w, "INACTIVE") /\ UNCHANGED status /\ Rest

SoftDelete(c) == SetStatus(c, "softening", "INACTIVE")

-----------------------------------------------------------------------------
\* WorkflowRepository.delete: found, counted, deleted with its executions.

DeleteFound(c, w) == Begin(c, w) /\ Goto(c, "found", w, "none") /\ UNCHANGED status /\ Rest

\* Mutant: only RUNNING executions count.
MutantCountedActive(w) == {e \in Of(w) : exec[e].status = "RUNNING"}

CountedActive(w) == {e \in Of(w) : exec[e].status \in Active}

DeleteCounted(c) ==
  /\ At(c, "found")
  /\ IF CountedActive(call[c].wf) = {}
     THEN /\ Goto(c, "counted", call[c].wf, "none")
          /\ counted' = [counted EXCEPT ![c] = Of(call[c].wf)]
     ELSE Return(c) /\ UNCHANGED counted
  /\ UNCHANGED <<status, exec, revived>>

\* onDelete: Cascade
Cascade(w) == [e \in Executions |-> IF exec[e].wf = w THEN NoExec ELSE exec[e]]

Delete(c) ==
  /\ At(c, "counted")
  /\ status' = [status EXCEPT ![call[c].wf] = "none"]
  /\ exec' = Cascade(call[c].wf)
  /\ revived' = revived \ Of(call[c].wf)
  /\ counted' = [counted EXCEPT ![c] = {}]
  /\ Return(c)

-----------------------------------------------------------------------------
\* Executions.  WorkflowExecutionService.executeWorkflow asks for an ACTIVE workflow and
\* then calls createExecution; POST /executions calls createExecution alone.

SubmitChecked(c, w) ==
  /\ Begin(c, w)
  /\ status[w] = "ACTIVE"
  /\ Goto(c, "submitting", w, "none")
  /\ UNCHANGED status /\ Rest

\* createExecution reads the workflow ...
SubmitFound(c) ==
  /\ At(c, "submitting")
  /\ IF status[call[c].wf] = "none" THEN Return(c) ELSE Goto(c, "creating", call[c].wf, "none")
  /\ UNCHANGED status /\ Rest

TriggerFound(c, w) == Begin(c, w) /\ Goto(c, "creating", w, "none") /\ UNCHANGED status /\ Rest

\* ... and inserts the row, which the foreign key refuses when the workflow is gone.
Inserted(e, w) ==
  exec' = IF status[w] = "none" THEN exec ELSE [exec EXCEPT ![e] = [wf |-> w, status |-> "PENDING"]]

CreateExecution(c) ==
  /\ At(c, "creating")
  /\ \E e \in Executions : exec[e].status = "none" /\ Inserted(e, call[c].wf)
  /\ Return(c)
  /\ UNCHANGED <<status, counted, revived>>

SetExec(e, s) == exec' = [exec EXCEPT ![e].status = s]

\* The rest of an execution's life, as ExecutionQueue and ExecutionLifecycle give it.
ExecutionMoves(e) ==
  /\ \/ exec[e].status = "PENDING" /\ SetExec(e, "RUNNING") /\ UNCHANGED revived
     \/ exec[e].status \in Active /\ (\E s \in Finished : SetExec(e, s)) /\ revived' = revived \ {e}
     \/ exec[e].status \in Finished /\ SetExec(e, "RUNNING") /\ revived' = revived \cup {e}
  /\ UNCHANGED <<status, call, counted>>

-----------------------------------------------------------------------------
Next ==
  \/ \E c \in Callers :
       \/ Create(c) \/ DuplicateCreate(c) \/ Update(c) \/ StatusFound(c) \/ UpdateStatus(c)
       \/ SoftDelete(c) \/ DeleteCounted(c) \/ Delete(c) \/ SubmitFound(c) \/ CreateExecution(c)
       \/ \E w \in Workflows :
            \/ DuplicateRead(c, w) \/ UpdateFound(c, w) \/ StatusValidated(c, w)
            \/ SoftDeleteFound(c, w) \/ DeleteFound(c, w) \/ SubmitChecked(c, w) \/ TriggerFound(c, w)
  \/ \E e \in Executions : ExecutionMoves(e)

Spec == Init /\ [][Next]_vars

-----------------------------------------------------------------------------
\* How far the check of a delete reaches: an active execution goes with its workflow only
\* if it was created, or brought back by a late callback, after the delete had counted.
DeleteRaceIsNarrow ==
  [][\A c \in Callers :
       At(c, "counted") /\ ~At(c, "counted")'
         => \A e \in Of(call[c].wf) :
              exec[e].status \in Active => e \notin counted[c] \/ e \in revived]_vars
=============================================================================
