------------------------ MODULE ExecutionLifecycleProofs ------------------------
(***************************************************************************)
(* Proofs about ExecutionLifecycle, for any number of executions, callers, *)
(* callbacks and faults.                                                   *)
(*                                                                         *)
(* Every property of the rows rests on what n8n's callbacks say of n8n:    *)
(* they are sent of a run that goes on or is over as they tell it, and no  *)
(* run is asked for twice, because a request starts only the row it has    *)
(* created.  That is N8nInv; the rows follow.  The last part is about the  *)
(* table as it is read, which MCExecutions puts beside it.                 *)
(***************************************************************************)
EXTENDS MCExecutions, FiniteSetTheorems, SequenceTheorems, TLAPS

Runs == {"off", "asked", "refused", "running", "ok", "fail"}
Heard == {"running", "ok", "fail"}

\* A request that is at work is at work on some execution.
Busy == \A c \in Callers : call[c].pc # "idle" => call[c].ex \in Executions

\* What is being handled was sent.
HandlingIsMail == handling \subseteq mail

\* What n8n has told of a run is so.
MailIsTrue ==
  \A m \in mail :
    /\ n8n[m[2]] \in Heard
    /\ m[1] \in {"ok", "legacyOk"} => n8n[m[2]] = "ok"

\* The request that starts an execution is the only one that does, and the first.
StarterIsFirst ==
  \A c \in Callers : At(c, "starting") =>
    /\ n8n[call[c].ex] = "off"
    /\ \A d \in Callers : At(d, "starting") /\ call[d].ex = call[c].ex => d = c

\* Reports are written of runs that were taken up.
HeardWereRun == \A e \in Executions : heard[e] # "nothing" => n8n[e] \in Heard

\* After the report of its end an execution is not active.
EndedAreOver == \A e \in Executions : heard[e] = "end" => row[e].status \notin Active

TypeInv == TypeOK /\ Busy
N8nInv == HandlingIsMail /\ MailIsTrue /\ StarterIsFirst /\ HeardWereRun
RowInv == FinishedHasTime /\ SuccessIsReported /\ EndedAreOver /\ ActiveHasOwner
IInv == TypeInv /\ N8nInv /\ RowInv

-----------------------------------------------------------------------------
(***************************************************************************)
(* What the writes do.                                                     *)
(***************************************************************************)

\* The row of one execution is changed, to a row of the given status; a final one has its time.
Wrote(e, status) ==
  /\ row' \in [Executions -> Rows]
  /\ row'[e].status = status
  /\ status \in Finished => row'[e].finishedAt
  /\ \A d \in Executions \ {e} : row'[d] = row[d]

\* The entry of one caller is changed.
Moved(c, pc, e) ==
  /\ call' \in [Callers -> [pc : Steps, ex : Executions \cup {NoExecution}]]
  /\ call'[c].pc = pc /\ call'[c].ex = e
  /\ \A d \in Callers \ {c} : call'[d] = call[d]

LEMMA WriteWrites ==
  ASSUME TypeOK, NEW e \in Executions, NEW status \in Active \cup Finished, NEW error \in BOOLEAN,
         Write(e, status, error)
  PROVE  Wrote(e, status) /\ Exists(e)
<1>1. row[e] \in Rows /\ row' = [row EXCEPT ![e] = Written(row[e], status, error)] /\ Exists(e)
  BY DEF TypeOK, Write
<1> DEFINE r == Written(row[e], status, error)
<1>2. r \in Rows /\ r.status = status /\ (status \in Finished => r.finishedAt)
  BY <1>1 DEF Written, Rows, Active, Finished
<1>3. row' = [row EXCEPT ![e] = r]
  BY <1>1
<1> HIDE DEF r
<1> QED BY <1>1, <1>2, <1>3 DEF Wrote, TypeOK

LEMMA CreateWrites == ASSUME TypeOK, NEW e \in Executions, Created(e) PROVE Wrote(e, "PENDING")
<1> DEFINE r == [NoRow EXCEPT !.status = "PENDING"]
<1>1. r \in Rows /\ r.status = "PENDING"
  BY DEF NoRow, Rows, Active
<1>2. row' = [row EXCEPT ![e] = r]
  BY DEF Created
<1> HIDE DEF r
<1> QED BY <1>1, <1>2 DEF Wrote, TypeOK, Finished

LEMMA GotoMoves ==
  ASSUME TypeOK, NEW c \in Callers, NEW pc \in Steps, NEW e \in Executions, Goto(c, pc, e)
  PROVE  Moved(c, pc, e)
<1> DEFINE x == [pc |-> pc, ex |-> e]
<1>1. x \in [pc : Steps, ex : Executions \cup {NoExecution}] /\ x.pc = pc /\ x.ex = e
  OBVIOUS
<1>2. call' = [call EXCEPT ![c] = x]
  BY DEF Goto
<1> HIDE DEF x
<1> QED BY <1>1, <1>2 DEF Moved, TypeOK

LEMMA ReturnMoves ==
  ASSUME TypeOK, NEW c \in Callers, Return(c)
  PROVE  Moved(c, "idle", NoExecution)
<1>1. /\ Idle \in [pc : Steps, ex : Executions \cup {NoExecution}]
      /\ Idle.pc = "idle" /\ Idle.ex = NoExecution
  BY DEF Idle, Steps
<1>2. call' = [call EXCEPT ![c] = Idle]
  BY DEF Return
<1> QED BY <1>1, <1>2 DEF Moved, TypeOK

LEMMA RefusedCounts == ASSUME TypeOK, NEW e \in Executions, Refused(e) PROVE faults' \in Nat
  BY DEF TypeOK, Refused

LEMMA Mail ==
  ASSUME TypeOK, NEW m \in mail
  PROVE  m[1] \in Kinds /\ m[2] \in Executions /\ m = <<m[1], m[2]>>
  BY DEF TypeOK

-----------------------------------------------------------------------------
(***************************************************************************)
(* Every step is one of eight: of a caller that creates a row, starts n8n, *)
(* or goes on (with a write or without), of n8n, of a callback (which      *)
(* writes or does not), or a crash.                                        *)
(***************************************************************************)

\* A request creates a row, to start it next.
Creates ==
  \E c \in Callers, e \in Executions :
    /\ call[c].pc \in {"idle", "retrying"} /\ Fresh(e)
    /\ Wrote(e, "PENDING") /\ Moved(c, "starting", e) /\ lost' = lost \ {e}
    /\ UNCHANGED <<n8n, mail, handling, deliveries, faults, heard>>

\* A request asks n8n to run the execution.
Starts ==
  \E c \in Callers, e \in Executions :
    /\ At(c, "starting") /\ call[c].ex = e /\ Exists(e)
    /\ Wrote(e, "RUNNING") /\ Moved(c, "calling", e)
    /\ n8n' = [n8n EXCEPT ![e] = "asked"]
    /\ UNCHANGED <<mail, handling, deliveries, faults, heard, lost>>

\* A request takes up an execution: to retry, cancel or delete it.
TakesUp ==
  \E c \in Callers, e \in Executions, pc \in {"retrying", "cancelling", "removing"} :
    /\ At(c, "idle") /\ Moved(c, pc, e)
    /\ pc = "cancelling" => row[e].status \in Active
    /\ UNCHANGED <<row, n8n, mail, handling, deliveries, faults, heard, lost>>

\* A request goes on or returns without a change of status, and leaves no active row it
\* answers for unless n8n has it, it is lost, or the request will fail it.
GoesOn ==
  \E c \in Callers, e \in Executions, pc \in {"idle", "linking", "failing"}, d \in Executions \cup {NoExecution} :
    /\ ~At(c, "idle") /\ call[c].ex = e /\ Moved(c, pc, d)
    /\ pc # "idle" => d = e
    /\ pc = "failing" => call[c].pc \in {"calling", "linking"}
    /\ pc = "linking" => At(c, "calling")
    /\ pc # "failing" /\ call[c].pc \in {"starting", "calling", "failing"} =>
         e \in lost' \/ (At(c, "calling") /\ n8n[e] \in Heard)
    /\ row' \in [Executions -> Rows]
    /\ \A x \in Executions : row'[x].status = row[x].status /\ row'[x].finishedAt = row[x].finishedAt
    /\ faults' \in Nat /\ lost \subseteq lost' /\ lost' \subseteq Executions
    /\ UNCHANGED <<n8n, mail, handling, deliveries, heard>>

\* A request ends the execution, or removes its row, and returns.
Ends ==
  \E c \in Callers, e \in Executions :
    /\ call[c].pc \in {"failing", "cancelling", "removing"} /\ call[c].ex = e
    /\ Moved(c, "idle", NoExecution)
    /\ \/ At(c, "failing") /\ Wrote(e, "FAILED")
       \/ At(c, "cancelling") /\ Wrote(e, "CANCELLED")
       \/ At(c, "removing") /\ Wrote(e, "none")
    /\ UNCHANGED <<n8n, mail, handling, deliveries, faults, heard, lost>>

\* n8n takes up a run, refuses it, or ends it, and says so.
N8nMoves ==
  \E e \in Executions, new \in {"running", "refused", "ok", "fail"}, kinds \in SUBSET Kinds :
    /\ n8n' = [n8n EXCEPT ![e] = new] /\ mail' = mail \cup (kinds \X {e})
    /\ n8n[e] = IF new \in {"running", "refused"} THEN "asked" ELSE "running"
    /\ new = "refused" => kinds = {}
    /\ new # "ok" => kinds \cap {"ok", "legacyOk"} = {}
    /\ UNCHANGED <<row, call, handling, deliveries, faults, heard, lost>>

\* A callback writes a row: of what n8n has said.  After the report of an end it is not
\* RUNNING.
Hears ==
  \E m \in mail, status \in {"RUNNING", "SUCCESS", "FAILED"} :
    /\ m[2] \in Executions /\ Exists(m[2]) /\ Wrote(m[2], status)
    /\ status = "SUCCESS" => m[1] \in {"ok", "legacyOk"}
    /\ deliveries' \in Nat /\ handling' \subseteq handling
    /\ heard' \in [Executions -> {"nothing", "end", "late"}]
    /\ heard'[m[2]] = "end" => status # "RUNNING"
    /\ \A d \in Executions \ {m[2]} : heard'[d] = heard[d]
    /\ UNCHANGED <<call, n8n, mail, faults, lost>>

\* A callback reads, or is given up.
HearsNothing ==
  /\ handling' \subseteq mail /\ handling' \subseteq {"legacyOk", "legacyFail"} \X Executions
  /\ deliveries' \in Nat /\ faults' \in Nat
  /\ UNCHANGED <<row, call, n8n, mail, heard, lost>>

Crashes ==
  /\ faults' \in Nat /\ call' = [c \in Callers |-> Idle] /\ handling' = {}
  /\ lost \subseteq lost' /\ lost' \subseteq Executions
  /\ \A c \in Callers : call[c].pc \in {"starting", "calling", "failing"} => call[c].ex \in lost'
  /\ UNCHANGED <<row, n8n, mail, deliveries, heard>>

LEMMA RequestSteps ==
  ASSUME TypeInv, NEW c \in Callers, Request(c)
  PROVE  Creates \/ TakesUp
<1>1. ASSUME Trigger(c) \/ RetryTriggers(c) PROVE Creates
  <2>1. PICK e \in Executions : Fresh(e) /\ Created(e) /\ Goto(c, "starting", e)
    BY <1>1 DEF Trigger, RetryTriggers
  <2>2. Wrote(e, "PENDING") /\ Moved(c, "starting", e) /\ lost' = lost \ {e}
    BY <2>1, CreateWrites, GotoMoves DEF TypeInv, Steps, Created
  <2>3. call[c].pc \in {"idle", "retrying"} /\ UNCHANGED <<n8n, mail, handling, deliveries, faults, heard>>
    BY <1>1 DEF Trigger, RetryTriggers, At
  <2> QED BY <2>1, <2>2, <2>3 DEF Creates
<1>2. ASSUME RetryChecked(c) \/ CancelChecked(c) \/ DeleteChecked(c) PROVE TakesUp
  <2>1. PICK e \in Executions, pc \in {"retrying", "cancelling", "removing"} :
          Goto(c, pc, e) /\ (pc = "cancelling" => row[e].status \in Active)
    BY <1>2 DEF RetryChecked, CancelChecked, DeleteChecked
  <2>2. Moved(c, pc, e)
    BY <2>1, GotoMoves DEF TypeInv, Steps
  <2>3. At(c, "idle") /\ UNCHANGED <<row, n8n, mail, handling, deliveries, faults, heard, lost>>
    BY <1>2 DEF RetryChecked, CancelChecked, DeleteChecked
  <2> QED BY <2>1, <2>2, <2>3 DEF TakesUp
<1> QED BY <1>1, <1>2 DEF Request

LEMMA CallSteps ==
  ASSUME TypeInv, NEW c \in Callers, CallStep(c)
  PROVE  Starts \/ GoesOn \/ Ends
<1> DEFINE e == call[c].ex
<1>0. e \in Executions
  BY DEF CallStep, Start, StartRefused, Answered, CallFailed, Link, LinkRefused, Fail, FailRefused,
         Cancel, CancelRefused, Remove, At, TypeInv, Busy
<1>1. ASSUME Start(c) PROVE Starts
  <2>1. Wrote(e, "RUNNING") /\ Exists(e) /\ Moved(c, "calling", e)
    BY <1>0, <1>1, WriteWrites, GotoMoves DEF Start, TypeInv, Steps, Active
  <2> QED BY <1>0, <1>1, <2>1 DEF Starts, Start
<1>2. ASSUME StartRefused(c) \/ FailRefused(c) \/ CancelRefused(c) PROVE GoesOn
  <2>1. Moved(c, "idle", NoExecution) /\ faults' \in Nat
    BY <1>0, <1>2, ReturnMoves, RefusedCounts DEF StartRefused, FailRefused, CancelRefused, TypeInv
  <2>2. ~At(c, "idle") /\ row \in [Executions -> Rows] /\ UNCHANGED <<row, n8n, mail, handling, deliveries, heard>>
    BY <1>2 DEF StartRefused, FailRefused, CancelRefused, At, TypeInv, TypeOK
  <2>3. /\ lost \subseteq lost' /\ lost' \subseteq Executions
        /\ call[c].pc \in {"starting", "calling", "failing"} => e \in lost'
    BY <1>0, <1>2 DEF StartRefused, FailRefused, CancelRefused, At, TypeInv, TypeOK
  <2> QED BY <1>0, <2>1, <2>2, <2>3 DEF GoesOn
<1>3. ASSUME Answered(c) PROVE GoesOn
  <2>1. Moved(c, "idle", NoExecution) \/ Moved(c, "linking", e)
    BY <1>0, <1>3, ReturnMoves, GotoMoves DEF Answered, TypeInv, Steps
  <2>2. /\ At(c, "calling") /\ ~At(c, "idle") /\ n8n[e] \in Heard /\ row \in [Executions -> Rows] /\ faults \in Nat
        /\ lost \subseteq Executions /\ UNCHANGED <<row, n8n, mail, handling, deliveries, faults, heard, lost>>
    BY <1>3 DEF Answered, At, Heard, TypeInv, TypeOK
  <2> QED BY <1>0, <2>1, <2>2 DEF GoesOn
<1>4. ASSUME CallFailed(c) \/ LinkRefused(c) PROVE GoesOn
  <2>1. Moved(c, "failing", e) /\ faults' \in Nat
    BY <1>0, <1>4, GotoMoves, RefusedCounts DEF CallFailed, LinkRefused, TypeInv, TypeOK, Steps
  <2>2. /\ call[c].pc \in {"calling", "linking"} /\ ~At(c, "idle") /\ row \in [Executions -> Rows]
        /\ lost \subseteq Executions /\ UNCHANGED <<row, n8n, mail, handling, deliveries, heard, lost>>
    BY <1>4 DEF CallFailed, LinkRefused, At, TypeInv, TypeOK
  <2> QED BY <1>0, <2>1, <2>2 DEF GoesOn
<1>5. ASSUME Link(c) PROVE GoesOn
  <2>1. Moved(c, "idle", NoExecution) /\ At(c, "linking") /\ ~At(c, "idle") /\ faults \in Nat
        /\ lost \subseteq Executions /\ UNCHANGED <<n8n, mail, handling, deliveries, faults, heard, lost>>
    BY <1>5, ReturnMoves DEF Link, TypeInv, TypeOK, At
  <2>2. row' = [row EXCEPT ![e].linked = TRUE] /\ row \in [Executions -> Rows]
    BY <1>5 DEF Link, TypeInv, TypeOK
  <2>3. /\ row' \in [Executions -> Rows]
        /\ \A x \in Executions : row'[x].status = row[x].status /\ row'[x].finishedAt = row[x].finishedAt
    BY <1>0, <2>2 DEF Rows
  <2> QED BY <1>0, <2>1, <2>3 DEF GoesOn, At
<1>6. ASSUME Fail(c) PROVE Ends
  <2>1. Wrote(e, "FAILED") /\ Moved(c, "idle", NoExecution)
    BY <1>0, <1>6, WriteWrites, ReturnMoves DEF Fail, TypeInv, Finished
  <2> QED BY <1>0, <1>6, <2>1 DEF Ends, Fail, At
<1>7. ASSUME Cancel(c) PROVE Ends
  <2>1. Wrote(e, "CANCELLED") /\ Moved(c, "idle", NoExecution)
    BY <1>0, <1>7, WriteWrites, ReturnMoves DEF Cancel, TypeInv, Finished
  <2> QED BY <1>0, <1>7, <2>1 DEF Ends, Cancel, At
<1>8. ASSUME Remove(c) PROVE Ends
  <2>1. NoRow \in Rows /\ NoRow.status = "none"
    BY DEF NoRow, Rows
  <2>2. Wrote(e, "none") /\ Moved(c, "idle", NoExecution)
    BY <1>0, <1>8, <2>1, ReturnMoves DEF Remove, TypeInv, TypeOK, Wrote, Finished
  <2> QED BY <1>0, <1>8, <2>2 DEF Ends, Remove, At
<1> QED BY <1>1, <1>2, <1>3, <1>4, <1>5, <1>6, <1>7, <1>8 DEF CallStep

LEMMA N8nSteps ==
  ASSUME TypeInv, NEW e \in Executions, N8nRuns(e) \/ N8nRefuses(e) \/ N8nFinishes(e)
  PROVE  N8nMoves
<1>1. CASE N8nRuns(e)
  <2>1. {"start", "progress", "unfinished"} \in SUBSET Kinds
    BY DEF Kinds
  <2> QED BY <1>1, <2>1 DEF N8nRuns, N8nMoves
<1>2. CASE N8nRefuses(e)
  <2>1. PICK kinds \in SUBSET Kinds : kinds = {}
    OBVIOUS
  <2>2. mail' = mail \cup (kinds \X {e}) /\ kinds \cap {"ok", "legacyOk"} = {}
    BY <1>2, <2>1 DEF N8nRefuses
  <2> QED BY <1>2, <2>1, <2>2 DEF N8nRefuses, N8nMoves
<1>3. CASE N8nFinishes(e)
  <2>1. {"ok", "legacyOk"} \in SUBSET Kinds /\ {"fail", "legacyFail"} \in SUBSET Kinds
    BY DEF Kinds
  <2>2. PICK new \in {"ok", "fail"} :
          /\ n8n' = [n8n EXCEPT ![e] = new]
          /\ mail' = mail \cup ((IF new = "ok" THEN {"ok", "legacyOk"} ELSE {"fail", "legacyFail"}) \X {e})
    BY <1>3 DEF N8nFinishes
  <2>3. n8n[e] = "running" /\ UNCHANGED <<row, call, handling, deliveries, faults, heard, lost>>
    BY <1>3 DEF N8nFinishes
  <2> QED BY <2>1, <2>2, <2>3 DEF N8nMoves
<1> QED BY <1>1, <1>2, <1>3

\* What the history keeps of a callback.
LEMMA NotedHeard ==
  ASSUME TypeOK, NEW e \in Executions, NEW kind \in Kinds, Noted(kind, e)
  PROVE  /\ heard' \in [Executions -> {"nothing", "end", "late"}]
         /\ heard'[e] = "end" => kind \notin {"start", "progress"}
         /\ \A d \in Executions \ {e} : heard'[d] = heard[d]
  BY DEF TypeOK, Noted, Kinds

LEMMA WebhookSteps ==
  ASSUME LifecycleAssumption, TypeInv, HandlingIsMail, Webhook
  PROVE  Hears \/ HearsNothing
<1>0. TypeOK /\ deliveries + 1 \in Nat
  BY DEF TypeInv, TypeOK
<1>1. ASSUME NEW m \in mail, Callback(m) PROVE Hears
  <2>1. m[2] \in Executions /\ m[1] \in Kinds
    BY <1>0, Mail
  <2>2. PICK status \in {"RUNNING", "SUCCESS", "FAILED"}, error \in BOOLEAN :
          /\ Write(m[2], status, error) /\ (status = "SUCCESS" => m[1] = "ok")
          /\ status = "RUNNING" => m[1] \in {"start", "progress"}
    BY <1>1 DEF Callback, CallbackWrite, PayloadStatus
  <2>3. Wrote(m[2], status) /\ Exists(m[2])
    BY <1>0, <2>1, <2>2, WriteWrites DEF Active, Finished
  <2>4. deliveries' \in Nat /\ handling' = handling /\ UNCHANGED <<call, n8n, mail, faults, lost>> /\ Noted(m[1], m[2])
    BY <1>0, <1>1 DEF Callback
  <2>5. /\ heard' \in [Executions -> {"nothing", "end", "late"}]
        /\ heard'[m[2]] = "end" => status # "RUNNING"
        /\ \A d \in Executions \ {m[2]} : heard'[d] = heard[d]
    BY <1>0, <2>1, <2>2, <2>4, NotedHeard
  <2> QED BY <2>1, <2>2, <2>3, <2>4, <2>5 DEF Hears
<1>2. ASSUME NEW m \in mail, LegacyWrite(m) PROVE Hears
  <2>1. m[2] \in Executions /\ m[1] \in Kinds
    BY <1>0, Mail
  <2>2. PICK status \in {"SUCCESS", "FAILED"}, error \in BOOLEAN :
          Write(m[2], status, error) /\ (status = "SUCCESS" => m[1] = "legacyOk")
    BY <1>2 DEF LegacyWrite
  <2>3. Wrote(m[2], status) /\ Exists(m[2])
    BY <1>0, <2>1, <2>2, WriteWrites DEF Active, Finished
  <2>4. /\ deliveries' \in Nat /\ handling' \subseteq handling /\ UNCHANGED <<call, n8n, mail, faults, lost>>
        /\ Noted(m[1], m[2])
    BY <1>0, <1>2 DEF LegacyWrite, TypeOK
  <2>5. /\ heard' \in [Executions -> {"nothing", "end", "late"}]
        /\ \A d \in Executions \ {m[2]} : heard'[d] = heard[d]
    BY <1>0, <2>1, <2>4, NotedHeard
  <2> QED BY <2>1, <2>2, <2>3, <2>4, <2>5 DEF Hears
<1>3. ASSUME NEW m \in mail, LegacyRead(m) PROVE HearsNothing
  <2>1. m \in {"legacyOk", "legacyFail"} \X Executions
    BY <1>0, <1>3, Mail DEF LegacyRead
  <2> QED BY <1>0, <1>3, <2>1 DEF LegacyRead, HearsNothing, HandlingIsMail, TypeOK
<1>4. ASSUME NEW m \in mail, LegacyRefused(m) PROVE HearsNothing
  <2>1. faults' \in Nat
    BY <1>0, <1>4, Mail, RefusedCounts DEF LegacyRefused
  <2> QED BY <1>0, <1>4, <2>1 DEF LegacyRefused, HearsNothing, HandlingIsMail, TypeOK
<1> QED BY <1>1, <1>2, <1>3, <1>4 DEF Webhook

LEMMA NextSteps ==
  ASSUME LifecycleAssumption, TypeInv, HandlingIsMail, Next
  PROVE  Creates \/ Starts \/ TakesUp \/ GoesOn \/ Ends \/ N8nMoves \/ Hears \/ HearsNothing \/ Crashes
<1>1. Crash => Crashes
  <2> SUFFICES ASSUME Crash PROVE Crashes
    OBVIOUS
  <2> DEFINE dropped == {call[c].ex : c \in {d \in Callers : call[d].pc \in {"starting", "calling", "failing"}}}
  <2>1. /\ dropped \subseteq Executions
        /\ \A c \in Callers : call[c].pc \in {"starting", "calling", "failing"} => call[c].ex \in dropped
    BY DEF TypeInv, Busy
  <2>2. /\ lost' = lost \cup dropped /\ lost \subseteq Executions
        /\ faults' \in Nat /\ call' = [c \in Callers |-> Idle] /\ handling' = {}
        /\ UNCHANGED <<row, n8n, mail, deliveries, heard>>
    BY DEF Crash, TypeInv, TypeOK
  <2> HIDE DEF dropped
  <2> QED BY <2>1, <2>2 DEF Crashes
<1> QED BY <1>1, RequestSteps, CallSteps, N8nSteps, WebhookSteps DEF Next

-----------------------------------------------------------------------------
(***************************************************************************)
(* The invariant.                                                          *)
(***************************************************************************)

LEMMA InitInv == ASSUME LifecycleAssumption, Init PROVE IInv
<1>1. NoRow \in Rows /\ NoRow.status = "none"
  BY DEF NoRow, Rows
<1>2. Idle \in [pc : Steps, ex : Executions \cup {NoExecution}] /\ Idle.pc = "idle"
  BY DEF Idle, Steps
<1>3. TypeInv
  BY <1>1, <1>2 DEF Init, TypeInv, TypeOK, Busy
<1>4. N8nInv
  BY <1>2 DEF Init, N8nInv, HandlingIsMail, MailIsTrue, StarterIsFirst, HeardWereRun, At
<1>5. RowInv
  BY <1>1 DEF Init, RowInv, FinishedHasTime, SuccessIsReported, EndedAreOver, ActiveHasOwner, Finished
<1> QED BY <1>3, <1>4, <1>5 DEF IInv

LEMMA NextTypeInv == ASSUME LifecycleAssumption, TypeInv, HandlingIsMail, [Next]_vars PROVE TypeInv'
<1> USE DEF TypeInv, TypeOK, Busy
<1>1. CASE Creates
  BY <1>1 DEF Creates, Wrote, Moved
<1>2. CASE Starts
  <2>1. n8n' \in [Executions -> Runs]
    BY <1>2 DEF Starts, Runs
  <2> QED BY <1>2, <2>1 DEF Starts, Wrote, Moved, Runs
<1>3. CASE TakesUp
  BY <1>3 DEF TakesUp, Moved
<1>4. CASE GoesOn
  BY <1>4 DEF GoesOn, Moved
<1>5. CASE Ends
  BY <1>5 DEF Ends, Wrote, Moved
<1>6. CASE N8nMoves
  <2>1. n8n' \in [Executions -> Runs] /\ mail' \subseteq Kinds \X Executions
    BY <1>6 DEF N8nMoves, Runs
  <2> QED BY <1>6, <2>1 DEF N8nMoves, Runs
<1>7. CASE Hears
  BY <1>7 DEF Hears, Wrote
<1>8. CASE HearsNothing
  BY <1>8 DEF HearsNothing
<1>9. CASE Crashes
  <2>1. Idle \in [pc : Steps, ex : Executions \cup {NoExecution}] /\ Idle.pc = "idle"
    BY DEF Idle, Steps
  <2> QED BY <1>9, <2>1 DEF Crashes
<1>10. CASE UNCHANGED vars
  BY <1>10 DEF vars
<1> QED BY <1>1, <1>2, <1>3, <1>4, <1>5, <1>6, <1>7, <1>8, <1>9, <1>10, NextSteps

\* Steps that leave n8n alone, and send no caller to start what it has not created.
LEMMA QuietN8nInv ==
  ASSUME N8nInv, UNCHANGED <<n8n, mail>>, handling' \subseteq mail,
         \A e \in Executions : heard'[e] = heard[e] \/ n8n[e] \in Heard,
         \A c \in Callers : call'[c].pc = "starting" => call'[c] = call[c]
  PROVE  N8nInv'
<1>1. HandlingIsMail' /\ MailIsTrue'
  BY DEF N8nInv, HandlingIsMail, MailIsTrue
<1>2. StarterIsFirst'
  BY DEF N8nInv, StarterIsFirst, At
<1>3. HeardWereRun'
  BY DEF N8nInv, HeardWereRun
<1> QED BY <1>1, <1>2, <1>3 DEF N8nInv

LEMMA NextN8nInv == ASSUME LifecycleAssumption, TypeInv, N8nInv, [Next]_vars PROVE N8nInv'
<1>0. HandlingIsMail /\ handling \subseteq mail
  BY DEF N8nInv, HandlingIsMail
<1>1. CASE Creates
  <2>1. PICK c \in Callers, e \in Executions : Fresh(e) /\ Moved(c, "starting", e) /\ UNCHANGED <<n8n, mail, handling, heard>>
    BY <1>1 DEF Creates
  <2>2. n8n[e] = "off" /\ \A d \in Callers : call[d].ex # e
    BY <2>1 DEF Fresh
  <2>3. HandlingIsMail' /\ MailIsTrue' /\ HeardWereRun'
    BY <2>1 DEF N8nInv, HandlingIsMail, MailIsTrue, HeardWereRun
  <2>4. StarterIsFirst'
    BY <2>1, <2>2 DEF N8nInv, StarterIsFirst, At, Moved
  <2> QED BY <2>3, <2>4 DEF N8nInv
<1>2. CASE Starts
  <2>1. PICK c \in Callers, e \in Executions :
          /\ At(c, "starting") /\ call[c].ex = e /\ Moved(c, "calling", e)
          /\ n8n' = [n8n EXCEPT ![e] = "asked"] /\ UNCHANGED <<mail, handling, heard>>
    BY <1>2 DEF Starts
  <2>2. n8n[e] = "off"
    BY <2>1 DEF N8nInv, StarterIsFirst
  <2>3. \A m \in mail : m[2] \in Executions /\ m[2] # e
    BY <2>2, Mail DEF N8nInv, MailIsTrue, Heard, TypeInv
  <2>4. HandlingIsMail' /\ MailIsTrue' /\ HeardWereRun'
    BY <2>1, <2>2, <2>3 DEF N8nInv, HandlingIsMail, MailIsTrue, HeardWereRun, Heard, TypeInv, TypeOK
  <2>5. \A d \in Callers : At(d, "starting")' => At(d, "starting") /\ call'[d] = call[d] /\ call[d].ex # e
    BY <2>1 DEF N8nInv, StarterIsFirst, At, Moved
  <2>6. \A d \in Callers : At(d, "starting")' => n8n'[call'[d].ex] = "off"
    BY <2>1, <2>5 DEF N8nInv, StarterIsFirst, TypeInv, TypeOK, Busy, At
  <2>7. StarterIsFirst'
    BY <2>5, <2>6 DEF N8nInv, StarterIsFirst
  <2> QED BY <2>4, <2>7 DEF N8nInv
<1>3. CASE TakesUp
  BY <1>0, <1>3, QuietN8nInv DEF TakesUp, Moved
<1>4. CASE GoesOn
  BY <1>0, <1>4, QuietN8nInv DEF GoesOn, Moved
<1>5. CASE Ends
  BY <1>0, <1>5, QuietN8nInv DEF Ends, Moved
<1>6. CASE N8nMoves
  <2>1. PICK e \in Executions, new \in {"running", "refused", "ok", "fail"}, kinds \in SUBSET Kinds :
          /\ n8n' = [n8n EXCEPT ![e] = new] /\ mail' = mail \cup (kinds \X {e})
          /\ n8n[e] = IF new \in {"running", "refused"} THEN "asked" ELSE "running"
          /\ new = "refused" => kinds = {}
          /\ new # "ok" => kinds \cap {"ok", "legacyOk"} = {}
          /\ UNCHANGED <<call, handling, heard>>
    BY <1>6 DEF N8nMoves
  <2>2. \A m \in mail : m[2] \in Executions
    BY Mail DEF TypeInv
  <2>3. n8n'[e] = new /\ \A d \in Executions \ {e} : n8n'[d] = n8n[d]
    BY <2>1 DEF TypeInv, TypeOK
  <2>4. ASSUME NEW m \in mail PROVE n8n'[m[2]] \in Heard /\ (m[1] \in {"ok", "legacyOk"} => n8n'[m[2]] = "ok")
    <3>1. n8n[m[2]] \in Heard /\ (m[1] \in {"ok", "legacyOk"} => n8n[m[2]] = "ok") /\ m[2] \in Executions
      BY <2>2 DEF N8nInv, MailIsTrue
    <3> QED BY <2>1, <2>3, <3>1 DEF Heard
  <2>5. ASSUME NEW m \in kinds \X {e} PROVE n8n'[m[2]] \in Heard /\ (m[1] \in {"ok", "legacyOk"} => n8n'[m[2]] = "ok")
    <3>1. m[1] \in kinds /\ m[2] = e
      OBVIOUS
    <3> QED BY <2>1, <2>3, <3>1 DEF Heard
  <2>6. MailIsTrue' /\ HandlingIsMail'
    BY <1>0, <2>1, <2>4, <2>5 DEF MailIsTrue, HandlingIsMail
  <2>7. StarterIsFirst'
    BY <2>1, <2>3 DEF N8nInv, StarterIsFirst, TypeInv, Busy, At
  <2>8. HeardWereRun'
    <3>1. \A d \in Executions : n8n[d] \in Heard => n8n'[d] \in Heard
      BY <2>1, <2>3 DEF Heard
    <3> QED BY <2>1, <3>1 DEF N8nInv, HeardWereRun
  <2> QED BY <2>6, <2>7, <2>8 DEF N8nInv
<1>7. CASE Hears
  <2>1. PICK m \in mail : /\ m[2] \in Executions /\ \A d \in Executions \ {m[2]} : heard'[d] = heard[d]
                          /\ UNCHANGED <<call, n8n, mail>> /\ handling' \subseteq handling
    BY <1>7 DEF Hears
  <2>2. n8n[m[2]] \in Heard
    BY <2>1 DEF N8nInv, MailIsTrue
  <2> QED BY <1>0, <2>1, <2>2, QuietN8nInv
<1>8. CASE HearsNothing
  BY <1>0, <1>8, QuietN8nInv DEF HearsNothing
<1>9. CASE Crashes
  <2>1. Idle.pc = "idle"
    BY DEF Idle
  <2> QED BY <1>9, <2>1, QuietN8nInv DEF Crashes
<1>10. CASE UNCHANGED vars
  BY <1>0, <1>10, QuietN8nInv DEF vars
<1> QED BY <1>0, <1>1, <1>2, <1>3, <1>4, <1>5, <1>6, <1>7, <1>8, <1>9, <1>10, NextSteps

\* Finish times, and the runs behind a success.
LEMMA NextFinished ==
  ASSUME LifecycleAssumption, TypeInv, N8nInv, FinishedHasTime, SuccessIsReported, [Next]_vars
  PROVE  FinishedHasTime' /\ SuccessIsReported'
<1> USE DEF FinishedHasTime, SuccessIsReported
<1>0. HandlingIsMail
  BY DEF N8nInv
<1>1. CASE Creates
  BY <1>1 DEF Creates, Wrote, Finished
<1>2. CASE Starts
  <2>1. PICK c \in Callers, e \in Executions :
          At(c, "starting") /\ call[c].ex = e /\ Wrote(e, "RUNNING") /\ n8n' = [n8n EXCEPT ![e] = "asked"]
    BY <1>2 DEF Starts
  <2>2. row'[e].status = "RUNNING" /\ \A d \in Executions \ {e} : row'[d] = row[d] /\ n8n'[d] = n8n[d]
    BY <2>1 DEF Wrote, TypeInv, TypeOK
  <2> QED BY <2>2 DEF Finished
<1>3. CASE TakesUp
  BY <1>3 DEF TakesUp
<1>4. CASE GoesOn
  BY <1>4 DEF GoesOn
<1>5. CASE Ends
  BY <1>5 DEF Ends, Wrote, Finished
<1>6. CASE N8nMoves
  BY <1>6 DEF N8nMoves, TypeInv, TypeOK
<1>7. CASE Hears
  <2>1. PICK m \in mail, status \in {"RUNNING", "SUCCESS", "FAILED"} :
          /\ m[2] \in Executions /\ Wrote(m[2], status)
          /\ status = "SUCCESS" => m[1] \in {"ok", "legacyOk"}
          /\ UNCHANGED n8n
    BY <1>7 DEF Hears
  <2>2. status = "SUCCESS" => n8n[m[2]] = "ok"
    BY <2>1 DEF N8nInv, MailIsTrue
  <2> QED BY <2>1, <2>2 DEF Wrote, Finished
<1>8. CASE HearsNothing
  BY <1>8 DEF HearsNothing
<1>9. CASE Crashes
  BY <1>9 DEF Crashes
<1>10. CASE UNCHANGED vars
  BY <1>10 DEF vars
<1> QED BY <1>0, <1>1, <1>2, <1>3, <1>4, <1>5, <1>6, <1>7, <1>8, <1>9, <1>10, NextSteps

\* The row is not active once the end of its run is reported: only an older report would
\* make it so, which is noted, and no request starts what was run.
LEMMA NextEnded ==
  ASSUME LifecycleAssumption, TypeInv, N8nInv, EndedAreOver, [Next]_vars
  PROVE  EndedAreOver'
<1> SUFFICES ASSUME NEW e \in Executions, heard'[e] = "end" PROVE row'[e].status \notin Active
  BY DEF EndedAreOver
<1>0. HandlingIsMail
  BY DEF N8nInv
<1>a. heard[e] = "end" => row[e].status \notin Active /\ n8n[e] \in Heard
  BY DEF EndedAreOver, N8nInv, HeardWereRun
<1>1. CASE Creates
  BY <1>1, <1>a DEF Creates, Wrote, Fresh, Heard
<1>2. CASE Starts
  <2>1. PICK c \in Callers, d \in Executions :
          At(c, "starting") /\ call[c].ex = d /\ Wrote(d, "RUNNING") /\ UNCHANGED heard
    BY <1>2 DEF Starts
  <2>2. d # e
    BY <1>a, <2>1 DEF N8nInv, StarterIsFirst, Heard
  <2> QED BY <1>a, <2>1, <2>2 DEF Wrote
<1>3. CASE TakesUp
  BY <1>3, <1>a DEF TakesUp
<1>4. CASE GoesOn
  BY <1>4, <1>a DEF GoesOn
<1>5. CASE Ends
  BY <1>5, <1>a DEF Ends, Wrote, Active
<1>6. CASE N8nMoves
  BY <1>6, <1>a DEF N8nMoves
<1>7. CASE Hears
  BY <1>7, <1>a DEF Hears, Wrote, Active
<1>8. CASE HearsNothing
  BY <1>8, <1>a DEF HearsNothing
<1>9. CASE Crashes
  BY <1>9, <1>a DEF Crashes
<1>10. CASE UNCHANGED vars
  BY <1>10, <1>a DEF vars
<1> QED BY <1>0, <1>1, <1>2, <1>3, <1>4, <1>5, <1>6, <1>7, <1>8, <1>9, <1>10, NextSteps

\* Every active row has its owner.  A step either leaves an execution's row and its owner
\* alone, or hands it on.
LEMMA NextOwner ==
  ASSUME LifecycleAssumption, TypeInv, N8nInv, EndedAreOver, ActiveHasOwner, [Next]_vars
  PROVE  ActiveHasOwner'
<1> DEFINE Starting(d) == (\E c \in Callers : call[c].ex = d /\ call[c].pc = "starting") \/ d \in lost
           Running(d) ==
             \/ n8n[d] \in Heard \/ d \in lost
             \/ \E c \in Callers : call[c].ex = d /\ call[c].pc \in {"calling", "failing"}
           Owned(d) == (row[d].status = "PENDING" => Starting(d)) /\ (row[d].status = "RUNNING" => Running(d))
<1>0. HandlingIsMail
  BY DEF N8nInv
<1>a. \A d \in Executions : Owned(d)
  BY DEF ActiveHasOwner, InHand, Heard
<1> SUFFICES ASSUME NEW e \in Executions PROVE Owned(e)'
  <2>1. EndedAreOver'
    BY NextEnded
  <2>2. ASSUME \A e \in Executions : Owned(e)' PROVE ActiveHasOwner'
    BY <2>1, <2>2 DEF ActiveHasOwner, InHand, Heard, EndedAreOver, Active
  <2> QED BY <2>2
<1>1. CASE Creates
  <2>1. PICK c \in Callers, d \in Executions :
          /\ call[c].pc \in {"idle", "retrying"} /\ Wrote(d, "PENDING") /\ Moved(c, "starting", d)
          /\ lost' = lost \ {d} /\ UNCHANGED n8n
    BY <1>1 DEF Creates
  <2>2. CASE e = d
    BY <2>1, <2>2 DEF Wrote, Moved
  <2>3. CASE e # d
    BY <1>a, <2>1, <2>3 DEF Wrote, Moved
  <2> QED BY <2>2, <2>3
<1>2. CASE Starts
  <2>1. PICK c \in Callers, d \in Executions :
          /\ At(c, "starting") /\ call[c].ex = d /\ Wrote(d, "RUNNING") /\ Moved(c, "calling", d)
          /\ n8n' = [n8n EXCEPT ![d] = "asked"] /\ UNCHANGED lost
    BY <1>2 DEF Starts
  <2>2. CASE e = d
    BY <2>1, <2>2 DEF Wrote, Moved
  <2>3. CASE e # d
    <3>1. row'[e] = row[e] /\ n8n'[e] = n8n[e] /\ \A b \in Callers : call[b].ex = e => call'[b] = call[b]
      BY <2>1, <2>3 DEF Wrote, Moved, TypeInv, TypeOK
    <3> QED BY <1>a, <2>1, <3>1
  <2> QED BY <2>2, <2>3
<1>3. CASE TakesUp
  BY <1>3, <1>a DEF TakesUp, Moved, At
<1>4. CASE GoesOn
  <2>1. PICK c \in Callers, d \in Executions, pc \in {"idle", "linking", "failing"}, x \in Executions \cup {NoExecution} :
          /\ call[c].ex = d /\ Moved(c, pc, x)
          /\ pc # "idle" => x = d
          /\ pc = "failing" => call[c].pc \in {"calling", "linking"}
          /\ pc # "failing" /\ call[c].pc \in {"starting", "calling", "failing"} =>
               d \in lost' \/ (At(c, "calling") /\ n8n[d] \in Heard)
          /\ row'[e].status = row[e].status
          /\ lost \subseteq lost' /\ UNCHANGED n8n
    BY <1>4 DEF GoesOn
  <2>2. \A b \in Callers \ {c} : call'[b] = call[b]
    BY <2>1 DEF Moved
  <2>3. CASE e # d
    BY <1>a, <2>1, <2>2, <2>3
  <2>4. CASE e = d /\ pc = "failing"
    <3>1. call'[c].ex = e /\ call'[c].pc = "failing"
      BY <2>1, <2>4 DEF Moved
    <3> QED BY <1>a, <2>1, <2>2, <2>4, <3>1
  <2>5. CASE e = d /\ pc # "failing"
    <3>1. CASE e \in lost'
      BY <3>1
    <3>2. CASE At(c, "calling") /\ n8n[e] \in Heard
      BY <1>a, <2>1, <2>2, <3>2 DEF At
    <3>3. CASE call[c].pc \notin {"starting", "calling", "failing"}
      BY <1>a, <2>1, <2>2, <3>3
    <3> QED BY <2>1, <2>5, <3>1, <3>2, <3>3
  <2> QED BY <2>3, <2>4, <2>5
<1>5. CASE Ends
  <2>1. PICK c \in Callers, d \in Executions, status \in {"FAILED", "CANCELLED", "none"} :
          /\ call[c].ex = d /\ Moved(c, "idle", NoExecution) /\ Wrote(d, status)
          /\ UNCHANGED <<n8n, lost>>
    BY <1>5 DEF Ends
  <2>2. CASE e = d
    BY <2>1, <2>2 DEF Wrote
  <2>3. CASE e # d
    <3>1. row'[e] = row[e] /\ \A b \in Callers : call[b].ex = e => call'[b] = call[b]
      BY <2>1, <2>3 DEF Wrote, Moved
    <3> QED BY <1>a, <2>1, <3>1
  <2> QED BY <2>2, <2>3
<1>6. CASE N8nMoves
  <2>1. UNCHANGED <<row, call, lost>> /\ (n8n[e] \in Heard => n8n'[e] \in Heard)
    BY <1>6 DEF N8nMoves, Heard, TypeInv, TypeOK
  <2> QED BY <1>a, <2>1
<1>7. CASE Hears
  <2>1. PICK m \in mail, status \in {"RUNNING", "SUCCESS", "FAILED"} :
          /\ m[2] \in Executions /\ Wrote(m[2], status) /\ UNCHANGED <<call, n8n, lost>>
    BY <1>7 DEF Hears
  <2>2. CASE e = m[2]
    <3>1. n8n'[e] \in Heard /\ row'[e].status # "PENDING"
      BY <2>1, <2>2 DEF N8nInv, MailIsTrue, Wrote
    <3> QED BY <3>1
  <2>3. CASE e # m[2]
    <3>1. row'[e] = row[e]
      BY <2>1, <2>3 DEF Wrote
    <3> QED BY <1>a, <2>1, <3>1
  <2> QED BY <2>2, <2>3
<1>8. CASE HearsNothing
  BY <1>8, <1>a DEF HearsNothing
<1>9. CASE Crashes
  <2>1. /\ UNCHANGED <<row, n8n>> /\ lost \subseteq lost'
        /\ \A c \in Callers : call[c].pc \in {"starting", "calling", "failing"} => call[c].ex \in lost'
    BY <1>9 DEF Crashes
  <2> QED BY <1>a, <2>1
<1>10. CASE UNCHANGED vars
  BY <1>10, <1>a DEF vars
<1> QED BY <1>0, <1>1, <1>2, <1>3, <1>4, <1>5, <1>6, <1>7, <1>8, <1>9, <1>10, NextSteps

\* No step brings an execution back that n8n never ran and no request is about to write.
LEMMA NextSettled ==
  ASSUME LifecycleAssumption, TypeInv, N8nInv, [Next]_vars, NEW e \in Executions, Settled(e)
  PROVE  row'[e].status = "none" \/ (row'[e].status = row[e].status /\ Settled(e)')
<1> DEFINE Writing == {"starting", "calling", "linking", "failing", "cancelling"}
<1>0. HandlingIsMail
  BY DEF N8nInv
<1>a. /\ row[e].status \in Finished /\ n8n[e] \in {"off", "refused"}
      /\ \A c \in Callers : call[c].ex = e => call[c].pc \notin Writing
  BY DEF Settled, InHand
<1>b. SUFFICES
        \/ row'[e].status = "none"
        \/ /\ row'[e].status = row[e].status /\ n8n'[e] \in {"off", "refused"}
           /\ \A c \in Callers : call'[c].ex = e => call'[c].pc \notin Writing
  BY <1>a DEF Settled, InHand
<1>1. CASE Creates
  <2>1. PICK c \in Callers, d \in Executions :
          Fresh(d) /\ Wrote(d, "PENDING") /\ Moved(c, "starting", d) /\ UNCHANGED n8n
    BY <1>1 DEF Creates
  <2>2. d # e
    BY <1>a, <2>1 DEF Fresh, Exists, Finished
  <2> QED BY <1>a, <2>1, <2>2 DEF Wrote, Moved
<1>2. CASE Starts
  <2>1. PICK c \in Callers, d \in Executions :
          /\ call[c].pc = "starting" /\ call[c].ex = d /\ Wrote(d, "RUNNING") /\ Moved(c, "calling", d)
          /\ n8n' = [n8n EXCEPT ![d] = "asked"]
    BY <1>2 DEF Starts, At
  <2>2. d # e
    BY <1>a, <2>1
  <2>3. row'[e] = row[e] /\ n8n'[e] = n8n[e]
    BY <2>1, <2>2 DEF Wrote, TypeInv, TypeOK
  <2> QED BY <1>a, <2>1, <2>2, <2>3 DEF Moved
<1>3. CASE TakesUp
  <2>1. PICK c \in Callers, d \in Executions, pc \in {"retrying", "cancelling", "removing"} :
          /\ Moved(c, pc, d) /\ (pc = "cancelling" => row[d].status \in Active) /\ UNCHANGED <<row, n8n>>
    BY <1>3 DEF TakesUp
  <2>2. pc = "cancelling" => d # e
    BY <1>a, <2>1 DEF Active, Finished
  <2> QED BY <1>a, <2>1, <2>2 DEF Moved
<1>4. CASE GoesOn
  <2>1. PICK c \in Callers, d \in Executions, pc \in {"idle", "linking", "failing"}, x \in Executions \cup {NoExecution} :
          /\ call[c].ex = d /\ Moved(c, pc, x)
          /\ pc # "idle" => x = d
          /\ pc = "failing" => call[c].pc \in {"calling", "linking"}
          /\ pc = "linking" => call[c].pc = "calling"
          /\ row'[e].status = row[e].status
          /\ UNCHANGED n8n
    BY <1>4 DEF GoesOn, At
  <2>2. call'[c].ex = e => call'[c].pc \notin Writing
    BY <1>a, <2>1 DEF Moved
  <2> QED BY <1>a, <2>1, <2>2 DEF Moved
<1>5. CASE Ends
  <2>1. PICK c \in Callers, d \in Executions, status \in {"FAILED", "CANCELLED", "none"} :
          /\ call[c].ex = d /\ Moved(c, "idle", NoExecution) /\ Wrote(d, status)
          /\ status # "none" => call[c].pc \in {"failing", "cancelling"}
          /\ UNCHANGED n8n
    BY <1>5 DEF Ends, At
  <2>2. CASE e = d
    <3>1. row'[e].status = "none"
      BY <1>a, <2>1, <2>2 DEF Wrote
    <3> QED BY <3>1
  <2>3. CASE e # d
    BY <1>a, <2>1, <2>3 DEF Wrote, Moved
  <2> QED BY <2>2, <2>3
<1>6. CASE N8nMoves
  <2>1. UNCHANGED <<row, call>> /\ n8n'[e] = n8n[e]
    BY <1>6, <1>a DEF N8nMoves, TypeInv, TypeOK
  <2> QED BY <1>a, <2>1
<1>7. CASE Hears
  <2>1. PICK m \in mail, status \in {"RUNNING", "SUCCESS", "FAILED"} :
          /\ m[2] \in Executions /\ Wrote(m[2], status) /\ UNCHANGED <<call, n8n>>
    BY <1>7 DEF Hears
  <2>2. e # m[2]
    BY <1>a DEF N8nInv, MailIsTrue, Heard
  <2> QED BY <1>a, <2>1, <2>2 DEF Wrote
<1>8. CASE HearsNothing
  BY <1>8, <1>a DEF HearsNothing
<1>9. CASE Crashes
  <2>1. Idle.pc = "idle"
    BY DEF Idle
  <2> QED BY <1>9, <1>a, <2>1 DEF Crashes
<1>10. CASE UNCHANGED vars
  BY <1>10, <1>a DEF vars
<1> QED BY <1>0, <1>1, <1>2, <1>3, <1>4, <1>5, <1>6, <1>7, <1>8, <1>9, <1>10, NextSteps

-----------------------------------------------------------------------------
(***************************************************************************)
(* The theorems.                                                           *)
(***************************************************************************)

\* The conjunction below is inductive.
THEOREM Inductive == Spec => []IInv
<1> USE LifecycleAssumption
<1>1. Init => IInv
  BY InitInv
<1>2. IInv /\ [Next]_vars => IInv'
  <2> SUFFICES ASSUME IInv, [Next]_vars PROVE IInv'
    OBVIOUS
  <2>1. TypeInv' /\ N8nInv'
    BY NextTypeInv, NextN8nInv DEF IInv, N8nInv
  <2>2. RowInv'
    BY NextFinished, NextEnded, NextOwner DEF IInv, RowInv
  <2> QED BY <2>1, <2>2 DEF IInv
<1> QED BY <1>1, <1>2, PTL DEF Spec

\* Rows, requests, runs and callbacks keep their types.
THEOREM TypeCorrect == Spec => []TypeOK
<1>1. IInv => TypeOK
  BY DEF IInv, TypeInv
<1> QED BY <1>1, Inductive, PTL

\* A finished execution has a finish time, whichever of the writers ended it and however
\* late or often the others come.
THEOREM FinishedAreTimed == Spec => []FinishedHasTime
<1>1. IInv => FinishedHasTime
  BY DEF IInv, RowInv
<1> QED BY <1>1, Inductive, PTL

\* An execution is SUCCESS only if n8n has completed it: no other request's timeout, retry
\* or cancellation, no callback of another run or of another kind makes it so.
THEOREM SuccessesAreReal == Spec => []SuccessIsReported
<1>1. IInv => SuccessIsReported
  BY DEF IInv, RowInv
<1> QED BY <1>1, Inductive, PTL

\* Every active row is in n8n or in the hands of a request that will start or fail it,
\* unless that request was lost; and no row is active after the end of its run was reported,
\* unless an older report came after it.
THEOREM ActiveRowsAreOwned == Spec => []ActiveHasOwner
<1>1. IInv => ActiveHasOwner
  BY DEF IInv, RowInv
<1> QED BY <1>1, Inductive, PTL

\* An execution that ended without n8n keeps its final status until it is deleted.
THEOREM SettledRowsStay == Spec => SettledStays
<1> USE LifecycleAssumption
<1>1. IInv /\ [Next]_vars =>
        [\A e \in Executions : Settled(e) =>
           row'[e].status = "none" \/ (row'[e].status = row[e].status /\ Settled(e)')]_vars
  BY NextSettled DEF IInv
<1> QED BY <1>1, Inductive, PTL DEF Spec, SettledStays

-----------------------------------------------------------------------------
(***************************************************************************)
(* The table as the reads find it, the same for every part of MCExecutions.*)
(***************************************************************************)

\* Every instance has its own copy of the library's Cardinality.
LEMMA SameCardinality ==
  \A S : /\ Reads!Cardinality(S) = Cardinality(S) /\ Walks!Cardinality(S) = Cardinality(S)
         /\ Counts!Cardinality(S) = Cardinality(S)
BY DEF Reads!Cardinality, Walks!Cardinality, Counts!Cardinality, Cardinality

ReadRows == [id : Nat, workflowId : {f1, f2}, status : {"RUNNING", "SUCCESS", "FAILED"}]

\* Executions of which no two have the same id.
Table(S) == S \subseteq ReadRows /\ IsFiniteSet(S) /\ \A d, e \in S : d.id = e.id => d = e

TableInv == Table(rows) /\ next \in Nat /\ \A e \in rows : e.id < next

\* What a trigger, an end and a delete make of the table.
RowComes == \E f \in {f1, f2} : rows' = rows \cup {[id |-> next, workflowId |-> f, status |-> "RUNNING"]} /\ next' = next + 1
RowEnds == \E e \in rows, s \in {"SUCCESS", "FAILED"} : rows' = (rows \ {e}) \cup {[e EXCEPT !.status = s]} /\ next' = next
RowGoes == \E e \in rows : rows' = rows \ {e} /\ next' = next

\* Ids stay unique however executions come, end and go.
LEMMA TableChanges ==
  ASSUME TableInv, RowComes \/ RowEnds \/ RowGoes
  PROVE  /\ TableInv' /\ Cardinality(rows) \in Nat
         /\ RowComes => Cardinality(rows') <= Cardinality(rows) + 1
         /\ RowEnds \/ RowGoes => Cardinality(rows') <= Cardinality(rows)
<1>1. IsFiniteSet(rows) /\ Cardinality(rows) \in Nat
  BY FS_CardinalityType DEF TableInv, Table
<1>2. CASE RowComes
  <2>1. PICK f \in {f1, f2} : rows' = rows \cup {[id |-> next, workflowId |-> f, status |-> "RUNNING"]} /\ next' = next + 1
    BY <1>2 DEF RowComes
  <2> DEFINE r == [id |-> next, workflowId |-> f, status |-> "RUNNING"]
  <2>2. r \in ReadRows /\ r.id = next
    BY DEF TableInv, ReadRows
  <2>3. \A e \in rows : e.id \in Nat /\ e.id < next
    BY DEF TableInv, Table, ReadRows
  <2> HIDE DEF r
  <2>4. rows' = rows \cup {r}
    BY <2>1 DEF r
  <2>5. IsFiniteSet(rows') /\ Cardinality(rows') <= Cardinality(rows) + 1
    BY <1>1, <2>4, FS_AddElement
  <2>6. rows' \subseteq ReadRows /\ \A e \in rows' : e.id < next'
    BY <2>1, <2>2, <2>3, <2>4 DEF TableInv, Table
  <2>7. \A d, e \in rows' : d.id = e.id => d = e
    BY <2>2, <2>3, <2>4 DEF TableInv, Table
  <2>8. ~RowEnds /\ ~RowGoes
    BY <2>1 DEF RowEnds, RowGoes, TableInv
  <2> QED BY <1>1, <2>1, <2>5, <2>6, <2>7, <2>8 DEF TableInv, Table
<1>3. ASSUME RowEnds PROVE TableInv' /\ Cardinality(rows') <= Cardinality(rows)
  <2>1. PICK e \in rows, s \in {"SUCCESS", "FAILED"} : rows' = (rows \ {e}) \cup {[e EXCEPT !.status = s]} /\ next' = next
    BY <1>3 DEF RowEnds
  <2> DEFINE r == [e EXCEPT !.status = s]
  <2>2. r \in ReadRows /\ r.id = e.id
    BY DEF TableInv, Table, ReadRows
  <2> HIDE DEF r
  <2>3. rows' = (rows \ {e}) \cup {r}
    BY <2>1 DEF r
  <2>4. IsFiniteSet(rows \ {e}) /\ Cardinality(rows \ {e}) = Cardinality(rows) - 1
    BY <1>1, FS_RemoveElement
  <2>5. IsFiniteSet(rows') /\ Cardinality(rows') <= Cardinality(rows)
    BY <1>1, <2>3, <2>4, FS_AddElement
  <2>6. rows' \subseteq ReadRows /\ \A d \in rows' : d.id < next'
    BY <2>1, <2>2, <2>3 DEF TableInv, Table
  <2>7. \A c, d \in rows' : c.id = d.id => c = d
    BY <2>2, <2>3 DEF TableInv, Table
  <2> QED BY <2>1, <2>5, <2>6, <2>7 DEF TableInv, Table
<1>4. ASSUME RowGoes PROVE TableInv' /\ Cardinality(rows') <= Cardinality(rows)
  <2>1. PICK e \in rows : rows' = rows \ {e} /\ next' = next
    BY <1>4 DEF RowGoes
  <2>2. IsFiniteSet(rows') /\ Cardinality(rows') <= Cardinality(rows)
    BY <1>1, <2>1, FS_RemoveElement
  <2> QED BY <2>1, <2>2 DEF TableInv, Table
<1> QED BY <1>1, <1>2, <1>3, <1>4

\* The tables that a read may find at first.
LEMMA TableStarts ==
  ASSUME NEW n \in Nat, NEW f \in [1..n -> {f1, f2}], NEW s \in [1..n -> {"RUNNING", "SUCCESS", "FAILED"}],
         rows = {[id |-> i, workflowId |-> f[i], status |-> s[i]] : i \in 1..n}, next = n + 1
  PROVE  TableInv /\ Cardinality(rows) <= n
<1> DEFINE g == [i \in 1..n |-> [id |-> i, workflowId |-> f[i], status |-> s[i]]]
<1>1. g \in Surjection(1..n, rows)
  <2>1. g \in [1..n -> rows]
    OBVIOUS
  <2>2. \A e \in rows : \E i \in 1..n : g[i] = e
    OBVIOUS
  <2> HIDE DEF g
  <2> QED BY <2>1, <2>2 DEF Surjection
<1>2. IsFiniteSet(1..n) /\ Cardinality(1..n) = n
  BY FS_Interval
<1>3. IsFiniteSet(rows) /\ Cardinality(rows) <= n
  <2> HIDE DEF g
  <2> QED BY <1>1, <1>2, FS_Surjection
<1>4. \A e \in rows : e \in ReadRows /\ e.id < next
  BY DEF ReadRows
<1>5. \A d, e \in rows : d.id = e.id => d = e
  OBVIOUS
<1> QED BY <1>3, <1>4, <1>5 DEF TableInv, Table

-----------------------------------------------------------------------------
(***************************************************************************)
(* The types of the reads (ExecutionListing, here Reads).                  *)
(***************************************************************************)

\* The table, and the fields that the read and the walk have.
ReadsInv ==
  /\ TableInv
  /\ {"kind", "limit", "sent"} \subseteq DOMAIN req /\ {"calm", "shrank"} \subseteq DOMAIN walk
  /\ Reads!TypeOK

\* A page size is between 1 and the most that a page may hold.
LEMMA ClampIsPage == ASSUME NEW l \in Limits PROVE Reads!Clamp(l) \in 1 .. MaxTake
<1>1. l \in Nat /\ MaxTake \in Nat \ {0}
  BY ReadAssumptions DEF Reads!ListingAssumption
<1>2. \A a, b \in Nat : Reads!Max({a, b}) \in {a, b} /\ Reads!Max({a, b}) >= a
  <2> TAKE a, b \in Nat
  <2>1. \E x \in {a, b} : \A y \in {a, b} : x >= y
    OBVIOUS
  <2> QED BY <2>1 DEF Reads!Max
<1>3. \A a, b \in Nat : Reads!Min({a, b}) \in {a, b} /\ Reads!Min({a, b}) <= a
  <2> TAKE a, b \in Nat
  <2>1. \E x \in {a, b} : \A y \in {a, b} : x <= y
    OBVIOUS
  <2> QED BY <2>1 DEF Reads!Min
<1>4. Reads!Max({1, l}) \in Nat /\ Reads!Max({1, l}) >= 1
  BY <1>1, <1>2
<1>5. Reads!Min({MaxTake, Reads!Max({1, l})}) \in {MaxTake, Reads!Max({1, l})}
      /\ Reads!Min({MaxTake, Reads!Max({1, l})}) <= MaxTake
  BY <1>1, <1>3, <1>4
<1> QED BY <1>1, <1>4, <1>5 DEF Reads!Clamp

\* The table changes by an execution that comes, ends or goes, which the walk is told of.
LEMMA ChangeTypes ==
  ASSUME ReadsInv,
         \/ \E f \in {f1, f2} : Reads!Trigger(f)
         \/ \E e \in rows : Reads!Delete(e) \/ \E s \in {"SUCCESS", "FAILED"} : Reads!Finish(e, s)
  PROVE  ReadsInv'
<1>1. changes \in 0..MaxChanges /\ MaxChanges \in Nat /\ MaxRows \in Nat /\ Cardinality(rows) <= MaxRows
  BY ReadAssumptions, SameCardinality DEF ReadsInv, Reads!TypeOK, Reads!ListingAssumption
<1>2. changes' \in 0..MaxChanges /\ req' = req
  BY <1>1 DEF Reads!Trigger, Reads!Delete, Reads!Finish, Reads!Change
<1>3. {"calm", "shrank"} \subseteq DOMAIN walk' /\ (walk'.calm => ~walk'.shrank)
  <2>1. PICK b : walk' = [walk EXCEPT !.calm = FALSE, !.shrank = b]
    BY DEF Reads!Trigger, Reads!Delete, Reads!Finish, Reads!Watch
  <2> QED BY <2>1 DEF ReadsInv
<1>4. (RowComes /\ Cardinality(rows) < MaxRows) \/ RowEnds \/ RowGoes
  BY SameCardinality DEF Reads!Trigger, Reads!Delete, Reads!Finish, RowComes, RowEnds, RowGoes
<1>5. TableInv' /\ Cardinality(rows') <= MaxRows
  <2>1. TableInv
    BY DEF ReadsInv
  <2>2. TableInv' /\ Cardinality(rows') \in Nat
    BY <1>4, <2>1, TableChanges, FS_CardinalityType DEF TableInv, Table
  <2> QED BY <1>1, <1>4, <2>1, <2>2, TableChanges
<1> QED BY <1>2, <1>3, <1>5, SameCardinality DEF ReadsInv, TableInv, Table, ReadRows, Reads!TypeOK, Reads!Statuses

\* A read that goes on changes of the table nothing, and keeps what was asked.
LEMMA GoesOnTypes ==
  ASSUME ReadsInv, UNCHANGED <<rows, next, changes>>,
         /\ {"kind", "limit", "sent"} \subseteq DOMAIN req' /\ req'.kind = req.kind /\ req'.limit = req.limit
         /\ req'.sent \in {"asked", "sampled", "answered", "refused", "failed"},
         {"calm", "shrank"} \subseteq DOMAIN walk' /\ walk'.calm = walk.calm /\ walk'.shrank = walk.shrank
  PROVE  ReadsInv'
BY DEF ReadsInv, TableInv, Reads!TypeOK

\* What is asked for has a page size that the repository answers.
LEMMA AskTypes ==
  ASSUME ReadsInv, NEW u \in {u1, u2}, Reads!Ask(u)
  PROVE  ReadsInv'
<1>1. ASSUME NEW r, Reads!Start(r), {"kind", "limit", "sent"} \subseteq DOMAIN r, r.sent \in {"asked", "refused"},
             r.kind \in {"list", "workflow"} => r.limit \in 1 .. MaxTake
      PROVE  ReadsInv'
  <2>1. /\ req' = r /\ UNCHANGED <<rows, next, changes>>
        /\ walk' = [seen |-> <<>>, began |-> Reads!Matching(r.where), calm |-> TRUE, shrank |-> FALSE,
                    sampled |-> FALSE, over |-> FALSE]
    BY <1>1 DEF Reads!Start
  <2> QED BY <1>1, <2>1 DEF ReadsInv, TableInv, Reads!TypeOK
<1>2. ASSUME NEW kind, NEW where, NEW sort, NEW l, kind \in {"list", "workflow"} => l \in 1 .. MaxTake
      PROVE  /\ Reads!Start(Reads!Request(kind, u, where, sort, 1, l)) => ReadsInv'
             /\ \A f : Reads!Guarded(f, u, Reads!Request(kind, u, where, sort, 1, l)) => ReadsInv'
  <2> DEFINE r == Reads!Request(kind, u, where, sort, 1, l)
  <2>1. {"kind", "limit", "sent"} \subseteq DOMAIN r /\ r.sent = "asked" /\ r.kind = kind /\ r.limit = l
    BY DEF Reads!Request
  <2> HIDE DEF r
  <2>2. LET s == [r EXCEPT !.sent = "refused"]
        IN {"kind", "limit", "sent"} \subseteq DOMAIN s /\ s.sent = "refused" /\ s.kind = kind /\ s.limit = l
    BY <2>1
  <2>3. Reads!Start(r) => ReadsInv'
    BY <1>1, <1>2, <2>1
  <2>4. Reads!Start([r EXCEPT !.sent = "refused"]) => ReadsInv'
    BY <1>1, <1>2, <2>2
  <2>5. ASSUME NEW f, Reads!Guarded(f, u, r) PROVE Reads!Start(r) \/ Reads!Start([r EXCEPT !.sent = "refused"])
    BY <2>5 DEF Reads!Guarded
  <2> QED BY <2>3, <2>4, <2>5 DEF r
<1>3. CASE \E filter, sort : \E l \in Limits : Reads!GetExecutions(u, filter, sort, l)
  BY <1>2, <1>3, ClampIsPage DEF Reads!GetExecutions
<1>4. CASE \E f, sort : \E l \in Limits : Reads!GetWorkflowExecutions(f, u, sort, l)
  BY <1>2, <1>4, ClampIsPage DEF Reads!GetWorkflowExecutions
<1>5. CASE \/ \E l \in Limits : Reads!GetRecentExecutions(u, l)
           \/ Reads!GetRunningExecutions(u)
           \/ \E filter \in Reads!Filters : Reads!ExportExecutions(u, filter)
           \/ Reads!GetUserAnalytics(u)
  BY <1>2, <1>5 DEF Reads!GetRecentExecutions, Reads!GetRunningExecutions, Reads!ExportExecutions, Reads!GetUserAnalytics
<1>6. CASE \E f \in {f1, f2} : Reads!GetWorkflowAnalytics(f, u)
  BY <1>2, <1>6 DEF Reads!GetWorkflowAnalytics
<1> QED BY <1>3, <1>4, <1>5, <1>6 DEF Reads!Ask

LEMMA NextReadsInv ==
  ASSUME ReadsInv, Reads!Next
  PROVE  ReadsInv'
<1>1. CASE \/ \E f \in {f1, f2} : Reads!Trigger(f)
           \/ \E e \in rows : Reads!Delete(e) \/ \E s \in {"SUCCESS", "FAILED"} : Reads!Finish(e, s)
  BY <1>1, ChangeTypes
<1>2. CASE \E u \in {u1, u2} : Reads!Ask(u)
  BY <1>2, AskTypes
<1>3. {"kind", "limit", "sent"} \subseteq DOMAIN req /\ {"calm", "shrank"} \subseteq DOMAIN walk
      /\ req.sent \in {"asked", "sampled", "answered", "refused", "failed"}
  BY DEF ReadsInv, Reads!TypeOK
<1>4. CASE Reads!NextPage
  BY <1>3, <1>4, GoesOnTypes DEF Reads!NextPage, Reads!Request
<1>5. CASE Reads!QueryPage
  <2>1. PICK x : req' = [req EXCEPT !.items = x]
    BY <1>5 DEF Reads!QueryPage
  <2> QED BY <1>3, <1>5, <2>1, GoesOnTypes DEF Reads!QueryPage
<1>6. CASE Reads!QueryTotal
  <2>1. PICK x : \/ req' = [req EXCEPT !.total = x] /\ UNCHANGED walk
                 \/ req' = [req EXCEPT !.sent = "sampled"] /\ walk' = [walk EXCEPT !.sampled = TRUE]
    BY <1>6 DEF Reads!QueryTotal, Reads!GetApproximateCount
  <2>2. UNCHANGED <<rows, next, changes>>
    BY <1>6 DEF Reads!QueryTotal
  <2> QED BY <1>3, <2>1, <2>2, GoesOnTypes
<1>7. CASE Reads!QueryWhole
  <2>1. req' = [req EXCEPT !.sent = "asked", !.total = Reads!Cardinality(rows)] /\ UNCHANGED <<rows, next, walk, changes>>
    BY <1>7 DEF Reads!QueryWhole
  <2> QED BY <1>3, <2>1, GoesOnTypes
<1>8. CASE Reads!AnswerPage
  <2>1. PICK x, y : req' = [req EXCEPT !.sent = "answered"] /\ walk' = [walk EXCEPT !.seen = x, !.over = y]
    BY <1>8 DEF Reads!AnswerPage, Reads!Answered
  <2>2. UNCHANGED <<rows, next, changes>>
    BY <1>8 DEF Reads!AnswerPage
  <2> QED BY <1>3, <2>1, <2>2, GoesOnTypes
<1>9. CASE Reads!QueryRecent \/ Reads!QueryRunning
  <2>1. PICK x : req' = [[req EXCEPT !.sent = "answered"] EXCEPT !.items = x]
    BY <1>9 DEF Reads!QueryRecent, Reads!QueryRunning, Reads!Answered
  <2>2. UNCHANGED <<rows, next, walk, changes>>
    BY <1>9 DEF Reads!QueryRecent, Reads!QueryRunning
  <2> QED BY <1>3, <2>1, <2>2, GoesOnTypes
<1>10. CASE \E c \in Reads!Counts : Reads!QueryCount(c)
  <2>1. PICK x : req' = [req EXCEPT !.counts = x]
    BY <1>10 DEF Reads!QueryCount
  <2>2. UNCHANGED <<rows, next, walk, changes>>
    BY <1>10 DEF Reads!QueryCount
  <2> QED BY <1>3, <2>1, <2>2, GoesOnTypes
<1>11. CASE Reads!QueryDays
  <2>1. PICK x \in {"answered", "failed"} : req' = [req EXCEPT !.sent = x]
    BY <1>11 DEF Reads!QueryDays, Reads!Answered
  <2>2. UNCHANGED <<rows, next, walk, changes>>
    BY <1>11 DEF Reads!QueryDays
  <2> QED BY <1>3, <2>1, <2>2, GoesOnTypes
<1> QED BY <1>1, <1>2, <1>4, <1>5, <1>6, <1>7, <1>8, <1>9, <1>10, <1>11 DEF Reads!Next

LEMMA InitReadsInv == Reads!Init => ReadsInv
<1> SUFFICES ASSUME Reads!Init PROVE ReadsInv
  OBVIOUS
<1>1. MaxRows \in Nat /\ MaxChanges \in Nat
  BY ReadAssumptions DEF Reads!ListingAssumption
<1>2. TableInv /\ Cardinality(rows) <= MaxRows
  <2>1. PICK n \in 0 .. MaxRows : \E f \in [1..n -> {f1, f2}], s \in [1..n -> {"RUNNING", "SUCCESS", "FAILED"}] :
          rows = {[id |-> i, workflowId |-> f[i], status |-> s[i]] : i \in 1..n} /\ next = n + 1
    BY DEF Reads!Init, Reads!Statuses
  <2>2. TableInv /\ Cardinality(rows) <= n
    <3>1. n \in Nat
      BY <1>1
    <3> QED BY <2>1, <3>1, TableStarts
  <2>3. Cardinality(rows) \in Nat
    BY <2>2, FS_CardinalityType DEF TableInv, Table
  <2> QED BY <1>1, <2>2, <2>3
<1>3. /\ {"kind", "limit", "sent"} \subseteq DOMAIN req /\ {"calm", "shrank"} \subseteq DOMAIN walk
      /\ req.sent = "answered" /\ req.kind = "recent" /\ ~walk.shrank /\ changes = 0
  BY DEF Reads!Init, Reads!Answered, Reads!Request
<1> QED BY <1>1, <1>2, <1>3, SameCardinality DEF ReadsInv, TableInv, Table, ReadRows, Reads!TypeOK, Reads!Statuses

\* The rows that are written and those that are read keep their types: what is read keeps its
\* unique ids however executions come and go, and no page is asked for that is empty or more
\* than the repository gives.
THEOREM ReadsTypesCorrect == PartsSpec => []Typed
<1> USE LifecycleAssumption
<1>1. PartsInit => IInv /\ (part = "reads" => ReadsInv)
  BY InitInv, InitReadsInv DEF PartsInit
<1>2. IInv /\ (part = "reads" => ReadsInv) /\ [PartsNext]_<<lifecycleVars, listingVars, part>>
        => IInv' /\ (part = "reads" => ReadsInv)'
  <2> SUFFICES ASSUME IInv, part = "reads" => ReadsInv, [PartsNext]_<<lifecycleVars, listingVars, part>>
               PROVE  IInv' /\ (part = "reads" => ReadsInv)'
    OBVIOUS
  <2>1. [Next]_vars
    BY DEF PartsNext, lifecycleVars
  <2>2. TypeInv' /\ N8nInv'
    BY <2>1, NextTypeInv, NextN8nInv DEF IInv, N8nInv
  <2>3. RowInv'
    BY <2>1, NextFinished, NextEnded, NextOwner DEF IInv, RowInv
  <2>4. part' = "reads" => part = "reads" /\ (Reads!Next \/ UNCHANGED listingVars)
    BY DEF PartsNext
  <2>5. UNCHANGED listingVars /\ ReadsInv => ReadsInv'
    BY DEF listingVars, ReadsInv, TableInv, Reads!TypeOK
  <2> QED BY <2>2, <2>3, <2>4, <2>5, NextReadsInv DEF IInv
<1>3. IInv /\ (part = "reads" => ReadsInv) => Typed
  BY DEF IInv, TypeInv, ReadsInv, Typed
<1> QED BY <1>1, <1>2, <1>3, PTL DEF PartsSpec

-----------------------------------------------------------------------------
(***************************************************************************)
(* The order of a table (ExecutionListing, here Walks).                    *)
(***************************************************************************)

Tables == {S \in SUBSET ReadRows : Table(S)}

\* A place is a number of executions of the table, and an execution has one of its own.
LEMMA PlaceIsNumber ==
  ASSUME NEW S \in Tables, NEW i \in Nat
  PROVE  /\ Walks!Place(i, S) \in 0..Cardinality(S) /\ Cardinality(S) \in Nat
         /\ (\E e \in S : e.id = i) => Walks!Place(i, S) >= 1
<1> DEFINE A == {e \in S : e.id >= i}
<1>1. IsFiniteSet(S) /\ Cardinality(S) \in Nat /\ A \in SUBSET S
  BY FS_CardinalityType DEF Tables, Table
<1>2. Walks!Place(i, S) = Cardinality(A)
  BY SameCardinality DEF Walks!Place
<1> HIDE DEF A
<1>3. IsFiniteSet(A) /\ Cardinality(A) <= Cardinality(S) /\ Cardinality(A) \in Nat
  BY <1>1, FS_Subset, FS_CardinalityType
<1>4. (\E e \in S : e.id = i) => A # {}
  BY DEF A
<1> QED BY <1>1, <1>2, <1>3, <1>4, FS_EmptySet

\* The older an execution, the later its place.
LEMMA PlaceGrows ==
  ASSUME NEW S \in Tables, NEW i \in Nat, NEW j \in Nat, j < i
  PROVE  /\ Walks!Place(i, S) <= Walks!Place(j, S)
         /\ (\E e \in S : e.id = j) => Walks!Place(i, S) < Walks!Place(j, S)
<1> DEFINE A == {e \in S : e.id >= i}
           B == {e \in S : e.id >= j}
<1>1. IsFiniteSet(S) /\ \A e \in S : e.id \in Nat
  BY DEF Tables, Table, ReadRows
<1>2. A \in SUBSET B /\ B \in SUBSET S
  BY <1>1
<1>3. Walks!Place(i, S) = Cardinality(A) /\ Walks!Place(j, S) = Cardinality(B)
  BY SameCardinality DEF Walks!Place
<1>4. (\E e \in S : e.id = j) => A # B
  <2> SUFFICES ASSUME NEW e \in S, e.id = j PROVE A # B
    OBVIOUS
  <2>1. e \in B /\ e \notin A
    OBVIOUS
  <2> QED BY <2>1
<1> HIDE DEF A, B
<1>5. IsFiniteSet(B)
  BY <1>1, <1>2, FS_Subset
<1>6. IsFiniteSet(A) /\ Cardinality(A) <= Cardinality(B) /\ (Cardinality(A) = Cardinality(B) => A = B)
  BY <1>2, <1>5, FS_Subset
<1>7. Cardinality(A) \in Nat /\ Cardinality(B) \in Nat
  BY <1>5, <1>6, FS_CardinalityType
<1> QED BY <1>3, <1>4, <1>6, <1>7

\* Newest lists a table: every execution once, at its place.
LEMMA NewestLists ==
  ASSUME NEW S \in Tables
  PROVE  /\ Walks!Newest(S) \in Seq(ReadRows) /\ Len(Walks!Newest(S)) = Cardinality(S) /\ Cardinality(S) \in Nat
         /\ \A k \in 1..Cardinality(S) : Walks!Newest(S)[k] \in S /\ Walks!Place(Walks!Newest(S)[k].id, S) = k
         /\ \A e \in S : Walks!Place(e.id, S) \in 1..Cardinality(S) /\ Walks!Newest(S)[Walks!Place(e.id, S)] = e
<1> DEFINE n == Cardinality(S)
           f == [e \in S |-> Walks!Place(e.id, S)]
<1>1. n \in Nat /\ IsFiniteSet(S) /\ S \subseteq ReadRows /\ \A e \in S : e.id \in Nat
  BY FS_CardinalityType DEF Tables, Table, ReadRows
<1>2. \A e \in S : Walks!Place(e.id, S) \in 1..n
  BY <1>1, PlaceIsNumber
<1>3. \A d, e \in S : Walks!Place(d.id, S) = Walks!Place(e.id, S) => d = e
  <2> SUFFICES ASSUME NEW d \in S, NEW e \in S, d # e PROVE Walks!Place(d.id, S) # Walks!Place(e.id, S)
    OBVIOUS
  <2>1. d.id < e.id \/ e.id < d.id
    BY <1>1 DEF Tables, Table
  <2>2. Walks!Place(d.id, S) \in Nat /\ Walks!Place(e.id, S) \in Nat
    BY <1>1, <1>2
  <2>3. CASE d.id < e.id
    <3>1. Walks!Place(e.id, S) < Walks!Place(d.id, S)
      BY <1>1, <2>3, PlaceGrows
    <3> QED BY <2>2, <3>1
  <2>4. CASE e.id < d.id
    <3>1. Walks!Place(d.id, S) < Walks!Place(e.id, S)
      BY <1>1, <2>4, PlaceGrows
    <3> QED BY <2>2, <3>1
  <2> QED BY <2>1, <2>3, <2>4
<1>4. f \in Injection(S, 1..n)
  <2>1. f \in [S -> 1..n] /\ \A d, e \in S : f[d] = f[e] => d = e
    BY <1>2, <1>3
  <2> HIDE DEF f
  <2> QED BY <2>1 DEF Injection, IsInjective
<1>5. \A k \in 1..n : \E e \in S : Walks!Place(e.id, S) = k
  <2>1. IsFiniteSet(1..n) /\ Cardinality(1..n) = n
    BY <1>1, FS_Interval
  <2>2. f \in Surjection(S, 1..n)
    <3> HIDE DEF f
    <3> QED BY <1>4, <2>1, FS_Injection
  <2>3. \A k \in 1..n : \E e \in S : f[e] = k
    <3> HIDE DEF f
    <3> QED BY <2>2 DEF Surjection
  <2> QED BY <2>3
<1>6. Walks!Newest(S) = [k \in 1..n |-> CHOOSE e \in S : Walks!Place(e.id, S) = k]
  BY SameCardinality DEF Walks!Newest
<1> HIDE DEF n, f
<1>7. \A k \in 1..n : Walks!Newest(S)[k] \in S /\ Walks!Place(Walks!Newest(S)[k].id, S) = k
  BY <1>5, <1>6
<1>8. Walks!Newest(S) \in [1..n -> ReadRows]
  BY <1>1, <1>6, <1>7
<1>9. Walks!Newest(S) \in Seq(ReadRows) /\ Len(Walks!Newest(S)) = n
  <2> DEFINE s == Walks!Newest(S)
  <2>1. s \in [1..n -> ReadRows]
    BY <1>8
  <2> HIDE DEF s
  <2>2. s \in Seq(ReadRows) /\ Len(s) = n
    BY <1>1, <2>1, IsASeq, LenProperties
  <2> QED BY <2>2 DEF s
<1>10. \A e \in S : Walks!Newest(S)[Walks!Place(e.id, S)] = e
  BY <1>2, <1>3, <1>7
<1> QED BY <1>1, <1>2, <1>7, <1>9, <1>10 DEF n

\* Where nobody is lost, everybody's place stays or grows.
LEMMA PlaceStays ==
  ASSUME NEW S \in Tables, NEW T \in Tables, \A e \in S : \E d \in T : d.id = e.id, NEW i \in Nat
  PROVE  Walks!Place(i, S) <= Walks!Place(i, T)
<1> DEFINE A == {e \in S : e.id >= i}
           B == {e \in T : e.id >= i}
           f == [e \in A |-> CHOOSE d \in B : d.id = e.id]
<1>1. IsFiniteSet(T) /\ B \in SUBSET T
  BY DEF Tables, Table
<1>2. Walks!Place(i, S) = Cardinality(A) /\ Walks!Place(i, T) = Cardinality(B)
  BY SameCardinality DEF Walks!Place
<1>3. \A e \in A : \E d \in B : d.id = e.id
  OBVIOUS
<1>4. \A d, e \in A : d.id = e.id => d = e
  BY DEF Tables, Table
<1> HIDE DEF A, B
<1>5. \A e \in A : f[e] \in B /\ f[e].id = e.id
  BY <1>3
<1>6. f \in Injection(A, B)
  <2>1. f \in [A -> B]
    BY <1>5
  <2>2. \A d, e \in A : f[d] = f[e] => d = e
    <3> HIDE DEF f
    <3> QED BY <1>4, <1>5
  <2> HIDE DEF f
  <2> QED BY <2>1, <2>2 DEF Injection, IsInjective
<1> HIDE DEF f
<1>7. IsFiniteSet(B)
  BY <1>1, FS_Subset
<1> QED BY <1>2, <1>6, <1>7, FS_Injection

LEMMA WalkLimitIsPage ==
  /\ \A l \in WalkLimits : Walks!Clamp(l) \in 1 .. WalkTake
  /\ \A l \in 1 .. WalkTake : Walks!Take(l) = l
<1>1. WalkLimits \subseteq Nat /\ WalkTake \in Nat \ {0}
  BY ReadAssumptions DEF Walks!ListingAssumption
<1>2. \A a, b \in Nat : Walks!Max({a, b}) \in {a, b} /\ Walks!Max({a, b}) >= a
  <2> TAKE a, b \in Nat
  <2>1. \E x \in {a, b} : \A y \in {a, b} : x >= y
    OBVIOUS
  <2> QED BY <2>1 DEF Walks!Max
<1>3. \A a, b \in Nat : Walks!Min({a, b}) \in {a, b} /\ Walks!Min({a, b}) <= a
  <2> TAKE a, b \in Nat
  <2>1. \E x \in {a, b} : \A y \in {a, b} : x <= y
    OBVIOUS
  <2> QED BY <2>1 DEF Walks!Min
<1>4. ASSUME NEW l \in WalkLimits PROVE Walks!Clamp(l) \in 1 .. WalkTake
  <2>1. Walks!Max({1, l}) \in Nat /\ Walks!Max({1, l}) >= 1
    BY <1>1, <1>2
  <2> QED BY <1>1, <1>3, <2>1 DEF Walks!Clamp
<1>5. ASSUME NEW l \in 1 .. WalkTake PROVE Walks!Take(l) = l
  <2>1. l \in Nat /\ l <= WalkTake
    BY <1>1
  <2>2. \E x \in {l, WalkTake} : \A y \in {l, WalkTake} : x <= y
    BY <1>1, <2>1
  <2>3. Walks!Min({l, WalkTake}) \in {l, WalkTake} /\ Walks!Min({l, WalkTake}) <= l /\ Walks!Min({l, WalkTake}) <= WalkTake
    BY <2>2 DEF Walks!Min
  <2> QED BY <1>1, <2>1, <2>3 DEF Walks!Take
<1> QED BY <1>4, <1>5

\* What a page holds.
LEMMA SliceItems ==
  ASSUME NEW s \in Seq(ReadRows), NEW skip \in Nat, NEW take \in Nat
  PROVE  /\ Walks!Slice(s, skip, take) \in Seq(ReadRows)
         /\ Len(Walks!Slice(s, skip, take)) = IF skip >= Len(s) THEN 0 ELSE IF skip + take <= Len(s) THEN take ELSE Len(s) - skip
         /\ \A k \in 1..Len(Walks!Slice(s, skip, take)) : Walks!Slice(s, skip, take)[k] = s[skip + k]
<1> DEFINE m == Walks!Min({skip + take, Len(s)})
<1>1. Len(s) \in Nat
  OBVIOUS
<1>2. m = IF skip + take <= Len(s) THEN skip + take ELSE Len(s)
  <2>1. \E x \in {skip + take, Len(s)} : \A y \in {skip + take, Len(s)} : x <= y
    BY <1>1
  <2>2. m \in {skip + take, Len(s)} /\ m <= Len(s) /\ m <= skip + take
    BY <2>1 DEF Walks!Min
  <2> QED BY <1>1, <2>2
<1>3. Walks!Slice(s, skip, take) = SubSeq(s, skip + 1, m)
  BY DEF Walks!Slice
<1> HIDE DEF m
<1>4. \A i \in (skip + 1) .. m : s[i] \in ReadRows
  <2>1. \A i \in 1 .. Len(s) : s[i] \in ReadRows
    OBVIOUS
  <2> QED BY <1>1, <1>2, <2>1
<1>5. /\ SubSeq(s, skip + 1, m) \in Seq(ReadRows)
      /\ Len(SubSeq(s, skip + 1, m)) = IF skip + 1 <= m THEN m - (skip + 1) + 1 ELSE 0
      /\ \A i \in 1 .. m - (skip + 1) + 1 : SubSeq(s, skip + 1, m)[i] = s[(skip + 1) + i - 1]
  BY <1>1, <1>2, SubSeqProperties
<1>6. Len(SubSeq(s, skip + 1, m)) = IF skip >= Len(s) THEN 0 ELSE IF skip + take <= Len(s) THEN take ELSE Len(s) - skip
  BY <1>1, <1>2, <1>5
<1>7. \A k \in 1..Len(SubSeq(s, skip + 1, m)) : SubSeq(s, skip + 1, m)[k] = s[skip + k]
  <2> TAKE k \in 1..Len(SubSeq(s, skip + 1, m))
  <2>1. k \in 1 .. m - (skip + 1) + 1 /\ (skip + 1) + k - 1 = skip + k
    BY <1>1, <1>2, <1>5
  <2> QED BY <1>5, <2>1
<1> QED BY <1>3, <1>5, <1>6, <1>7

\* There is nothing behind the last page.
LEMMA LastPageIsLast ==
  ASSUME NEW n \in Nat, NEW l \in Nat \ {0}, NEW p \in Nat, p >= Walks!TotalPages(n, l)
  PROVE  p * l >= n
<1> DEFINE q == (n + l - 1) \div l
<1>1. q \in Nat /\ l * q <= n + l - 1 /\ n + l - 1 < l * q + l
  OBVIOUS
<1>2. q = Walks!TotalPages(n, l)
  BY DEF Walks!TotalPages
<1> HIDE DEF q
<1>3. p = q + (p - q) /\ p - q \in Nat
  BY <1>1, <1>2
<1>4. (q + (p - q)) * l = q * l + (p - q) * l /\ (p - q) * l >= 0 /\ q * l = l * q
  BY <1>1, <1>3
<1>5. p * l >= l * q /\ l * q \in Nat /\ p * l \in Nat
  BY <1>1, <1>3, <1>4
<1> QED BY <1>1, <1>5

-----------------------------------------------------------------------------
(***************************************************************************)
(* The pages of a list (ExecutionListing, here Walks).                     *)
(***************************************************************************)

Listed == req.kind \in {"list", "workflow"}

\* The rows before the page at hand, and those that the reader was given so far.
Skipped == Walks!Skip(req.page, req.limit)
Done == IF req.sent = "answered" THEN Skipped + req.limit ELSE Skipped

WalkTypes ==
  /\ TableInv
  /\ {"kind", "where", "sort", "page", "limit", "items", "total", "sent"} \subseteq DOMAIN req
  /\ {"seen", "began", "calm", "shrank", "sampled", "over"} \subseteq DOMAIN walk
  /\ req.kind \in {"recent", "list", "workflow"} /\ req.sort = "startedAt" /\ (req.kind = "recent" => req.sent = "answered")
  /\ walk.seen \in Seq(ReadRows) /\ walk.began \in Tables
  /\ {walk.calm, walk.shrank, walk.sampled, walk.over} \subseteq BOOLEAN
  /\ req.sent = "sampled" => walk.sampled
  /\ Listed => req.limit \in 1..WalkTake /\ req.page \in Nat \ {0}
  /\ Listed /\ req.items # NoExecution => req.items \in Seq(ReadRows)

\* While nothing changes: what was shown are the newest, the page at hand are those that follow,
\* and what was counted is all of them.
WalkExact ==
  LET all == Walks!Newest(walk.began) IN
  Listed /\ walk.calm =>
    /\ Walks!Matching(req.where) = walk.began
    /\ Len(walk.seen) = (IF Done <= Len(all) THEN Done ELSE Len(all))
    /\ \A k \in 1..Len(walk.seen) : walk.seen[k] = all[k]
    /\ req.items # NoExecution => req.items = Walks!Slice(all, Skipped, req.limit)
    /\ ~walk.sampled /\ req.total # NoExecution => req.total = Len(all)
    /\ ~walk.sampled /\ req.sent = "answered" /\ walk.over => Done >= Len(all)

Fetched == Walks!Ids(walk.seen) \cup (IF req.items = NoExecution THEN {} ELSE Walks!Ids(req.items))

\* While nobody is lost: of those there from the start, whoever stands before the end of what was
\* fetched was fetched, and with one all newer ones.
WalkDense ==
  Listed /\ ~walk.shrank =>
    /\ \A b \in walk.began : \E e \in Walks!Matching(req.where) : e.id = b.id
    /\ \A b \in walk.began : Walks!Place(b.id, Walks!Matching(req.where)) <= Done => b.id \in Walks!Ids(walk.seen)
    /\ \A d, e \in walk.began : d.id < e.id /\ d.id \in Walks!Ids(walk.seen) => e.id \in Walks!Ids(walk.seen)
    /\ req.items # NoExecution =>
         /\ \A b \in walk.began :
              Walks!Place(b.id, Walks!Matching(req.where)) <= Skipped + req.limit => b.id \in Fetched
         /\ \A d, e \in walk.began : d.id < e.id /\ d.id \in Fetched => e.id \in Fetched

WalksInv == WalkTypes /\ WalkExact /\ WalkDense

LEMMA PartIsTable == ASSUME NEW T, Table(T), NEW S \in SUBSET T PROVE S \in Tables
<1>1. IsFiniteSet(S)
  BY FS_Subset DEF Table
<1> QED BY <1>1 DEF Table, Tables

LEMMA MatchingIsTable == ASSUME TableInv, NEW where PROVE Walks!Matching(where) \in Tables
<1>1. Walks!Matching(where) \in SUBSET rows /\ Table(rows)
  BY DEF Walks!Matching, TableInv
<1> QED BY <1>1, PartIsTable

LEMMA SameMatching ==
  ASSUME rows' = rows, req'.where = req.where
  PROVE  Walks!Matching(req.where)' = Walks!Matching(req.where)
BY DEF Walks!Matching, Walks!Matches

\* What the invariant says of the numbers it is about.
LEMMA WalkNumbers ==
  ASSUME WalkTypes, Listed
  PROVE  /\ Skipped \in Nat /\ Done \in Nat /\ req.limit \in Nat \ {0} /\ req.page \in Nat \ {0}
         /\ Skipped = (req.page - 1) * req.limit /\ Skipped + req.limit = req.page * req.limit
         /\ Walks!Newest(walk.began) \in Seq(ReadRows) /\ Len(Walks!Newest(walk.began)) = Cardinality(walk.began)
         /\ Len(Walks!Newest(walk.began)) \in Nat /\ Len(walk.seen) \in Nat
         /\ Walks!Matching(req.where) \in Tables
         /\ \A b \in walk.began : b.id \in Nat
<1>1. req.limit \in Nat \ {0} /\ req.page \in Nat \ {0}
  BY ReadAssumptions DEF WalkTypes, Walks!ListingAssumption
<1>2. Skipped = (req.page - 1) * req.limit
  BY DEF Skipped, Walks!Skip
<1>3. \A p, l \in Nat \ {0} : (p - 1) * l \in Nat /\ (p - 1) * l + l = p * l
  OBVIOUS
<1>4. Skipped \in Nat /\ Skipped + req.limit = req.page * req.limit
  BY <1>1, <1>2, <1>3
<1>5. Done \in Nat
  BY <1>1, <1>4 DEF Done
<1>6. walk.began \in Tables /\ walk.seen \in Seq(ReadRows) /\ TableInv
  BY DEF WalkTypes
<1>7. \A b \in walk.began : b.id \in Nat
  BY <1>6 DEF Tables, Table, ReadRows
<1>8. Len(walk.seen) \in Nat
  BY <1>6
<1> QED BY <1>1, <1>2, <1>4, <1>5, <1>6, <1>7, <1>8, NewestLists, MatchingIsTable

LEMMA WalkStarts ==
  ASSUME WalkTypes, NEW r, Walks!Start(r),
         {"kind", "where", "sort", "page", "limit", "items", "total", "sent"} \subseteq DOMAIN r,
         r.kind \in {"list", "workflow"}, r.sort = "startedAt", r.page = 1, r.limit \in 1..WalkTake,
         r.items = NoExecution, r.total = NoExecution, r.sent \in {"asked", "refused"}
  PROVE  WalksInv'
<1>1. /\ req' = r /\ UNCHANGED <<rows, next, changes>>
      /\ walk' = [seen |-> <<>>, began |-> Walks!Matching(r.where), calm |-> TRUE, shrank |-> FALSE,
                  sampled |-> FALSE, over |-> FALSE]
  BY DEF Walks!Start
<1>2. TableInv /\ TableInv'
  BY <1>1 DEF WalkTypes, TableInv, Table
<1>3. WalkTypes'
  <2>1. Walks!Matching(r.where) \in Tables
    BY <1>2, MatchingIsTable
  <2> QED BY <1>1, <1>2, <2>1 DEF WalkTypes, Listed
<1>4. Listed' /\ Skipped' = 0 /\ Done' = 0
  <2>1. r.limit \in Nat
    BY ReadAssumptions DEF Walks!ListingAssumption
  <2>2. Skipped' = (1 - 1) * r.limit
    BY <1>1 DEF Skipped, Walks!Skip
  <2> QED BY <1>1, <2>1, <2>2 DEF Listed, Done
<1>5. walk'.began = Walks!Matching(r.where) /\ Walks!Matching(req.where)' = walk'.began /\ walk'.began \in Tables
  <2>1. Walks!Matching(req.where)' = Walks!Matching(r.where)
    BY <1>1 DEF Walks!Matching, Walks!Matches
  <2> QED BY <1>1, <1>2, <2>1, MatchingIsTable
<1>6. Walks!Ids(walk.seen)' = {}
  BY <1>1 DEF Walks!Ids
<1>7. \A b \in walk'.began : Walks!Place(b.id, walk'.began) >= 1 /\ Walks!Place(b.id, walk'.began) \in Nat
  <2>1. \A b \in walk'.began : b.id \in Nat
    BY <1>5 DEF Tables, Table, ReadRows
  <2> QED BY <1>5, <2>1, PlaceIsNumber
<1>8. WalkExact'
  <2>1. Len(Walks!Newest(walk'.began)) \in Nat
    BY <1>5, NewestLists
  <2> QED BY <1>1, <1>4, <1>5, <2>1 DEF WalkExact
<1>9. WalkDense'
  BY <1>1, <1>4, <1>5, <1>6, <1>7 DEF WalkDense
<1> QED BY <1>3, <1>8, <1>9 DEF WalksInv

\* An execution that comes, ends or goes.
LEMMA WalkChangesInv ==
  ASSUME WalksInv,
         \/ \E f \in {f1, f2} : Walks!Trigger(f)
         \/ \E e \in rows : Walks!Delete(e) \/ \E s \in {"SUCCESS", "FAILED"} : Walks!Finish(e, s)
  PROVE  WalksInv'
<1>1. req' = req
  BY DEF Walks!Trigger, Walks!Delete, Walks!Finish
<1>2. walk' = [walk EXCEPT !.calm = FALSE,
                !.shrank = walk.shrank \/ \E e \in Walks!Matching(req.where) : ~\E d \in rows' : d.id = e.id /\ Walks!Matches(d, req.where)]
  BY DEF Walks!Trigger, Walks!Delete, Walks!Finish, Walks!Watch
<1>3. WalkTypes /\ TableInv'
  <2>1. TableInv
    BY DEF WalksInv, WalkTypes
  <2>2. RowComes \/ RowEnds \/ RowGoes
    BY DEF Walks!Trigger, Walks!Delete, Walks!Finish, RowComes, RowEnds, RowGoes
  <2> QED BY <2>1, <2>2, TableChanges DEF WalksInv
<1>4. /\ {"seen", "began", "calm", "shrank", "sampled", "over"} \subseteq DOMAIN walk'
      /\ walk'.calm = FALSE /\ walk'.shrank \in BOOLEAN
      /\ walk'.seen = walk.seen /\ walk'.began = walk.began /\ walk'.sampled = walk.sampled /\ walk'.over = walk.over
      /\ ~walk'.shrank => ~walk.shrank /\ \A e \in Walks!Matching(req.where) : \E d \in Walks!Matching(req.where)' : d.id = e.id
  <2>1. DOMAIN walk' = DOMAIN walk /\ {"seen", "began", "calm", "shrank", "sampled", "over"} \subseteq DOMAIN walk
    BY <1>2, <1>3 DEF WalkTypes
  <2>2. \A d \in rows' : Walks!Matches(d, req.where) => d \in Walks!Matching(req.where)'
    BY <1>1 DEF Walks!Matching, Walks!Matches
  <2> QED BY <1>2, <1>3, <2>1, <2>2 DEF WalkTypes
<1>5. WalkTypes'
  BY <1>1, <1>3, <1>4 DEF WalkTypes, Listed
<1>6. WalkExact'
  BY <1>4 DEF WalkExact
<1>7. WalkDense'
  <2> SUFFICES ASSUME Listed, ~walk'.shrank PROVE WalkDense'
    BY <1>1 DEF WalkDense, Listed
  <2>1. Listed' /\ Skipped' = Skipped /\ Done' = Done /\ Fetched' = Fetched /\ Walks!Ids(walk.seen)' = Walks!Ids(walk.seen)
    BY <1>1, <1>4 DEF Listed, Skipped, Done, Fetched, Walks!Ids
  <2>2. Skipped \in Nat /\ Done \in Nat /\ req.limit \in Nat /\ \A b \in walk.began : b.id \in Nat
    BY <1>3, WalkNumbers
  <2>3. Walks!Matching(req.where) \in Tables /\ Walks!Matching(req.where)' \in Tables
    <3>1. Walks!Matching(req.where) \in Tables
      BY <1>3, WalkNumbers
    <3>2. Walks!Matching(req.where)' \in SUBSET rows' /\ Table(rows')
      BY <1>3 DEF Walks!Matching, TableInv, Table
    <3>3. Walks!Matching(req.where)' \in Tables
      BY <3>2, PartIsTable
    <3> QED BY <3>1, <3>3
  <2> DEFINE M == Walks!Matching(req.where)
             N == Walks!Matching(req.where)'
  <2>4. \A e \in M : \E d \in N : d.id = e.id
    BY <1>4
  <2>5. \A b \in walk.began : Walks!Place(b.id, M) <= Walks!Place(b.id, N) /\ Walks!Place(b.id, M) \in Nat /\ Walks!Place(b.id, N) \in Nat
    <3> HIDE DEF M, N
    <3>1. M \in Tables /\ N \in Tables
      BY <2>3 DEF M, N
    <3> QED BY <2>2, <2>4, <3>1, PlaceStays, PlaceIsNumber
  <2>6. WalkDense /\ ~walk.shrank
    BY <1>4 DEF WalksInv
  <2>7. \A b \in walk.began : \E e \in N : e.id = b.id
    BY <2>4, <2>6 DEF WalkDense
  <2>8. \A b \in walk.began : Walks!Place(b.id, N) <= Done => b.id \in Walks!Ids(walk.seen)
    BY <2>2, <2>5, <2>6 DEF WalkDense
  <2>9. req.items # NoExecution => \A b \in walk.began : Walks!Place(b.id, N) <= Skipped + req.limit => b.id \in Fetched
    BY <2>2, <2>5, <2>6 DEF WalkDense
  <2>10. \A d, e \in walk.began : d.id < e.id /\ d.id \in Walks!Ids(walk.seen) => e.id \in Walks!Ids(walk.seen)
    BY <2>6 DEF WalkDense
  <2>11. req.items # NoExecution => \A d, e \in walk.began : d.id < e.id /\ d.id \in Fetched => e.id \in Fetched
    BY <2>6 DEF WalkDense
  <2> HIDE DEF M
  <2> QED BY <1>1, <1>4, <2>1, <2>7, <2>8, <2>9, <2>10, <2>11 DEF WalkDense
<1> QED BY <1>5, <1>6, <1>7 DEF WalksInv

\* A page is read: the executions that follow those shown, as the table is then.
LEMMA WalkQueriesPage ==
  ASSUME WalksInv, Walks!QueryPage
  PROVE  WalksInv'
<1> DEFINE M == Walks!Matching(req.where)
           p == Walks!Slice(Walks!Newest(M), Skipped, req.limit)
<1>1. WalkTypes /\ Listed
  BY DEF WalksInv, WalkTypes, Walks!QueryPage, Walks!Lists, Listed
<1>2. /\ req' = [req EXCEPT !.items = p] /\ UNCHANGED <<rows, next, walk, changes>>
      /\ req.items = NoExecution /\ req.sent # "answered"
  <2>1. Walks!Take(req.limit) = req.limit
    BY <1>1, WalkLimitIsPage DEF WalkTypes
  <2>2. Walks!Ordered(req.where, req.sort) = {Walks!Newest(M)}
    BY <1>1 DEF Walks!Ordered, WalkTypes
  <2> QED BY <2>1, <2>2 DEF Walks!QueryPage, Skipped
<1>3. Skipped \in Nat /\ Done = Skipped /\ req.limit \in Nat \ {0} /\ M \in Tables /\ \A b \in walk.began : b.id \in Nat
  BY <1>1, <1>2, WalkNumbers DEF Done
<1> DEFINE s == Walks!Newest(M)
           n == Cardinality(M)
<1>4. /\ s \in Seq(ReadRows) /\ Len(s) = n /\ n \in Nat
      /\ \A k \in 1..n : s[k] \in M /\ Walks!Place(s[k].id, M) = k
      /\ \A e \in M : Walks!Place(e.id, M) \in 1..n /\ s[Walks!Place(e.id, M)] = e
  BY <1>3, NewestLists
<1>5. p = Walks!Slice(s, Skipped, req.limit)
  OBVIOUS
<1>6. M = Walks!Matching(req.where)
  OBVIOUS
<1> HIDE DEF p, s, n, M
<1>7. /\ p \in Seq(ReadRows)
      /\ Len(p) = IF Skipped >= n THEN 0 ELSE IF Skipped + req.limit <= n THEN req.limit ELSE n - Skipped
      /\ \A k \in 1..Len(p) : p[k] = s[Skipped + k]
  <2>1. s \in Seq(ReadRows) /\ Skipped \in Nat /\ req.limit \in Nat /\ Len(s) = n
    BY <1>3, <1>4
  <2>2. /\ Walks!Slice(s, Skipped, req.limit) \in Seq(ReadRows)
        /\ Len(Walks!Slice(s, Skipped, req.limit)) = IF Skipped >= Len(s) THEN 0 ELSE IF Skipped + req.limit <= Len(s) THEN req.limit ELSE Len(s) - Skipped
        /\ \A k \in 1..Len(Walks!Slice(s, Skipped, req.limit)) : Walks!Slice(s, Skipped, req.limit)[k] = s[Skipped + k]
    BY <2>1, SliceItems
  <2> QED BY <1>5, <2>1, <2>2
<1>8. req'.items = p /\ req'.kind = req.kind /\ req'.where = req.where /\ req'.sort = req.sort /\ req'.page = req.page
      /\ req'.limit = req.limit /\ req'.total = req.total /\ req'.sent = req.sent /\ DOMAIN req' = DOMAIN req
  BY <1>1, <1>2 DEF WalkTypes
<1>9. rows' = rows /\ walk' = walk
  BY <1>2
<1>10. Walks!Matching(req.where)' = M
  BY <1>8, <1>6, <1>9, SameMatching
<1>11. Listed' /\ Skipped' = Skipped /\ Done' = Done /\ Walks!Matching(req.where)' = M
  <2>1. Listed' /\ Skipped' = Skipped
    BY <1>1, <1>8 DEF Listed, Skipped
  <2>2. Done' = Done
    BY <1>8, <2>1 DEF Done
  <2> QED BY <1>10, <2>1, <2>2
<1>12. WalkTypes'
  BY <1>1, <1>2, <1>7, <1>8 DEF WalkTypes, Listed, TableInv, Table
<1>13. WalkExact'
  <2> SUFFICES ASSUME walk.calm PROVE WalkExact'
    BY <1>2 DEF WalkExact
  <2>1. M = walk.began /\ WalkExact
    BY <1>1, <1>6 DEF WalksInv, WalkExact
  <2>2. p = Walks!Slice(Walks!Newest(walk.began), Skipped, req.limit)
    BY <1>6, <2>1 DEF p
  <2> QED BY <1>1, <1>2, <1>8, <1>11, <2>1, <2>2 DEF WalkExact
<1>14. WalkDense'
  <2> SUFFICES ASSUME ~walk.shrank PROVE WalkDense'
    BY <1>2 DEF WalkDense
  <2>1. WalkDense /\ (p # NoExecution => Fetched' = Walks!Ids(walk.seen) \cup Walks!Ids(p)) /\ Walks!Ids(walk.seen)' = Walks!Ids(walk.seen)
    BY <1>7, <1>8, <1>9 DEF WalksInv, Fetched, Walks!Ids
  <2>2. Len(p) \in Nat /\ DOMAIN p = 1..Len(p)
    BY <1>7
  <2>3. ASSUME NEW b \in walk.began, Walks!Place(b.id, M) <= Skipped + req.limit PROVE b.id \in Walks!Ids(walk.seen) \cup Walks!Ids(p)
    <3>1. PICK e \in M : e.id = b.id
      BY <1>1, <1>6, <2>1 DEF WalkDense
    <3> DEFINE k == Walks!Place(e.id, M)
    <3>2. k \in 1..n /\ s[k] = e
      BY <1>4
    <3> HIDE DEF k
    <3>3. CASE k <= Skipped
      BY <1>1, <1>3, <1>6, <2>1, <3>1, <3>3 DEF WalkDense, k
    <3>4. CASE ~(k <= Skipped)
      <4>1. k <= Skipped + req.limit
        BY <2>3, <3>1 DEF k
      <4>2. k - Skipped \in 1..Len(p) /\ Skipped + (k - Skipped) = k
        BY <1>3, <1>4, <1>7, <3>2, <3>4, <4>1
      <4>3. p[k - Skipped] = e
        BY <1>7, <3>2, <4>2
      <4> QED BY <2>2, <3>1, <4>2, <4>3 DEF Walks!Ids
    <3> QED BY <3>3, <3>4
  <2>4. ASSUME NEW d \in walk.began, NEW e \in walk.began, d.id < e.id, d.id \in Walks!Ids(walk.seen) \cup Walks!Ids(p)
        PROVE  e.id \in Walks!Ids(walk.seen) \cup Walks!Ids(p)
    <3>1. CASE d.id \in Walks!Ids(walk.seen)
      BY <1>1, <2>1, <2>4, <3>1 DEF WalkDense
    <3>2. CASE d.id \in Walks!Ids(p)
      <4>1. PICK k \in 1..Len(p) : p[k].id = d.id
        BY <2>2, <3>2 DEF Walks!Ids
      <4>2. Skipped + k \in 1..n /\ Skipped + k <= Skipped + req.limit /\ p[k] = s[Skipped + k]
        <5>1. Skipped < n /\ k <= Len(p) /\ k \in Nat
          BY <1>3, <1>4, <1>7, <2>2
        <5>2. Len(p) <= req.limit /\ Skipped + Len(p) <= n
          BY <1>3, <1>4, <1>7, <5>1
        <5> QED BY <1>3, <1>4, <1>7, <2>2, <5>1, <5>2
      <4>3. Walks!Place(d.id, M) = Skipped + k
        BY <1>4, <4>1, <4>2
      <4>4. d.id \in Nat /\ e.id \in Nat
        BY <1>3
      <4>5. Walks!Place(e.id, M) <= Walks!Place(d.id, M)
        BY <1>3, <2>4, <4>4, PlaceGrows
      <4>6. Walks!Place(e.id, M) \in Nat
        <5>1. Walks!Place(e.id, M) \in 0..Cardinality(M) /\ Cardinality(M) \in Nat
          BY <1>3, <4>4, PlaceIsNumber
        <5> QED BY <5>1
      <4>7. Walks!Place(e.id, M) <= Skipped + req.limit
        BY <1>3, <4>2, <4>3, <4>5, <4>6
      <4> QED BY <2>3, <4>7
    <3> QED BY <2>4, <3>1, <3>2
  <2>5. /\ \A b \in walk.began : \E e \in M : e.id = b.id
        /\ \A b \in walk.began : Walks!Place(b.id, M) <= Done => b.id \in Walks!Ids(walk.seen)
        /\ \A d, e \in walk.began : d.id < e.id /\ d.id \in Walks!Ids(walk.seen) => e.id \in Walks!Ids(walk.seen)
    BY <1>1, <1>6, <2>1 DEF WalkDense
  <2> QED BY <1>8, <1>11, <1>9, <2>1, <2>3, <2>4, <2>5 DEF WalkDense
<1> QED BY <1>12, <1>13, <1>14 DEF WalksInv

\* The total is counted, or sampled and taken for that of the whole table.
LEMMA WalkCounts ==
  ASSUME WalksInv, Walks!QueryTotal \/ Walks!QueryWhole
  PROVE  WalksInv'
<1>1. WalkTypes /\ UNCHANGED <<rows, next, changes>>
  BY DEF WalksInv, Walks!QueryTotal, Walks!QueryWhole
<1>2. \/ req' = [req EXCEPT !.total = Cardinality(Walks!Matching(req.where))] /\ walk' = walk
      \/ req' = [req EXCEPT !.sent = "sampled"] /\ walk' = [walk EXCEPT !.sampled = TRUE]
      \/ /\ req' = [req EXCEPT !.sent = "asked", !.total = Cardinality(rows)]
         /\ walk' = walk /\ walk.sampled
  BY <1>1, SameCardinality DEF Walks!QueryTotal, Walks!QueryWhole, Walks!GetApproximateCount, Walks!Count, WalkTypes
<1>3. req.sent \in {"asked", "sampled"}
  BY DEF Walks!QueryTotal, Walks!QueryWhole
<1>4. /\ DOMAIN req' = DOMAIN req /\ DOMAIN walk' = DOMAIN walk
      /\ req'.items = req.items /\ req'.kind = req.kind /\ req'.where = req.where /\ req'.sort = req.sort /\ req'.page = req.page
      /\ req'.limit = req.limit /\ req'.sent \in {"asked", "sampled"}
      /\ walk'.seen = walk.seen /\ walk'.began = walk.began /\ walk'.calm = walk.calm /\ walk'.shrank = walk.shrank
      /\ walk'.over = walk.over /\ walk'.sampled \in BOOLEAN /\ (walk.sampled => walk'.sampled)
      /\ ~walk'.sampled => req'.total \in {req.total, Cardinality(Walks!Matching(req.where))}
      /\ req'.sent = "sampled" => walk'.sampled
  BY <1>1, <1>2, <1>3 DEF WalkTypes
<1>5. /\ Listed' = Listed /\ Skipped' = Skipped /\ Done' = Done /\ Fetched' = Fetched
      /\ Walks!Matching(req.where)' = Walks!Matching(req.where) /\ Walks!Ids(walk.seen)' = Walks!Ids(walk.seen)
  BY <1>1, <1>3, <1>4, SameMatching DEF Listed, Skipped, Done, Fetched
<1>6. WalkTypes'
  <2>1. req.kind # "recent"
    BY <1>1, <1>3 DEF WalkTypes
  <2> QED BY <1>1, <1>4, <2>1 DEF WalkTypes, Listed, TableInv, Table
<1>7. WalkExact'
  <2> SUFFICES ASSUME Listed, walk.calm PROVE WalkExact'
    BY <1>4, <1>5 DEF WalkExact
  <2>1. Walks!Matching(req.where) = walk.began /\ WalkExact
    BY DEF WalksInv, WalkExact
  <2>2. Len(Walks!Newest(walk.began)) = Cardinality(walk.began)
    BY <1>1, WalkNumbers
  <2>3. ~walk'.sampled /\ req'.total # NoExecution => req'.total = Len(Walks!Newest(walk.began))
    BY <1>4, <2>1, <2>2 DEF WalkExact
  <2> QED BY <1>4, <1>5, <2>1, <2>3 DEF WalkExact
<1>8. WalkDense'
  BY <1>4, <1>5 DEF WalksInv, WalkDense
<1> QED BY <1>6, <1>7, <1>8 DEF WalksInv

\* The page is shown after those before it, and the count tells whether there is another.
LEMMA WalkAnswers ==
  ASSUME WalksInv, Walks!AnswerPage, Listed
  PROVE  WalksInv'
<1>1. WalkTypes /\ UNCHANGED <<rows, next, changes>>
  BY DEF WalksInv, Walks!AnswerPage
<1> DEFINE last == req.page >= Walks!TotalPages(req.total, req.limit) \/ req.kind = "export"
           both == walk.seen \o req.items
<1>2. /\ req' = [req EXCEPT !.sent = "answered"] /\ walk' = [walk EXCEPT !.seen = both, !.over = last]
      /\ req.sent = "asked" /\ req.items # NoExecution /\ req.total # NoExecution
  BY DEF Walks!AnswerPage, Walks!Answered
<1>3. req.kind # "export" /\ last \in BOOLEAN
  BY DEF Listed
<1>4. req.items \in Seq(ReadRows) /\ walk.seen \in Seq(ReadRows)
  BY <1>1, <1>2 DEF WalkTypes
<1>5. /\ both \in Seq(ReadRows) /\ Len(both) = Len(walk.seen) + Len(req.items)
      /\ \A k \in 1..Len(both) : both[k] = IF k <= Len(walk.seen) THEN walk.seen[k] ELSE req.items[k - Len(walk.seen)]
      /\ Len(walk.seen) \in Nat /\ Len(req.items) \in Nat
      /\ DOMAIN walk.seen = 1..Len(walk.seen) /\ DOMAIN req.items = 1..Len(req.items) /\ DOMAIN both = 1..Len(both)
  <2> DEFINE x == walk.seen
             y == req.items
  <2>1. x \in Seq(ReadRows) /\ y \in Seq(ReadRows)
    BY <1>4
  <2>2. both = x \o y
    OBVIOUS
  <2> HIDE DEF x, y, both
  <2>3. /\ x \o y \in Seq(ReadRows) /\ Len(x \o y) = Len(x) + Len(y)
        /\ \A k \in 1 .. Len(x) + Len(y) : (x \o y)[k] = IF k <= Len(x) THEN x[k] ELSE y[k - Len(x)]
    BY <2>1, ConcatProperties
  <2>4. Len(x) \in Nat /\ Len(y) \in Nat /\ DOMAIN x = 1..Len(x) /\ DOMAIN y = 1..Len(y)
    BY <2>1, LenProperties
  <2>5. DOMAIN both = 1..Len(both)
    BY <2>2, <2>3, LenProperties
  <2> QED BY <2>2, <2>3, <2>4, <2>5 DEF x, y
<1> HIDE DEF both, last
<1>6. /\ DOMAIN req' = DOMAIN req /\ DOMAIN walk' = DOMAIN walk
      /\ req'.items = req.items /\ req'.kind = req.kind /\ req'.where = req.where /\ req'.sort = req.sort /\ req'.page = req.page
      /\ req'.limit = req.limit /\ req'.total = req.total /\ req'.sent = "answered"
      /\ walk'.seen = both /\ walk'.began = walk.began /\ walk'.calm = walk.calm /\ walk'.shrank = walk.shrank
      /\ walk'.over = last /\ walk'.sampled = walk.sampled
  BY <1>1, <1>2 DEF WalkTypes
<1> DEFINE old == Len(walk.seen)
           new == Len(req.items)
<1>7. old \in Nat /\ new \in Nat /\ DOMAIN walk.seen = 1..old /\ DOMAIN req.items = 1..new /\ DOMAIN both = 1..(old + new) /\ Len(both) = old + new
  BY <1>5
<1>8. \A k \in 1..(old + new) : both[k] = IF k <= old THEN walk.seen[k] ELSE req.items[k - old]
  BY <1>5
<1> HIDE DEF old, new
<1>9. /\ \A k \in 1..old : k \in 1..(old + new) /\ both[k] = walk.seen[k]
      /\ \A k \in 1..new : old + k \in 1..(old + new) /\ both[old + k] = req.items[k]
      /\ \A k \in 1..(old + new) : (k \in 1..old /\ both[k] = walk.seen[k]) \/ (k - old \in 1..new /\ both[k] = req.items[k - old])
  <2>1. ASSUME NEW k \in 1..old PROVE k \in 1..(old + new) /\ k <= old
    BY <1>7
  <2>2. ASSUME NEW k \in 1..new PROVE old + k \in 1..(old + new) /\ ~(old + k <= old) /\ (old + k) - old = k
    BY <1>7
  <2>3. ASSUME NEW k \in 1..(old + new) PROVE (k <= old /\ k \in 1..old) \/ (~(k <= old) /\ k - old \in 1..new)
    BY <1>7
  <2> QED BY <1>8, <2>1, <2>2, <2>3
<1>10. Walks!Ids(both) = Fetched
  <2>1. /\ \A x : x \in Walks!Ids(both) <=> \E k \in 1..(old + new) : x = both[k].id
        /\ \A x : x \in Walks!Ids(walk.seen) <=> \E k \in 1..old : x = walk.seen[k].id
        /\ \A x : x \in Walks!Ids(req.items) <=> \E k \in 1..new : x = req.items[k].id
    BY <1>7 DEF Walks!Ids
  <2>2. ASSUME NEW x \in Walks!Ids(both) PROVE x \in Walks!Ids(walk.seen) \cup Walks!Ids(req.items)
    <3>1. PICK k \in 1..(old + new) : x = both[k].id
      BY <2>1
    <3>2. (k \in 1..old /\ both[k] = walk.seen[k]) \/ (k - old \in 1..new /\ both[k] = req.items[k - old])
      BY <1>9
    <3> QED BY <2>1, <3>1, <3>2
  <2>3. ASSUME NEW x \in Walks!Ids(walk.seen) PROVE x \in Walks!Ids(both)
    <3>1. PICK k \in 1..old : x = walk.seen[k].id
      BY <2>1
    <3>2. k \in 1..(old + new) /\ both[k] = walk.seen[k]
      BY <1>9
    <3> QED BY <2>1, <3>1, <3>2
  <2>4. ASSUME NEW x \in Walks!Ids(req.items) PROVE x \in Walks!Ids(both)
    <3>1. PICK k \in 1..new : x = req.items[k].id
      BY <2>1
    <3>2. old + k \in 1..(old + new) /\ both[old + k] = req.items[k]
      BY <1>9
    <3> QED BY <2>1, <3>1, <3>2
  <2>5. Fetched = Walks!Ids(walk.seen) \cup Walks!Ids(req.items)
    BY <1>2 DEF Fetched
  <2> QED BY <2>2, <2>3, <2>4, <2>5
<1>11. Listed' /\ Skipped' = Skipped /\ Done = Skipped /\ Done' = Skipped + req.limit
  <2>1. Listed' /\ Skipped' = Skipped
    BY <1>6 DEF Listed, Skipped
  <2> QED BY <1>2, <1>6, <2>1 DEF Done
<1>12. Walks!Matching(req.where)' = Walks!Matching(req.where)
  BY <1>1, <1>6, SameMatching
<1>13. Walks!Ids(walk.seen)' = Fetched /\ Fetched' = Fetched
  <2>1. Walks!Ids(walk.seen)' = Walks!Ids(both)
    BY <1>6 DEF Walks!Ids
  <2>2. Walks!Ids(req.items)' = Walks!Ids(req.items)
    BY <1>6 DEF Walks!Ids
  <2> QED BY <1>2, <1>6, <1>10, <2>1, <2>2 DEF Fetched
<1>14. WalkTypes'
  BY <1>1, <1>3, <1>4, <1>5, <1>6 DEF WalkTypes, Listed, TableInv, Table
<1>15. WalkExact'
  <2> SUFFICES ASSUME walk.calm PROVE WalkExact'
    BY <1>6 DEF WalkExact
  <2> DEFINE all == Walks!Newest(walk.began)
             n == Len(all)
  <2>1. /\ Walks!Matching(req.where) = walk.began
        /\ Len(walk.seen) = (IF Skipped <= n THEN Skipped ELSE n)
        /\ \A k \in 1..Len(walk.seen) : walk.seen[k] = all[k]
        /\ req.items = Walks!Slice(all, Skipped, req.limit)
        /\ ~walk.sampled => req.total = n
    BY <1>2, <1>11 DEF WalksInv, WalkExact
  <2>2. Skipped \in Nat /\ req.limit \in Nat \ {0} /\ req.page \in Nat \ {0} /\ all \in Seq(ReadRows) /\ n \in Nat
        /\ Skipped + req.limit = req.page * req.limit
    BY <1>1, WalkNumbers
  <2> HIDE DEF all
  <2>3. /\ Len(req.items) = IF Skipped >= n THEN 0 ELSE IF Skipped + req.limit <= n THEN req.limit ELSE n - Skipped
        /\ \A k \in 1..Len(req.items) : req.items[k] = all[Skipped + k]
    <3>1. all \in Seq(ReadRows) /\ Skipped \in Nat /\ req.limit \in Nat
      BY <2>2
    <3> DEFINE p == Walks!Slice(all, Skipped, req.limit)
    <3>2. /\ Len(p) = IF Skipped >= Len(all) THEN 0 ELSE IF Skipped + req.limit <= Len(all) THEN req.limit ELSE Len(all) - Skipped
          /\ \A k \in 1..Len(p) : p[k] = all[Skipped + k]
      BY <3>1, SliceItems
    <3> QED BY <2>1, <3>2
  <2> HIDE DEF n
  <2>4. Len(both) = (IF Skipped + req.limit <= n THEN Skipped + req.limit ELSE n)
    BY <1>5, <2>1, <2>2, <2>3
  <2>5. \A k \in 1..(old + new) : both[k] = all[k]
    <3> TAKE k \in 1..(old + new)
    <3>0. (k \in 1..old /\ both[k] = walk.seen[k]) \/ (k - old \in 1..new /\ both[k] = req.items[k - old])
      BY <1>9
    <3>1. CASE k \in 1..old /\ both[k] = walk.seen[k]
      BY <2>1, <3>1 DEF old
    <3>2. CASE k - old \in 1..new /\ both[k] = req.items[k - old]
      <4>1. old = Skipped
        <5>1. new # 0
          BY <1>7, <3>2
        <5> QED BY <2>1, <2>2, <2>3, <5>1 DEF old, new
      <4>2. Skipped + (k - old) = k
        BY <2>2, <4>1
      <4> QED BY <2>3, <3>2, <4>2 DEF new
    <3> QED BY <3>0, <3>1, <3>2
  <2>6. ~walk.sampled /\ last => Skipped + req.limit >= n
    BY <1>3, <2>1, <2>2, LastPageIsLast DEF last
  <2>7. all = Walks!Newest(walk.began) /\ n = Len(all)
    BY DEF all, n
  <2> QED BY <1>6, <1>11, <1>12, <1>7, <2>1, <2>4, <2>5, <2>6, <2>7 DEF WalkExact
<1>16. WalkDense'
  <2> SUFFICES ASSUME ~walk.shrank PROVE WalkDense'
    BY <1>6 DEF WalkDense
  <2>1. /\ \A b \in walk.began : \E e \in Walks!Matching(req.where) : e.id = b.id
        /\ \A b \in walk.began : Walks!Place(b.id, Walks!Matching(req.where)) <= Skipped + req.limit => b.id \in Fetched
        /\ \A d, e \in walk.began : d.id < e.id /\ d.id \in Fetched => e.id \in Fetched
    BY <1>2 DEF WalksInv, WalkDense
  <2> QED BY <1>6, <1>11, <1>12, <1>13, <2>1 DEF WalkDense
<1> QED BY <1>14, <1>15, <1>16 DEF WalksInv

\* The next page is asked for where the last one ended.
LEMMA WalkTurns ==
  ASSUME WalksInv, Walks!NextPage, Listed
  PROVE  WalksInv'
<1>1. WalkTypes /\ UNCHANGED <<rows, next, walk, changes>> /\ req.sent = "answered"
      /\ req' = Walks!Request(req.kind, req.user, req.where, req.sort, req.page + 1, req.limit)
  BY DEF WalksInv, Walks!NextPage
<1>2. /\ {"kind", "where", "sort", "page", "limit", "items", "total", "sent"} \subseteq DOMAIN req'
      /\ req'.items = NoExecution /\ req'.total = NoExecution /\ req'.sent = "asked"
      /\ req'.kind = req.kind /\ req'.where = req.where /\ req'.sort = req.sort /\ req'.page = req.page + 1
      /\ req'.limit = req.limit
  BY <1>1 DEF Walks!Request
<1>3. Listed' /\ Skipped' = Done /\ Done' = Done
  <2>1. Listed'
    BY <1>2 DEF Listed
  <2>2. req.page \in Nat /\ req.limit \in Nat /\ Skipped + req.limit = req.page * req.limit
    BY <1>1, WalkNumbers
  <2>3. Skipped' = ((req.page + 1) - 1) * req.limit
    BY <1>2 DEF Skipped, Walks!Skip
  <2>4. (req.page + 1) - 1 = req.page
    BY <2>2
  <2>5. Done = req.page * req.limit
    BY <1>1, <2>2 DEF Done
  <2>6. Done' = Skipped'
    BY <1>2 DEF Done
  <2> QED BY <2>1, <2>3, <2>4, <2>5, <2>6
<1>4. Walks!Matching(req.where)' = Walks!Matching(req.where) /\ Walks!Ids(walk.seen)' = Walks!Ids(walk.seen)
  <2>1. rows' = rows /\ req'.where = req.where
    BY <1>1, <1>2
  <2> QED BY <1>1, <2>1, SameMatching
<1>5. WalkTypes'
  <2>1. req.page + 1 \in Nat \ {0}
    BY <1>1, WalkNumbers
  <2> QED BY <1>1, <1>2, <2>1 DEF WalkTypes, Listed, TableInv, Table
<1>6. WalkExact'
  BY <1>1, <1>2, <1>3, <1>4 DEF WalksInv, WalkExact
<1>7. WalkDense'
  BY <1>1, <1>2, <1>3, <1>4 DEF WalksInv, WalkDense
<1> QED BY <1>5, <1>6, <1>7 DEF WalksInv

LEMMA WalkAsks ==
  ASSUME WalkTypes, NEW u \in {u1, u2}, Walks!Ask(u)
  PROVE  WalksInv'
<1>1. ASSUME NEW kind \in {"list", "workflow"}, NEW where, NEW l \in WalkLimits
      PROVE  /\ Walks!Start(Walks!Request(kind, u, where, "startedAt", 1, Walks!Clamp(l))) => WalksInv'
             /\ \A f : Walks!Guarded(f, u, Walks!Request(kind, u, where, "startedAt", 1, Walks!Clamp(l))) => WalksInv'
  <2> DEFINE r == Walks!Request(kind, u, where, "startedAt", 1, Walks!Clamp(l))
             Fit(s) == /\ {"kind", "where", "sort", "page", "limit", "items", "total", "sent"} \subseteq DOMAIN s
                       /\ s.kind \in {"list", "workflow"} /\ s.sort = "startedAt" /\ s.page = 1 /\ s.limit \in 1..WalkTake
                       /\ s.items = NoExecution /\ s.total = NoExecution /\ s.sent \in {"asked", "refused"}
  <2>1. Fit(r) /\ "sent" \in DOMAIN r
    BY WalkLimitIsPage DEF Walks!Request
  <2> HIDE DEF r
  <2>2. Fit([r EXCEPT !.sent = "refused"])
    BY <2>1
  <2>3. Walks!Start(r) => WalksInv'
    BY <2>1, WalkStarts
  <2>4. Walks!Start([r EXCEPT !.sent = "refused"]) => WalksInv'
    BY <2>2, WalkStarts
  <2>5. ASSUME NEW f, Walks!Guarded(f, u, r) PROVE Walks!Start(r) \/ Walks!Start([r EXCEPT !.sent = "refused"])
    BY <2>5 DEF Walks!Guarded
  <2> QED BY <2>3, <2>4, <2>5 DEF r
<1>2. \/ \E filter \in Walks!Filters, l \in WalkLimits : Walks!GetExecutions(u, filter, "startedAt", l)
      \/ \E f \in {f1, f2}, l \in WalkLimits : Walks!GetWorkflowExecutions(f, u, "startedAt", l)
  BY DEF Walks!Ask
<1>3. CASE \E filter \in Walks!Filters, l \in WalkLimits : Walks!GetExecutions(u, filter, "startedAt", l)
  BY <1>1, <1>3 DEF Walks!GetExecutions
<1>4. CASE \E f \in {f1, f2}, l \in WalkLimits : Walks!GetWorkflowExecutions(f, u, "startedAt", l)
  BY <1>1, <1>4 DEF Walks!GetWorkflowExecutions
<1> QED BY <1>2, <1>3, <1>4

LEMMA NextWalksInv ==
  ASSUME WalksInv, Walks!Next
  PROVE  WalksInv'
<1>1. WalkTypes /\ req.kind \in {"recent", "list", "workflow"} /\ (req.kind = "recent" => req.sent = "answered")
  BY DEF WalksInv, WalkTypes
<1>2. CASE \/ \E f \in {f1, f2} : Walks!Trigger(f)
           \/ \E e \in rows : Walks!Delete(e) \/ \E s \in {"SUCCESS", "FAILED"} : Walks!Finish(e, s)
  BY <1>2, WalkChangesInv
<1>3. CASE \E u \in {u1, u2} : Walks!Ask(u)
  BY <1>1, <1>3, WalkAsks
<1>4. CASE Walks!QueryPage
  BY <1>4, WalkQueriesPage
<1>5. CASE Walks!QueryTotal \/ Walks!QueryWhole
  BY <1>5, WalkCounts
<1>6. CASE Walks!AnswerPage
  BY <1>1, <1>6, WalkAnswers DEF Walks!AnswerPage, Listed
<1>7. CASE Walks!NextPage
  BY <1>1, <1>7, WalkTurns DEF Walks!NextPage, Walks!Lists, Listed
<1>8. ~Walks!QueryRecent /\ ~Walks!QueryRunning /\ ~Walks!QueryDays /\ \A c : ~Walks!QueryCount(c)
  BY <1>1 DEF Walks!QueryRecent, Walks!QueryRunning, Walks!QueryDays, Walks!QueryCount
<1> QED BY <1>2, <1>3, <1>4, <1>5, <1>6, <1>7, <1>8 DEF Walks!Next

LEMMA InitWalksInv == Walks!Init => WalksInv
<1> SUFFICES ASSUME Walks!Init PROVE WalksInv
  OBVIOUS
<1>1. WalkRows \in Nat
  BY ReadAssumptions DEF Walks!ListingAssumption
<1>2. TableInv
  <2>1. PICK n \in 0 .. WalkRows : \E f \in [1..n -> {f1, f2}], s \in [1..n -> {"RUNNING", "SUCCESS", "FAILED"}] :
          rows = {[id |-> i, workflowId |-> f[i], status |-> s[i]] : i \in 1..n} /\ next = n + 1
    BY DEF Walks!Init, Walks!Statuses
  <2>2. n \in Nat
    BY <1>1
  <2> QED BY <2>1, <2>2, TableStarts
<1>3. /\ {"kind", "where", "sort", "page", "limit", "items", "total", "sent"} \subseteq DOMAIN req
      /\ req.kind = "recent" /\ req.sort = "startedAt" /\ req.sent = "answered"
  BY DEF Walks!Init, Walks!Answered, Walks!Request
<1>4. walk = [seen |-> <<>>, began |-> {}, calm |-> TRUE, shrank |-> FALSE, sampled |-> FALSE, over |-> TRUE]
  BY DEF Walks!Init
<1>5. {} \in Tables
  BY FS_EmptySet DEF Tables, Table
<1> QED BY <1>2, <1>3, <1>4, <1>5 DEF WalksInv, WalkTypes, WalkExact, WalkDense, Listed

\* Where the last page is reached, the newest shown are all there were.
LEMMA WalksAgree == WalksInv => Walks!WalkComplete /\ Walks!NoHole
<1> SUFFICES ASSUME WalksInv PROVE Walks!WalkComplete /\ Walks!NoHole
  OBVIOUS
<1>1. WalkTypes /\ (req.kind \in {"list", "workflow", "export"} => Listed)
  BY DEF WalksInv, WalkTypes, Listed
<1>2. Walks!NoHole
  BY <1>1 DEF Walks!NoHole, Walks!Lists, WalksInv, WalkDense
<1>3. ASSUME Walks!Walked, walk.calm, ~walk.sampled PROVE walk.seen = Walks!Newest(walk.began)
  <2> DEFINE all == Walks!Newest(walk.began)
  <2>1. Listed /\ req.sent = "answered" /\ walk.over
    BY <1>1, <1>3 DEF Walks!Walked, Walks!Lists
  <2>2. all \in Seq(ReadRows) /\ walk.seen \in Seq(ReadRows) /\ Len(all) \in Nat /\ Done \in Nat
    BY <1>1, <2>1, WalkNumbers DEF WalkTypes
  <2>3. /\ Len(walk.seen) = (IF Done <= Len(all) THEN Done ELSE Len(all)) /\ Done >= Len(all)
        /\ \A k \in 1..Len(walk.seen) : walk.seen[k] = all[k]
    BY <1>3, <2>1 DEF WalksInv, WalkExact
  <2> HIDE DEF all
  <2>4. Len(walk.seen) = Len(all)
    BY <2>2, <2>3
  <2>5. walk.seen = all
    BY <2>2, <2>3, <2>4, SeqEqual
  <2> QED BY <2>5 DEF all
<1>4. Walks!WalkComplete
  BY <1>3 DEF Walks!WalkComplete
<1> QED BY <1>2, <1>4

-----------------------------------------------------------------------------
(***************************************************************************)
(* The counts of an analysis (ExecutionListing, here Counts).              *)
(***************************************************************************)

\* Analytics filter by user or by workflow; while nothing changes, each count is that of the
\* table, and the answer is given when none is missing.
CountsInv ==
  /\ TableInv
  /\ {"kind", "where", "items", "counts", "sent"} \subseteq DOMAIN req /\ "calm" \in DOMAIN walk
  /\ req.kind \in {"recent", "analytics"} /\ (req.kind = "recent" => req.sent = "answered")
  /\ req.sent \in {"asked", "refused", "answered"}
  /\ DOMAIN req.counts = Counts!Counts
  /\ req.kind = "analytics" =>
       /\ req.items = NoExecution /\ DOMAIN req.where \subseteq {"userId", "workflowId"}
       /\ req.sent = "answered" => \A c \in Counts!Counts : req.counts[c] # NoExecution
       /\ walk.calm => \A c \in Counts!Counts :
            req.counts[c] # NoExecution => req.counts[c] = Counts!Counted(c, req.where)

LEMMA SameCounted ==
  ASSUME rows' = rows, req'.where = req.where, NEW c \in Counts!Counts
  PROVE  Counts!Counted(c, req.where)' = Counts!Counted(c, req.where)
<1>1. \A w : Counts!Matching(w)' = Counts!Matching(w)
  BY DEF Counts!Matching, Counts!Matches
<1>2. \A w : Counts!Count(w)' = Counts!Count(w)
  BY <1>1 DEF Counts!Count
<1>3. \A w, s : Counts!With(w, s)' = Counts!With(w, s)
  BY <1>2 DEF Counts!With
<1>4. \A w : Counts!Groups(w)' = Counts!Groups(w)
  BY <1>3 DEF Counts!Groups
<1> QED BY <1>2, <1>3, <1>4 DEF Counts!Counted

LEMMA CountStarts ==
  ASSUME CountsInv, NEW r, Counts!Start(r),
         {"kind", "where", "items", "counts", "sent"} \subseteq DOMAIN r,
         r.kind = "analytics", DOMAIN r.where \subseteq {"userId", "workflowId"},
         r.items = NoExecution, r.counts = Counts!NoCounts, r.sent \in {"asked", "refused"}
  PROVE  CountsInv'
<1>1. /\ req' = r /\ UNCHANGED <<rows, next, changes>> /\ "calm" \in DOMAIN walk'
  BY DEF Counts!Start
<1>2. DOMAIN r.counts = Counts!Counts /\ \A c \in Counts!Counts : r.counts[c] = NoExecution
  BY DEF Counts!NoCounts
<1> QED BY <1>1, <1>2 DEF CountsInv, TableInv, Table

\* The filter of an analysis names no status.
LEMMA CountAsks ==
  ASSUME CountsInv, NEW u \in {u1, u2}, Counts!Ask(u)
  PROVE  CountsInv'
<1>1. ASSUME NEW where, DOMAIN where \subseteq {"userId", "workflowId"}
      PROVE  /\ Counts!Start(Counts!Request("analytics", u, where, "startedAt", 1, 0)) => CountsInv'
             /\ \A f : Counts!Guarded(f, u, Counts!Request("analytics", u, where, "startedAt", 1, 0)) => CountsInv'
  <2> DEFINE r == Counts!Request("analytics", u, where, "startedAt", 1, 0)
             Fit(s) == /\ {"kind", "where", "items", "counts", "sent"} \subseteq DOMAIN s
                       /\ s.kind = "analytics" /\ s.where = where
                       /\ s.items = NoExecution /\ s.counts = Counts!NoCounts /\ s.sent \in {"asked", "refused"}
  <2>1. Fit(r) /\ "sent" \in DOMAIN r
    BY DEF Counts!Request
  <2> HIDE DEF r
  <2>2. Fit([r EXCEPT !.sent = "refused"])
    BY <2>1
  <2>3. Counts!Start(r) => CountsInv'
    BY <1>1, <2>1, CountStarts
  <2>4. Counts!Start([r EXCEPT !.sent = "refused"]) => CountsInv'
    BY <1>1, <2>2, CountStarts
  <2>5. ASSUME NEW f, Counts!Guarded(f, u, r) PROVE Counts!Start(r) \/ Counts!Start([r EXCEPT !.sent = "refused"])
    BY <2>5 DEF Counts!Guarded
  <2> QED BY <2>3, <2>4, <2>5 DEF r
<1>2. Counts!GetUserAnalytics(u) \/ \E f \in {f1, f2} : Counts!GetWorkflowAnalytics(f, u)
  BY DEF Counts!Ask
<1>3. CASE Counts!GetUserAnalytics(u)
  <2>1. DOMAIN [userId |-> u] \subseteq {"userId", "workflowId"}
    OBVIOUS
  <2> DEFINE w == [userId |-> u]
  <2>2. Counts!Start(Counts!Request("analytics", u, w, "startedAt", 1, 0))
    BY <1>3 DEF Counts!GetUserAnalytics
  <2> HIDE DEF w
  <2> QED BY <1>1, <2>1, <2>2 DEF w
<1>4. CASE \E f \in {f1, f2} : Counts!GetWorkflowAnalytics(f, u)
  <2>1. PICK f \in {f1, f2} : Counts!GetWorkflowAnalytics(f, u)
    BY <1>4
  <2> DEFINE w == [workflowId |-> f]
  <2>2. DOMAIN w \subseteq {"userId", "workflowId"}
    OBVIOUS
  <2>3. Counts!Guarded(f, u, Counts!Request("analytics", u, w, "startedAt", 1, 0))
    BY <2>1 DEF Counts!GetWorkflowAnalytics
  <2> HIDE DEF w
  <2> QED BY <1>1, <2>2, <2>3
<1> QED BY <1>2, <1>3, <1>4

LEMMA NextCountsInv ==
  ASSUME CountsInv, Counts!Next
  PROVE  CountsInv'
<1>1. CASE \/ \E f \in {f1, f2} : Counts!Trigger(f)
           \/ \E e \in rows : Counts!Delete(e) \/ \E s \in {"SUCCESS", "FAILED"} : Counts!Finish(e, s)
  <2>1. TableInv'
    <3>1. TableInv
      BY DEF CountsInv
    <3>2. RowComes \/ RowEnds \/ RowGoes
      BY <1>1 DEF Counts!Trigger, Counts!Delete, Counts!Finish, RowComes, RowEnds, RowGoes
    <3> QED BY <3>1, <3>2, TableChanges
  <2>2. PICK b : req' = req /\ walk' = [walk EXCEPT !.calm = FALSE, !.shrank = b]
    BY <1>1 DEF Counts!Trigger, Counts!Delete, Counts!Finish, Counts!Watch
  <2> QED BY <2>1, <2>2 DEF CountsInv
<1>2. CASE \E u \in {u1, u2} : Counts!Ask(u)
  BY <1>2, CountAsks
<1>3. CASE \E c \in Counts!Counts : Counts!QueryCount(c)
  <2>1. PICK c \in Counts!Counts : Counts!QueryCount(c)
    BY <1>3
  <2>2. /\ req' = [req EXCEPT !.counts[c] = Counts!Counted(c, req.where)] /\ UNCHANGED <<rows, next, walk, changes>>
        /\ req.kind = "analytics" /\ req.sent = "asked"
    BY <2>1 DEF Counts!QueryCount
  <2> DEFINE x == Counts!Counted(c, req.where)
  <2>3. /\ DOMAIN req' = DOMAIN req /\ req'.kind = req.kind /\ req'.where = req.where /\ req'.items = req.items
        /\ req'.sent = req.sent /\ req'.counts = [req.counts EXCEPT ![c] = x]
    <3> HIDE DEF x
    <3>1. req' = [req EXCEPT !.counts = [req.counts EXCEPT ![c] = x]]
      BY <2>2 DEF x
    <3> QED BY <3>1 DEF CountsInv
  <2>4. \A d \in Counts!Counts : Counts!Counted(d, req.where)' = Counts!Counted(d, req.where)
    BY <2>2, <2>3, SameCounted
  <2>5. DOMAIN req'.counts = Counts!Counts /\ \A d \in Counts!Counts : req'.counts[d] = IF d = c THEN x ELSE req.counts[d]
    <3> HIDE DEF x
    <3> QED BY <2>3 DEF CountsInv
  <2>6. TableInv'
    BY <2>2 DEF CountsInv, TableInv, Table
  <2> QED BY <2>2, <2>3, <2>4, <2>5, <2>6 DEF CountsInv
<1>4. CASE Counts!QueryDays
  <2>1. /\ req' = [req EXCEPT !.sent = "answered"] /\ UNCHANGED <<rows, next, walk, changes>>
        /\ req.kind = "analytics" /\ \A c \in Counts!Counts : req.counts[c] # NoExecution
    BY <1>4 DEF Counts!QueryDays, Counts!Answered
  <2>2. /\ DOMAIN req' = DOMAIN req /\ req'.kind = req.kind /\ req'.where = req.where /\ req'.items = req.items
        /\ req'.counts = req.counts
    BY <2>1 DEF CountsInv
  <2>3. \A d \in Counts!Counts : Counts!Counted(d, req.where)' = Counts!Counted(d, req.where)
    BY <2>1, <2>2, SameCounted
  <2>4. TableInv'
    BY <2>1 DEF CountsInv, TableInv, Table
  <2> QED BY <2>1, <2>2, <2>3, <2>4 DEF CountsInv
<1>5. ~Counts!QueryPage /\ ~Counts!QueryTotal /\ ~Counts!NextPage /\ ~Counts!QueryRecent /\ ~Counts!QueryRunning
  BY DEF CountsInv, Counts!QueryPage, Counts!QueryTotal, Counts!NextPage, Counts!QueryRecent, Counts!QueryRunning, Counts!Lists
<1>6. ~Counts!AnswerPage /\ ~Counts!QueryWhole
  BY DEF CountsInv, Counts!AnswerPage, Counts!QueryWhole
<1> QED BY <1>1, <1>2, <1>3, <1>4, <1>5, <1>6 DEF Counts!Next

LEMMA InitCountsInv == Counts!Init => CountsInv
<1> SUFFICES ASSUME Counts!Init PROVE CountsInv
  OBVIOUS
<1>1. WalkRows \in Nat
  BY ReadAssumptions DEF Counts!ListingAssumption
<1>2. TableInv
  <2>1. PICK n \in 0 .. WalkRows : \E f \in [1..n -> {f1, f2}], s \in [1..n -> {"RUNNING", "SUCCESS", "FAILED"}] :
          rows = {[id |-> i, workflowId |-> f[i], status |-> s[i]] : i \in 1..n} /\ next = n + 1
    BY DEF Counts!Init, Counts!Statuses
  <2>2. n \in Nat
    BY <1>1
  <2> QED BY <2>1, <2>2, TableStarts
<1>3. /\ {"kind", "where", "items", "counts", "sent"} \subseteq DOMAIN req
      /\ req.kind = "recent" /\ req.sent = "answered" /\ req.counts = Counts!NoCounts
  BY DEF Counts!Init, Counts!Answered, Counts!Request
<1>4. "calm" \in DOMAIN walk
  BY DEF Counts!Init
<1> QED BY <1>2, <1>3, <1>4 DEF CountsInv, Counts!NoCounts

\* A count by status is one of the executions of the filter that have it.
LEMMA StatusCounts ==
  ASSUME NEW where, DOMAIN where \subseteq {"userId", "workflowId"}, NEW s \in {"RUNNING", "SUCCESS", "FAILED"}
  PROVE  Counts!With(where, s) = Cardinality({e \in Counts!Matching(where) : e.status = s})
<1> DEFINE w == Counts!Extend(where, "status", s)
<1>1. /\ DOMAIN w = DOMAIN where \cup {"status"} /\ w["status"] = s
      /\ \A k \in DOMAIN where : w[k] = where[k]
  BY DEF Counts!Extend
<1> HIDE DEF w
<1>2. ASSUME NEW e \in rows PROVE Counts!Matches(e, w) <=> Counts!Matches(e, where) /\ e.status = s
  <2>1. Counts!Matches(e, w) <=>
          /\ "userId" \in DOMAIN w => MCOwner[e.workflowId] = w["userId"]
          /\ "workflowId" \in DOMAIN w => e.workflowId = w["workflowId"]
          /\ "status" \in DOMAIN w => e.status = w["status"]
    BY <1>1 DEF Counts!Matches
  <2>2. Counts!Matches(e, where) <=>
          /\ "userId" \in DOMAIN where => MCOwner[e.workflowId] = where["userId"]
          /\ "workflowId" \in DOMAIN where => e.workflowId = where["workflowId"]
    BY DEF Counts!Matches
  <2> QED BY <1>1, <2>1, <2>2
<1>3. Counts!Matching(w) = {e \in Counts!Matching(where) : e.status = s}
  BY <1>2 DEF Counts!Matching
<1>4. Counts!With(where, s) = Counts!Cardinality(Counts!Matching(w))
  BY DEF Counts!With, Counts!Count, w
<1> QED BY <1>3, <1>4, SameCardinality

\* Every execution has one of three statuses.
LEMMA StatusesAddUp ==
  ASSUME NEW M \in Tables
  PROVE  LET N(s) == Cardinality({e \in M : e.status = s})
         IN  /\ N("RUNNING") \in Nat /\ N("SUCCESS") \in Nat /\ N("FAILED") \in Nat
             /\ Cardinality(M) = N("RUNNING") + N("SUCCESS") + N("FAILED")
<1> DEFINE A == {e \in M : e.status = "RUNNING"}
           B == {e \in M : e.status = "SUCCESS"}
           C == {e \in M : e.status = "FAILED"}
<1>1. IsFiniteSet(M) /\ A \in SUBSET M /\ B \in SUBSET M /\ C \in SUBSET M
  BY DEF Tables, Table
<1>2. A \cap B = {} /\ (A \cup B) \cap C = {} /\ (A \cup B) \cup C = M
  BY DEF Tables, Table, ReadRows
<1> HIDE DEF A, B, C
<1>3. IsFiniteSet(A) /\ IsFiniteSet(B) /\ IsFiniteSet(C)
  BY <1>1, FS_Subset
<1>4. Cardinality(A) \in Nat /\ Cardinality(B) \in Nat /\ Cardinality(C) \in Nat
  BY <1>3, FS_CardinalityType
<1>5. IsFiniteSet(A \cup B) /\ Cardinality(A \cup B) = Cardinality(A) + Cardinality(B)
  <2>1. IsFiniteSet(A \cup B) /\ Cardinality(A \cup B) = Cardinality(A) + Cardinality(B) - Cardinality(A \cap B)
    BY <1>3, FS_Union
  <2>2. Cardinality(A \cap B) = 0
    BY <1>2, FS_EmptySet
  <2> QED BY <1>4, <2>1, <2>2
<1>6. Cardinality(M) = Cardinality(A) + Cardinality(B) + Cardinality(C)
  <2> DEFINE D == A \cup B
  <2>1. IsFiniteSet(D) /\ D \cap C = {} /\ D \cup C = M /\ Cardinality(D) = Cardinality(A) + Cardinality(B)
    BY <1>2, <1>5
  <2> HIDE DEF D
  <2>2. Cardinality(D \cup C) = Cardinality(D) + Cardinality(C) - Cardinality(D \cap C)
    BY <1>3, <2>1, FS_Union
  <2>3. Cardinality(D \cap C) = 0
    BY <2>1, FS_EmptySet
  <2>4. Cardinality(D) = Cardinality(A) + Cardinality(B)
    BY <2>1
  <2>5. Cardinality(M) = Cardinality(D \cup C)
    BY <2>1
  <2> QED BY <1>4, <2>2, <2>3, <2>4, <2>5
<1> QED BY <1>4, <1>6 DEF A, B, C

\* A part of a whole is at most all of it.
LEMMA PartIsPercent ==
  ASSUME NEW a \in Nat, NEW b \in Nat, a <= b, b > 0
  PROVE  (a * 100) \div b \in 0..100
<1> DEFINE q == (a * 100) \div b
<1>1. q \in Nat /\ b * q <= a * 100
  OBVIOUS
<1> HIDE DEF q
<1>2. ASSUME q >= 101 PROVE FALSE
  <2>1. q = 101 + (q - 101) /\ q - 101 \in Nat
    BY <1>1, <1>2
  <2>2. \A x \in Nat : b * (101 + x) = b * 101 + b * x /\ b * x \in Nat
    OBVIOUS
  <2>3. b * (101 + (q - 101)) = b * 101 + b * (q - 101) /\ b * (q - 101) \in Nat
    BY <2>1, <2>2
  <2>4. b * q >= b * 101
    BY <2>1, <2>3
  <2> QED BY <1>1, <2>4
<1>3. q \in 0..100
  BY <1>1, <1>2
<1> QED BY <1>3 DEF q

\* The counts of one table agree.
LEMMA CountsAgreeAll == CountsInv => Counts!CountsAgree
<1> SUFFICES ASSUME CountsInv, req.kind = "analytics", req.sent = "answered", walk.calm
             PROVE  /\ req.counts.total = req.counts.groups["RUNNING"] + req.counts.groups["SUCCESS"] + req.counts.groups["FAILED"]
                    /\ req.counts.success = req.counts.groups["SUCCESS"] /\ req.counts.failed = req.counts.groups["FAILED"]
                    /\ Counts!SuccessRate(req.counts) \in 0..100
  BY DEF Counts!CountsAgree
<1> DEFINE w == req.where
           M == Counts!Matching(w)
           N(s) == Cardinality({e \in M : e.status = s})
<1>1. /\ DOMAIN w \subseteq {"userId", "workflowId"}
      /\ \A c \in Counts!Counts : req.counts[c] = Counts!Counted(c, w)
  BY DEF CountsInv
<1>2. M \in Tables
  <2>1. M \in SUBSET rows /\ Table(rows)
    BY DEF Counts!Matching, CountsInv, TableInv
  <2> QED BY <2>1, PartIsTable
<1> HIDE DEF w
<1>3. \A s \in {"RUNNING", "SUCCESS", "FAILED"} : Counts!With(w, s) = N(s)
  BY <1>1, StatusCounts
<1>4. Counts!Count(w) = Cardinality(M)
  BY SameCardinality DEF Counts!Count
<1>5. /\ N("RUNNING") \in Nat /\ N("SUCCESS") \in Nat /\ N("FAILED") \in Nat
      /\ Cardinality(M) = N("RUNNING") + N("SUCCESS") + N("FAILED")
  BY <1>2, StatusesAddUp
<1> HIDE DEF M, N
<1>6. /\ req.counts.total = Cardinality(M) /\ req.counts.success = N("SUCCESS") /\ req.counts.failed = N("FAILED")
      /\ req.counts.groups = [s \in {"RUNNING", "SUCCESS", "FAILED"} |-> N(s)]
  BY <1>1, <1>3, <1>4 DEF Counts!Counts, Counts!Counted, Counts!Groups, Counts!Statuses
<1>7. Counts!SuccessRate(req.counts) \in 0..100
  <2>1. Cardinality(M) \in Nat /\ N("SUCCESS") <= Cardinality(M)
    BY <1>5
  <2>2. Cardinality(M) > 0 => (N("SUCCESS") * 100) \div Cardinality(M) \in 0..100
    BY <1>5, <2>1, PartIsPercent
  <2> QED BY <1>6, <2>1, <2>2 DEF Counts!SuccessRate
<1> QED BY <1>5, <1>6, <1>7

\* With the columns as they are, no analysis is answered (here AsIs).
AsIsInv ==
  /\ {"kind", "items", "sent"} \subseteq DOMAIN req /\ req.kind \in {"recent", "list", "analytics"}
  /\ req.kind = "analytics" => req.items = NoExecution /\ req.sent \in {"asked", "refused", "failed"}

LEMMA AsIsAsks == ASSUME NEW u, AsIs!Ask(u) PROVE AsIsInv'
<1>1. ASSUME NEW kind \in {"list", "analytics"}, NEW where, NEW sort, NEW l
      PROVE  /\ AsIs!Start(AsIs!Request(kind, u, where, sort, 1, l)) => AsIsInv'
             /\ \A f : AsIs!Guarded(f, u, AsIs!Request(kind, u, where, sort, 1, l)) => AsIsInv'
  <2> DEFINE r == AsIs!Request(kind, u, where, sort, 1, l)
             Fit(s) == /\ {"kind", "items", "sent"} \subseteq DOMAIN s /\ s.kind = kind
                       /\ s.items = NoExecution /\ s.sent \in {"asked", "refused"}
  <2>1. Fit(r)
    BY DEF AsIs!Request
  <2> HIDE DEF r
  <2>2. Fit([r EXCEPT !.sent = "refused"])
    BY <2>1
  <2>3. \A s : AsIs!Start(s) /\ Fit(s) => AsIsInv'
    BY DEF AsIs!Start, AsIsInv
  <2>4. ASSUME NEW f, AsIs!Guarded(f, u, r) PROVE AsIs!Start(r) \/ AsIs!Start([r EXCEPT !.sent = "refused"])
    BY <2>4 DEF AsIs!Guarded
  <2> QED BY <2>1, <2>2, <2>3, <2>4 DEF r
<1>2. \/ \E filter, sort, l : AsIs!GetExecutions(u, filter, sort, l)
      \/ AsIs!GetUserAnalytics(u)
      \/ \E f : AsIs!GetWorkflowAnalytics(f, u)
  BY DEF AsIs!Ask
<1> QED BY <1>1, <1>2 DEF AsIs!GetExecutions, AsIs!GetUserAnalytics, AsIs!GetWorkflowAnalytics

LEMMA NextAsIsInv == ASSUME AsIsInv, AsIs!Next PROVE AsIsInv'
<1>1. CASE \/ \E f : AsIs!Trigger(f)
           \/ \E e : AsIs!Delete(e) \/ \E s : AsIs!Finish(e, s)
  BY <1>1 DEF AsIs!Trigger, AsIs!Delete, AsIs!Finish, AsIsInv
<1>2. CASE \E u : AsIs!Ask(u)
  BY <1>2, AsIsAsks
<1>3. CASE AsIs!QueryPage
  <2>1. PICK x : req' = [req EXCEPT !.items = x]
    BY <1>3 DEF AsIs!QueryPage
  <2>2. req.kind # "analytics"
    BY <1>3 DEF AsIs!QueryPage, AsIs!Lists
  <2> QED BY <2>1, <2>2 DEF AsIsInv
<1>4. CASE AsIs!QueryTotal \/ AsIs!QueryWhole
  <2>1. PICK x, y : req' = [req EXCEPT !.total = x] \/ req' = [req EXCEPT !.sent = y] \/ req' = [req EXCEPT !.sent = y, !.total = x]
    BY <1>4 DEF AsIs!QueryTotal, AsIs!QueryWhole, AsIs!GetApproximateCount
  <2>2. req.kind # "analytics"
    BY <1>4 DEF AsIs!QueryTotal, AsIs!QueryWhole, AsIs!Lists, AsIsInv
  <2> QED BY <2>1, <2>2 DEF AsIsInv
<1>5. CASE AsIs!AnswerPage
  BY <1>5 DEF AsIs!AnswerPage, AsIs!Answered, AsIsInv
<1>6. CASE AsIs!NextPage
  BY <1>6 DEF AsIs!NextPage, AsIs!Request, AsIs!Lists, AsIsInv
<1>7. CASE AsIs!QueryRecent \/ AsIs!QueryRunning
  <2>1. PICK x : req' = [[req EXCEPT !.sent = "answered"] EXCEPT !.items = x]
    BY <1>7 DEF AsIs!QueryRecent, AsIs!QueryRunning, AsIs!Answered
  <2>2. req.kind # "analytics"
    BY <1>7 DEF AsIs!QueryRecent, AsIs!QueryRunning
  <2> QED BY <2>1, <2>2 DEF AsIsInv
<1>8. CASE \E c : AsIs!QueryCount(c)
  <2>1. PICK x : req' = [req EXCEPT !.counts = x]
    BY <1>8 DEF AsIs!QueryCount
  <2> QED BY <2>1 DEF AsIsInv
<1>9. CASE AsIs!QueryDays
  BY <1>9 DEF AsIs!QueryDays, AsIsInv
<1> QED BY <1>1, <1>2, <1>3, <1>4, <1>5, <1>6, <1>7, <1>8, <1>9 DEF AsIs!Next

PartsInv ==
  /\ part = "walks" => WalksInv
  /\ part = "counts" => CountsInv
  /\ part = "asIs" => AsIsInv

LEMMA NextPartsInv ==
  ASSUME PartsInv, [PartsNext]_<<lifecycleVars, listingVars, part>>
  PROVE  PartsInv'
<1>1. part' = part
  BY DEF PartsNext
<1>2. UNCHANGED listingVars /\ WalksInv => WalksInv'
  <2> SUFFICES ASSUME UNCHANGED listingVars, WalksInv PROVE WalksInv'
    OBVIOUS
  <2>1. rows' = rows /\ next' = next /\ req' = req /\ walk' = walk
    BY DEF listingVars
  <2>2. Walks!Matching(req.where)' = Walks!Matching(req.where)
    BY <2>1, SameMatching
  <2>3. WalkTypes'
    BY <2>1 DEF WalksInv, WalkTypes, TableInv, Table, Listed
  <2>4. WalkExact'
    BY <2>1, <2>2 DEF WalksInv, WalkExact, Listed, Skipped, Done
  <2>5. WalkDense'
    BY <2>1, <2>2 DEF WalksInv, WalkDense, Listed, Skipped, Done, Fetched
  <2> QED BY <2>3, <2>4, <2>5 DEF WalksInv
<1>3. UNCHANGED listingVars /\ CountsInv => CountsInv'
  <2> SUFFICES ASSUME UNCHANGED listingVars, CountsInv PROVE CountsInv'
    OBVIOUS
  <2>1. rows' = rows /\ next' = next /\ req' = req /\ walk' = walk
    BY DEF listingVars
  <2>2. \A c \in Counts!Counts : Counts!Counted(c, req.where)' = Counts!Counted(c, req.where)
    BY <2>1, SameCounted
  <2> QED BY <2>1, <2>2 DEF CountsInv, TableInv, Table
<1>4. UNCHANGED listingVars /\ AsIsInv => AsIsInv'
  BY DEF listingVars, AsIsInv
<1>5. CASE part = "walks"
  <2>1. Walks!Next \/ UNCHANGED listingVars
    BY <1>5 DEF PartsNext
  <2> QED BY <1>1, <1>2, <1>5, <2>1, NextWalksInv DEF PartsInv
<1>6. CASE part = "counts"
  <2>1. Counts!Next \/ UNCHANGED listingVars
    BY <1>6 DEF PartsNext
  <2> QED BY <1>1, <1>3, <1>6, <2>1, NextCountsInv DEF PartsInv
<1>7. CASE part = "asIs"
  <2>1. AsIs!Next \/ UNCHANGED listingVars
    BY <1>7 DEF PartsNext
  <2> QED BY <1>1, <1>4, <1>7, <2>1, NextAsIsInv DEF PartsInv
<1> QED BY <1>1, <1>5, <1>6, <1>7 DEF PartsInv

\* findMany and getAnalytics ask several queries that no transaction holds together.  Whatever
\* comes, ends and goes meanwhile, the pages of a list leave out nobody in the middle; and where
\* nothing does, they are all the filter's executions and the counts are of one table: for
\* tables, pages, samples and numbers of changes of any size.
THEOREM ReadsAlwaysAgree == PartsSpec => []ReadsAgree
<1>1. PartsInit => PartsInv
  <2>1. AsIs!Init => AsIsInv
    BY DEF AsIs!Init, AsIs!Answered, AsIs!Request, AsIsInv
  <2> QED BY <2>1, InitWalksInv, InitCountsInv DEF PartsInit, PartsInv
<1>2. PartsInv /\ [PartsNext]_<<lifecycleVars, listingVars, part>> => PartsInv'
  BY NextPartsInv
<1>3. AsIsInv => Counts!CountsAgree
  BY DEF AsIsInv, Counts!CountsAgree
<1>4. PartsInv => ReadsAgree
  BY <1>3, WalksAgree, CountsAgreeAll DEF PartsInv, ReadsAgree
<1> QED BY <1>1, <1>2, <1>4, PTL DEF PartsSpec
=============================================================================
