----------------------------- MODULE LiveUpdates -----------------------------
(***************************************************************************)
(* How a change of an execution's status reaches the browsers: the writes  *)
(* of ExecutionService and the events each is followed by                  *)
(* (emitExecutionEvent awaits a lookup before it emits), the rooms of      *)
(* socket.io, the subscription handlers, and the last status each client   *)
(* was told.  A socket here is a tab of a user, which may reconnect.       *)
(***************************************************************************)
EXTENDS Naturals, Sequences, FiniteSets

CONSTANTS
  Executions, Users, Sockets, NoUser,
  Writers,    \* concurrent calls of the service that change a status
  NoExecution,
  MaxWrites,  \* bound on the writes of statuses
  MaxPipe,    \* bound on the events on their way to a tab
  MaxDrops    \* bound on lost connections and failed lookups

LiveUpdatesAssumption ==
  NoUser \notin Users /\ NoExecution \notin Executions /\ {MaxWrites, MaxPipe, MaxDrops} \subseteq Nat

VARIABLES
  row,        \* owner and status of each execution
  writer,     \* what each call has still to announce
  sock,       \* the user of each connected tab
  rooms,      \* the execution rooms each tab has joined
  asking,     \* execution:subscribe between its read and its join
  pipe,       \* events on their way to each tab
  view,       \* the status each tab was last told
  wants,      \* what each tab has subscribed to and not unsubscribed from
  crossed,    \* executions whose announcements overlapped
  missed,     \* what a tab was not there to hear, or heard of from a stale read
  writes, drops

vars == <<row, writer, sock, rooms, asking, pipe, view, wants, crossed, missed, writes, drops>>
client == <<sock, rooms, asking, wants>>

Active == {"PENDING", "RUNNING"}
Finished == {"SUCCESS", "FAILED", "CANCELLED"}
Statuses == Active \cup Finished
Messages == [ex : Executions, status : Statuses]
Quiet == [ex |-> NoExecution, status |-> "PENDING", todo |-> 0]
Silent == [ex |-> NoExecution, status |-> "none"]

TypeOK ==
  /\ row \in [Executions -> [owner : Users \cup {NoUser}, status : Statuses \cup {"none"}]]
  /\ writer \in [Writers -> [ex : Executions \cup {NoExecution}, status : Statuses, todo : 0..3]]
  /\ sock \in [Sockets -> Users \cup {NoUser}]
  /\ rooms \in [Sockets -> SUBSET Executions]
  /\ asking \in [Sockets -> [ex : Executions \cup {NoExecution}, status : Statuses \cup {"none", "asked"}]]
  /\ pipe \in [Sockets -> Seq(Messages)]
  /\ view \in [Sockets -> [Executions -> Statuses \cup {"none"}]]
  /\ wants \in [Sockets -> SUBSET Executions]
  /\ crossed \subseteq Executions /\ missed \subseteq Sockets \X Executions
  /\ writes \in 0..MaxWrites /\ drops \in 0..MaxDrops

Init ==
  /\ row = [e \in Executions |-> [owner |-> NoUser, status |-> "none"]]
  /\ writer = [w \in Writers |-> Quiet]
  /\ sock = [s \in Sockets |-> NoUser]
  /\ rooms = [s \in Sockets |-> {}]
  /\ asking = [s \in Sockets |-> Silent]
  /\ pipe = [s \in Sockets |-> <<>>]
  /\ view = [s \in Sockets |-> [e \in Executions |-> "none"]]
  /\ wants = [s \in Sockets |-> {}]
  /\ crossed = {} /\ missed = {}
  /\ writes = 0 /\ drops = 0

Busy(e) == \E w \in Writers : writer[w].ex = e

-----------------------------------------------------------------------------
\* The service.

\* A write, and the number of events that follow it.
Wrote(w, e, s, n) ==
  /\ writes < MaxWrites /\ writes' = writes + 1
  /\ row' = [row EXCEPT ![e].status = s]
  /\ writer' = [writer EXCEPT ![w] = [ex |-> e, status |-> s, todo |-> n]]
  /\ crossed' = IF Busy(e) THEN crossed \cup {e} ELSE crossed
  /\ missed' = missed \cup {<<t, e>> : t \in {t \in Sockets : asking[t].ex = e}}
  /\ UNCHANGED <<pipe, view, client, drops>>

\* createExecution announces nothing.
Create(u, e) ==
  /\ row[e].status = "none"
  /\ row' = [row EXCEPT ![e] = [owner |-> u, status |-> "PENDING"]]
  /\ UNCHANGED <<writer, pipe, view, client, crossed, missed, writes, drops>>

\* triggerExecution: RUNNING is written, then 'progress', 'started' and 'progress' follow,
\* each after a lookup of its own.
Trigger(w, e) ==
  writer[w] = Quiet /\ row[e].status = "PENDING" /\ Wrote(w, e, "RUNNING", 3)

\* updateExecutionStatus (the queue, a callback) and updateExecutionWithResult.
UpdateStatus(w, e) ==
  /\ writer[w] = Quiet /\ row[e].status # "none"
  /\ \E s \in {"RUNNING", "SUCCESS", "FAILED"} : Wrote(w, e, s, 1)

\* cancelExecution: the check and the write, then 'completed'.
CancelExecution(w, e) ==
  writer[w] = Quiet /\ row[e].status \in Active /\ Wrote(w, e, "CANCELLED", 1)

\* Mutant: the owner's own room is forgotten.
MutantListeners(e) == {s \in Sockets : sock[s] # NoUser /\ e \in rooms[s]}

\* The owner's own room, and the room of the execution.
Listeners(e) == {s \in Sockets : sock[s] # NoUser /\ (sock[s] = row[e].owner \/ e \in rooms[s])}

\* Mutant: the row is not the one the caller wrote.
MutantAnnounced(w) == [ex |-> writer[w].ex, status |-> "RUNNING"]

\* What the events say: the row as the caller had written it.
Announced(w) == [ex |-> writer[w].ex, status |-> writer[w].status]

Rested(w) ==
  writer' = IF writer[w].todo = 1 THEN [writer EXCEPT ![w] = Quiet] ELSE [writer EXCEPT ![w].todo = @ - 1]

\* emitExecutionEvent after its lookup: to every room at once.
Emit(w) ==
  LET e == writer[w].ex IN
  /\ e # NoExecution
  /\ \A s \in Listeners(e) : Len(pipe[s]) < MaxPipe
  /\ pipe' = [s \in Sockets |-> IF s \in Listeners(e) THEN Append(pipe[s], Announced(w)) ELSE pipe[s]]
  /\ missed' = missed \cup {<<s, e>> : s \in Sockets \ Listeners(e)}
  /\ Rested(w)
  /\ UNCHANGED <<row, view, client, crossed, writes, drops>>

\* The lookup failed or found no workflow: nothing is emitted, and nobody is told.
EmitFailed(w) ==
  LET e == writer[w].ex IN
  /\ e # NoExecution
  /\ drops < MaxDrops /\ drops' = drops + 1
  /\ missed' = missed \cup (Sockets \X {e})
  /\ Rested(w)
  /\ UNCHANGED <<row, pipe, view, client, crossed, writes>>

-----------------------------------------------------------------------------
\* The sockets.

Connect(s, u) ==
  /\ sock[s] = NoUser /\ (\A e \in Executions : view[s][e] = "none" \/ row[e].owner = u)
  /\ sock' = [sock EXCEPT ![s] = u]
  /\ UNCHANGED <<row, writer, rooms, asking, pipe, view, wants, crossed, missed, writes, drops>>

\* The connection drops: rooms and events under way are lost; the store of the tab stays.
Drop(s) ==
  /\ sock[s] # NoUser
  /\ drops < MaxDrops /\ drops' = drops + 1
  /\ sock' = [sock EXCEPT ![s] = NoUser]
  /\ rooms' = [rooms EXCEPT ![s] = {}]
  /\ asking' = [asking EXCEPT ![s] = Silent]
  /\ wants' = [wants EXCEPT ![s] = {}]
  /\ pipe' = [pipe EXCEPT ![s] = <<>>]
  /\ missed' = missed \cup {<<s, pipe[s][i].ex>> : i \in DOMAIN pipe[s]}
  /\ UNCHANGED <<row, writer, view, crossed, writes>>

\* execution:subscribe asks for the row ...  A client of the server's protocol sends it;
\* the one of this repository sends join:execution, which no handler hears, so its
\* behaviours are those in which no tab subscribes.
Subscribe(s, e) ==
  /\ sock[s] # NoUser /\ asking[s] = Silent
  /\ asking' = [asking EXCEPT ![s] = [ex |-> e, status |-> "asked"]]
  /\ wants' = [wants EXCEPT ![s] = @ \cup {e}]
  /\ missed' = IF Busy(e) THEN missed \cup {<<s, e>>} ELSE missed
  /\ UNCHANGED <<row, writer, sock, rooms, pipe, view, crossed, writes, drops>>

MayRead(s, e) == row[e].status # "none" /\ row[e].owner = sock[s]

\* ... which the database reads ...
SubscribeRead(s) ==
  /\ asking[s].status = "asked"
  /\ asking' = [asking EXCEPT ![s] =
       IF MayRead(s, asking[s].ex) THEN [@ EXCEPT !.status = row[asking[s].ex].status] ELSE Silent]
  /\ wants' = IF MayRead(s, asking[s].ex) THEN wants ELSE [wants EXCEPT ![s] = @ \ {asking[s].ex}]
  /\ UNCHANGED <<row, writer, sock, rooms, pipe, view, crossed, missed, writes, drops>>

\* ... then joins the room and answers with what was read.
SubscribeJoin(s) ==
  /\ asking[s].status \in Statuses /\ Len(pipe[s]) < MaxPipe
  /\ rooms' = [rooms EXCEPT ![s] = @ \cup {asking[s].ex}]
  /\ pipe' = [pipe EXCEPT ![s] = Append(@, asking[s])]
  /\ asking' = [asking EXCEPT ![s] = Silent]
  /\ UNCHANGED <<row, writer, sock, view, wants, crossed, missed, writes, drops>>

Unsubscribe(s, e) ==
  /\ sock[s] # NoUser /\ e \in wants[s]
  /\ rooms' = [rooms EXCEPT ![s] = @ \ {e}]
  /\ wants' = [wants EXCEPT ![s] = @ \ {e}]
  /\ UNCHANGED <<row, writer, sock, asking, pipe, view, crossed, missed, writes, drops>>

\* setupReduxIntegration: progress, completed and failed each set the status they stand for.
\* ('started' holds no row, so this client drops it; the progress before it says the same.)
\* socket.io keeps the order of what it sends to one socket.
Receive(s) ==
  /\ pipe[s] # <<>>
  /\ view' = [view EXCEPT ![s][Head(pipe[s]).ex] = Head(pipe[s]).status]
  /\ pipe' = [pipe EXCEPT ![s] = Tail(@)]
  /\ UNCHANGED <<row, writer, client, crossed, missed, writes, drops>>

-----------------------------------------------------------------------------
Next ==
  \/ \E u \in Users, e \in Executions : Create(u, e)
  \/ \E w \in Writers :
       \/ \E e \in Executions : Trigger(w, e) \/ UpdateStatus(w, e) \/ CancelExecution(w, e)
       \/ Emit(w) \/ EmitFailed(w)
  \/ \E s \in Sockets :
       \/ \E u \in Users : Connect(s, u)
       \/ \E e \in Executions : Subscribe(s, e) \/ Unsubscribe(s, e)
       \/ Drop(s) \/ SubscribeRead(s) \/ SubscribeJoin(s) \/ Receive(s)

Spec == Init /\ [][Next]_vars

\* The event loop gets to every answered await, and an open connection delivers.
Fairness ==
  /\ \A w \in Writers : WF_vars(Emit(w) \/ EmitFailed(w))
  /\ \A s \in Sockets : WF_vars(Receive(s)) /\ WF_vars(SubscribeRead(s)) /\ WF_vars(SubscribeJoin(s))

FairSpec == Spec /\ Fairness

-----------------------------------------------------------------------------
\* Everything about e that was under way has arrived.
Settled(s, e) ==
  /\ ~Busy(e) /\ asking[s].ex # e
  /\ \A i \in DOMAIN pipe[s] : pipe[s][i].ex # e

\* The causes of a wrong view are known: when the announcements of an execution did not
\* overlap and the tab missed none, what it shows in the end is what the row says.
ViewsConverge ==
  \A s \in Sockets, e \in Executions :
    sock[s] # NoUser /\ view[s][e] # "none" /\ Settled(s, e)
        /\ e \notin crossed /\ <<s, e>> \notin missed
      => view[s][e] = row[e].status

\* The owner hears of every change: whatever a call has still to announce, a tab of the
\* owner that stays connected comes to show, be it only until the next event.
OwnerHears ==
  \A s \in Sockets, e \in Executions, st \in Statuses \ {"PENDING"} :
    (sock[s] = row[e].owner /\ \E w \in Writers : writer[w].ex = e /\ writer[w].status = st)
      ~> (view[s][e] = st \/ sock[s] # row[e].owner \/ drops > 0)
=============================================================================
