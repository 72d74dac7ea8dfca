----------------------------- MODULE ExecutionPages -----------------------------
(***************************************************************************)
(* The execution pages of the client: the table, with its filter, and the  *)
(* detail opened from it.  Both load by request, change what they show     *)
(* with every event of the live connection, and cancel and retry.  Two     *)
(* requests of the same endpoint that are under way at once are one        *)
(* (ApiCache); answers arrive in any order, events in the order sent.  The *)
(* server spells a status in capitals and the pages do not; Mended says    *)
(* which of the two disagreements of this client and server are taken away *)
(* ("wraps": a list is answered as {items, meta}; "spells": statuses are   *)
(* spelt as the pages do).                                                 *)
(***************************************************************************)
EXTENDS Naturals, FiniteSets, Sequences

CONSTANTS
  Execs, None,
  Calls,        \* bound: calls the pages have under way
  MaxQueue,     \* bound: events under way
  MaxFailures,  \* bound: requests that fail without a reason of the server's
  MaxRuns,      \* bound: triggers and callbacks
  MaxClicks,    \* bound: filters chosen and buttons pressed
  Mended        \* where the client's types are right about the server

VARIABLES
  rows,    \* status of each execution on the server
  queue,   \* events emitted and not received
  table, detail,
  calls,   \* what each call awaits
  runs, failures, clicks

vars == <<rows, queue, table, detail, calls, runs, failures, clicks>>
bounds == <<runs, failures, clicks>>

\* The statuses of the server ("RUNNING" stands for what is not over), the pages' words for
\* them, and what is shown and asked for.
Names == {"RUNNING", "SUCCESS", "FAILED", "CANCELLED"}
Word == [RUNNING |-> "running", SUCCESS |-> "success", FAILED |-> "failed", CANCELLED |-> "cancelled"]
Statuses == Names \cup {Word[n] : n \in Names}
Filters == {"all", "failed"}
Absent == "absent"

Items == [Execs -> Statuses \cup {Absent}]

PagesAssumption ==
  /\ None \notin Execs \cup Statuses \cup Items /\ {MaxQueue, MaxRuns, MaxFailures, MaxClicks} \subseteq Nat
  /\ Mended \subseteq {"wraps", "spells"}

\* In a call, the table and the detail: of which executions an event has overtaken the answer,
\* or the one shown, and said otherwise.
Idle == [kind |-> "idle", page |-> "none", key |-> None, back |-> "all", sent |-> "no", answer |-> None, late |-> {}]

TypeOK ==
  /\ rows \in [Execs -> Names \cup {Absent}]
  /\ queue \in Seq(Execs \X Names) /\ Len(queue) <= MaxQueue
  /\ table \in [filter : Filters, items : Items \cup {None}, of : Filters \cup {None},
                loading : BOOLEAN, error : BOOLEAN, broken : BOOLEAN, late : SUBSET Execs]
  /\ detail \in [open : Execs \cup {None}, status : Statuses \cup {None}, loading : BOOLEAN, error : BOOLEAN,
                 late : SUBSET Execs]
  /\ \A c \in Calls :
       /\ calls[c].kind \in {"idle", "list", "detail", "cancel", "retry"}
       /\ calls[c].page \in {"none", "table", "detail"}
       /\ calls[c].sent \in {"no", "yes", "joined", "ok", "failed"}
       /\ calls[c].late \subseteq Execs
  /\ runs \in 0..MaxRuns /\ failures \in 0..MaxFailures /\ clicks \in 0..MaxClicks

Blank == [open |-> None, status |-> None, loading |-> FALSE, error |-> FALSE, late |-> {}]

Init ==
  /\ rows \in {r \in [Execs -> {Absent, "RUNNING"}] : \E e \in Execs : r[e] = "RUNNING"}
  /\ queue = <<>>
  /\ table = [filter |-> "all", items |-> None, of |-> None, loading |-> FALSE, error |-> FALSE, broken |-> FALSE,
              late |-> {}]
  /\ detail = Blank
  /\ calls = [c \in Calls |-> Idle]
  /\ runs = 0 /\ failures = 0 /\ clicks = 0

-----------------------------------------------------------------------------
\* The server.

\* A status is written, and told.  (The await between the two is LiveUpdates' matter.)
Announce(e, n) ==
  /\ Len(queue) < MaxQueue
  /\ rows' = [rows EXCEPT ![e] = n]
  /\ queue' = Append(queue, <<e, n>>)

\* An execution is triggered; a callback writes what it says, whatever the row says.
Run(e) ==
  /\ \/ rows[e] = Absent /\ Announce(e, "RUNNING")
     \/ rows[e] # Absent /\ \E n \in {"RUNNING", "SUCCESS", "FAILED"} : Announce(e, n)
  /\ runs < MaxRuns /\ runs' = runs + 1
  /\ UNCHANGED <<table, detail, calls, failures, clicks>>

Spelt(n) == IF "spells" \in Mended THEN Word[n] ELSE n

Matches(e, filter) == rows[e] # Absent /\ (filter = "all" \/ Word[rows[e]] = filter)

Listed(filter) == [e \in Execs |-> IF Matches(e, filter) THEN Spelt(rows[e]) ELSE Absent]

\* The schema knows the statuses in capitals; what has ended cannot be cancelled, and only what
\* has failed can be retried.
Refused(kind, key) ==
  \/ kind = "list" /\ key # "all" /\ "spells" \notin Mended
  \/ kind = "cancel" /\ rows[key] # "RUNNING"
  \/ kind = "retry" /\ rows[key] # "FAILED"

Answer(c, result, a) ==
  calls' = [d \in Calls |-> IF d = c \/ (calls[d].sent = "joined" /\ calls[c].sent = "yes"
                                         /\ <<calls[d].kind, calls[d].key>> = <<calls[c].kind, calls[c].key>>)
                            THEN [calls[d] EXCEPT !.sent = result, !.answer = a] ELSE calls[d]]

Serve(c) ==
  LET call == calls[c]
  IN /\ call.sent = "yes"
     /\ \/ /\ failures < MaxFailures /\ failures' = failures + 1
           /\ Answer(c, "failed", None) /\ UNCHANGED <<rows, queue>>
        \/ /\ Refused(call.kind, call.key)
           /\ Answer(c, "failed", None) /\ UNCHANGED <<rows, queue, failures>>
        \/ /\ ~Refused(call.kind, call.key) /\ UNCHANGED failures
           /\ \/ call.kind = "list" /\ Answer(c, "ok", Listed(call.key)) /\ UNCHANGED <<rows, queue>>
              \/ call.kind = "detail" /\ Answer(c, "ok", Spelt(rows[call.key])) /\ UNCHANGED <<rows, queue>>
              \/ call.kind = "cancel" /\ Answer(c, "ok", None) /\ Announce(call.key, "CANCELLED")
              \/ call.kind = "retry" /\ Answer(c, "ok", None) /\ \E e \in Execs : rows[e] = Absent /\ Announce(e, "RUNNING")
     /\ UNCHANGED <<table, detail, runs, clicks>>

-----------------------------------------------------------------------------
\* Requests of the client.

\* The calls after one more: it joins one of the same endpoint that is under way, and is
\* given its answer, which may be on its way.
Request(now, c, kind, page, key) ==
  LET same == {d \in Calls \ {c} : now[d].kind = kind /\ now[d].key = key}
      other == now[CHOOSE d \in same : TRUE]
      new == [kind |-> kind, page |-> page, key |-> key, back |-> table.filter, sent |-> "yes", answer |-> None, late |-> {}]
  IN [now EXCEPT ![c] =
        IF same = {} THEN new
        ELSE IF other.sent \in {"ok", "failed"}
        THEN [new EXCEPT !.sent = other.sent, !.answer = other.answer, !.late = other.late]
        ELSE [new EXCEPT !.sent = "joined"]]

Free(c) == calls[c].kind = "idle"
Ended(c, kind) == calls[c].kind = kind /\ calls[c].sent \in {"ok", "failed"}

Loading(t) == [t EXCEPT !.loading = TRUE, !.error = FALSE]

LoadExecutions(c, filter) ==
  /\ calls' = Request(calls, c, "list", "table", filter)
  /\ table' = Loading(table)

LoadExecutionDetails(c, e) ==
  /\ calls' = Request(calls, c, "detail", "detail", e)
  /\ detail' = [detail EXCEPT !.open = e, !.loading = TRUE, !.error = FALSE]

-----------------------------------------------------------------------------
\* The table.

Mount(c) ==
  /\ Free(c) /\ table.of = None /\ ~table.loading /\ ~table.error
  /\ LoadExecutions(c, table.filter)
  /\ UNCHANGED <<rows, queue, detail, bounds>>

Click == clicks < MaxClicks /\ clicks' = clicks + 1

\* The filters are on the screen when neither the spinner nor the error is.
TableShown == table.of # None /\ ~table.error /\ ~table.broken

ChangeFilter(c, filter) ==
  /\ Free(c) /\ TableShown /\ detail.open = None /\ filter # table.filter /\ Click
  /\ calls' = Request(calls, c, "list", "table", filter)
  /\ table' = [Loading(table) EXCEPT !.filter = filter]
  /\ UNCHANGED <<rows, queue, detail, runs, failures>>

TryAgain(c) ==
  /\ Free(c) /\ table.error /\ detail.open = None /\ Click
  /\ LoadExecutions(c, table.filter)
  /\ UNCHANGED <<rows, queue, detail, runs, failures>>

Loaded(a) == a

\* Mutant: the spinner is left on after an error.
MutantFailed(page) == [page EXCEPT !.error = TRUE]

Failed(page) == [page EXCEPT !.loading = FALSE, !.error = TRUE]

ListAnswered(c) ==
  /\ Ended(c, "list")
  /\ calls' = [calls EXCEPT ![c] = Idle]
  /\ table' = IF calls[c].sent = "failed"
              THEN Failed(table)
              ELSE [table EXCEPT !.loading = FALSE, !.items = Loaded(calls[c].answer),
                                 !.of = calls[c].key, !.late = calls[c].late, !.broken = "wraps" \notin Mended]
  /\ UNCHANGED <<rows, queue, detail, bounds>>

\* Cancel is offered for what is shown running, retry for what is shown failed.
Offered(kind, status) == status = (IF kind = "cancel" THEN "running" ELSE "failed")

\* handleCancel and handleRetry keep the filter of the render they were pressed in.
TableButton(c, e, kind) ==
  /\ Free(c) /\ TableShown /\ detail.open = None /\ Offered(kind, table.items[e]) /\ Click
  /\ calls' = Request(calls, c, kind, "table", e)
  /\ UNCHANGED <<rows, queue, table, detail, runs, failures>>

-----------------------------------------------------------------------------
\* The detail, a dialog over the table.

Open(c, e) ==
  /\ Free(c) /\ TableShown /\ detail.open = None /\ table.items[e] # Absent /\ Click
  /\ LoadExecutionDetails(c, e)
  /\ UNCHANGED <<rows, queue, table, runs, failures>>

\* What was asked for is answered to no one.
Close ==
  /\ detail.open # None /\ ~detail.loading /\ Click
  /\ detail' = Blank
  /\ calls' = [c \in Calls |-> IF calls[c].page = "detail" THEN [calls[c] EXCEPT !.page = "none"] ELSE calls[c]]
  /\ UNCHANGED <<rows, queue, table, runs, failures>>

DetailAnswered(c) ==
  /\ Ended(c, "detail")
  /\ calls' = [calls EXCEPT ![c] = Idle]
  /\ detail' = IF calls[c].page = "none" THEN detail
               ELSE IF calls[c].sent = "failed" THEN Failed(detail)
               ELSE [detail EXCEPT !.loading = FALSE, !.status = calls[c].answer, !.late = calls[c].late]
  /\ UNCHANGED <<rows, queue, table, bounds>>

DetailButton(c, kind) ==
  /\ Free(c) /\ ~detail.loading /\ ~detail.error /\ Offered(kind, detail.status) /\ Click
  /\ calls' = Request(calls, c, kind, "detail", detail.open)
  /\ UNCHANGED <<rows, queue, table, detail, runs, failures>>

\* The page that pressed the button loads again, or shows the error.
ButtonAnswered(c) ==
  LET call == calls[c]
      failed == call.sent = "failed"
  IN /\ Ended(c, "cancel") \/ Ended(c, "retry")
     /\ CASE call.page = "none" -> calls' = [calls EXCEPT ![c] = Idle] /\ UNCHANGED <<table, detail>>
          [] call.page # "none" /\ failed ->
               /\ calls' = [calls EXCEPT ![c] = Idle]
               /\ table' = IF call.page = "table" THEN [table EXCEPT !.error = TRUE] ELSE table
               /\ detail' = IF call.page = "detail" THEN [detail EXCEPT !.error = TRUE] ELSE detail
          [] call.page = "table" /\ ~failed -> LoadExecutions(c, call.back) /\ UNCHANGED detail
          [] call.page = "detail" /\ ~failed -> LoadExecutionDetails(c, call.key) /\ UNCHANGED table
     /\ UNCHANGED <<rows, queue, bounds>>

-----------------------------------------------------------------------------
\* An event.  The table changes the row it shows and, when the execution is completed or
\* cancelled, loads again; the detail ignores events until it has loaded.

\* The hook's words for what it is told: its own, but for what the event carries.
Heard(n) == IF n \in {"SUCCESS", "CANCELLED"} THEN Spelt(n) ELSE Word[n]

Shown(t, e, s) ==
  IF t.items = None \/ t.items[e] = Absent THEN t ELSE [t EXCEPT !.items[e] = s, !.late = @ \ {e}]

\* Mutant: an event of any execution changes the detail.
MutantDetailShown(d, e, s) == IF d.status # None THEN [d EXCEPT !.status = s, !.late = {}] ELSE d

DetailShown(d, e, s) == IF d.open = e /\ d.status # None THEN [d EXCEPT !.status = s, !.late = {}] ELSE d

\* What a call says of an execution, and whether that is its status.
Told(call, e) ==
  IF call.sent = "ok" /\ call.kind = "list" THEN call.answer[e]
  ELSE IF call.sent = "ok" /\ call.kind = "detail" /\ call.key = e THEN call.answer
  ELSE Absent

Says(x, n) == x \in {n, Word[n]}

\* The answers on their way that an event overtakes.
Overtaken(e, n) ==
  [c \in Calls |-> IF Told(calls[c], e) = Absent \/ Says(Told(calls[c], e), n) THEN calls[c]
                   ELSE [calls[c] EXCEPT !.late = @ \cup {e}]]

Receive(c) ==
  LET e == Head(queue)[1]
      n == Head(queue)[2]
      shown == Shown(table, e, Heard(n))
  IN /\ queue # <<>> /\ Free(c)
     /\ queue' = Tail(queue)
     /\ detail' = DetailShown(detail, e, Heard(n))
     /\ IF n \in {"SUCCESS", "CANCELLED"}
        THEN /\ calls' = Request(Overtaken(e, n), c, "list", "table", table.filter)
             /\ table' = Loading(shown)
        ELSE table' = shown /\ calls' = Overtaken(e, n)
     /\ UNCHANGED <<rows, bounds>>

Next ==
  \/ \E e \in Execs : Run(e)
  \/ Close
  \/ \E c \in Calls :
       \/ Serve(c) \/ Mount(c) \/ TryAgain(c) \/ ListAnswered(c) \/ DetailAnswered(c) \/ ButtonAnswered(c) \/ Receive(c)
       \/ \E f \in Filters : ChangeFilter(c, f)
       \/ \E e \in Execs : Open(c, e)
       \/ \E kind \in {"cancel", "retry"} : DetailButton(c, kind) \/ \E e \in Execs : TableButton(c, e, kind)

Spec == Init /\ [][Next]_vars

\* Requests are answered, and the tab handles the answers and events.
FairSpec ==
  /\ Spec
  /\ \A c \in Calls : WF_vars(Serve(c)) /\ WF_vars(ListAnswered(c) \/ DetailAnswered(c) \/ ButtonAnswered(c))
  /\ WF_vars(\E c \in Calls : Receive(c))
-----------------------------------------------------------------------------
\* Once its events have all come, what a page shows of an execution is its status: but for an
\* answer that one of them has overtaken, there is no order of answers, joined or not, and
\* events that leaves a page with an end undone, missed, or another's.
ShownIsTrue ==
  \A e \in Execs : (\A i \in 1..Len(queue) : queue[i][1] # e) =>
    /\ table.items # None /\ e \notin table.late => table.items[e] = Absent \/ Says(table.items[e], rows[e])
    /\ detail.open = e /\ detail.status # None /\ detail.late = {} => Says(detail.status, rows[e])

\* The dialog, which cannot be closed while it loads, has the call that ends its spinner.
LoadingIsUnderWay ==
  detail.loading => \E c \in Calls : calls[c].page = "detail" /\ calls[c].kind = "detail" /\ calls[c].key = detail.open

\* The spinners of the table and the detail go away.
SpinnersEnd == (table.loading ~> ~table.loading) /\ (detail.loading ~> ~detail.loading)
=============================================================================
