------------------------------ MODULE AnalyticsPage ------------------------------
(***************************************************************************)
(* The analytics tab of the executions page, from its request to what is   *)
(* on the screen, and the error boundary of the application around it.     *)
(* Two requests for the same address that are under way at once are one    *)
(* (ApiCache); analytics are not cached.                                   *)
(***************************************************************************)
EXTENDS Naturals, FiniteSets

CONSTANTS
  None,
  Calls,        \* bound: loads of the page that are not answered
  MaxRuns,      \* bound: executions that end
  MaxFailures,  \* bound: requests that fail for a reason of the network
  MaxClicks,    \* bound: tabs, ranges and buttons pressed
  Mended        \* disagreements of client and server taken as repaired; the code: {}

AnalyticsAssumption ==
  {MaxRuns, MaxFailures, MaxClicks} \subseteq Nat /\ Mended \subseteq {"columns", "fields", "trends"}

VARIABLES
  ended,   \* executions that ended and succeeded within each time, or ever
  calls, page,
  up,      \* the error boundary shows the application
  failures, clicks

vars == <<ended, calls, page, up, failures, clicks>>

Ranges == {"7d", "30d", "90d"}
Totals == [total : Nat, success : Nat]

\* The fields of an answer: the server's, and what else the client's type asks for.
Sent == {"totalExecutions", "successRate", "averageExecutionTime", "executionsByStatus", "executionsByDay"}
          \cup (IF "fields" \in Mended THEN {"topFailingWorkflows", "performanceMetrics"} ELSE {})
          \cup (IF "trends" \in Mended THEN {"executionTrends"} ELSE {})
Answers == [totals : Totals, fields : {Sent}]

Idle == [sent |-> "idle", page |-> FALSE, answer |-> None]
Closed == [tab |-> "history", range |-> "30d", data |-> None, loading |-> TRUE, error |-> FALSE]

TypeOK ==
  /\ ended \in [Ranges \cup {"ever"} -> Totals]
  /\ \A c \in Calls : calls[c].sent \in {"idle", "yes", "joined", "ok", "failed"} /\ calls[c].answer \in Answers \cup {None}
  /\ page \in [tab : {"history", "analytics"}, range : Ranges, data : Answers \cup {None}, loading : BOOLEAN, error : BOOLEAN]
  /\ up \in BOOLEAN /\ failures \in 0..MaxFailures /\ clicks \in 0..MaxClicks

Init ==
  /\ ended = [r \in Ranges \cup {"ever"} |->
                IF r \in {"90d", "ever"} THEN [total |-> 1, success |-> 0] ELSE [total |-> 0, success |-> 0]]
  /\ calls = [c \in Calls |-> Idle] /\ page = Closed
  /\ up = TRUE /\ failures = 0 /\ clicks = 0

-----------------------------------------------------------------------------
\* The server.

Run(success) ==
  /\ ended["ever"].total < MaxRuns
  /\ ended' = [r \in DOMAIN ended |-> [total |-> ended[r].total + 1, success |-> ended[r].success + (IF success THEN 1 ELSE 0)]]
  /\ UNCHANGED <<calls, page, up, failures, clicks>>

Answer(c, result, a) ==
  calls' = [d \in Calls |-> IF d = c \/ calls[d].sent = "joined" THEN [calls[d] EXCEPT !.sent = result, !.answer = a] ELSE calls[d]]

\* The query of the request, which can name a workflow, is not read.
GetUserAnalytics(c) ==
  IF "columns" \in Mended THEN Answer(c, "ok", [totals |-> ended["ever"], fields |-> Sent])
                          ELSE Answer(c, "failed", None)

Serve(c) ==
  /\ calls[c].sent = "yes"
  /\ \/ GetUserAnalytics(c) /\ UNCHANGED failures
     \/ failures < MaxFailures /\ failures' = failures + 1 /\ Answer(c, "failed", None)
  /\ UNCHANGED <<ended, page, up, clicks>>

-----------------------------------------------------------------------------
\* The page.

Click == clicks < MaxClicks /\ clicks' = clicks + 1

\* The range is not sent, so it joins whichever request is under way, and is given its answer,
\* which may be on its way.
GetExecutionAnalytics(c) ==
  LET under == {d \in Calls \ {c} : calls[d].sent # "idle"}
      other == calls[CHOOSE d \in under : TRUE]
      joined == IF other.sent = "yes" THEN "joined" ELSE other.sent
  IN [calls EXCEPT ![c] = [page |-> TRUE, answer |-> IF under = {} THEN None ELSE other.answer,
                           sent |-> IF under = {} THEN "yes" ELSE joined]]

LoadAnalytics(c, p) ==
  /\ calls[c] = Idle
  /\ calls' = GetExecutionAnalytics(c)
  /\ page' = [p EXCEPT !.loading = TRUE, !.error = FALSE]

\* What the page asked for is answered to no one once it is gone.
Unmount == calls' = [c \in Calls |-> [calls[c] EXCEPT !.page = FALSE]]

ShowAnalytics(c) ==
  /\ up /\ page.tab = "history" /\ Click
  /\ LoadAnalytics(c, [page EXCEPT !.tab = "analytics"])
  /\ UNCHANGED <<ended, up, failures>>

ShowHistory ==
  /\ up /\ page.tab = "analytics" /\ Click
  /\ Unmount /\ page' = Closed
  /\ UNCHANGED <<ended, up, failures>>

Shown == up /\ page.tab = "analytics" /\ ~page.loading /\ ~page.error /\ page.data # None

ChooseRange(c, r) ==
  /\ Shown /\ r # page.range /\ Click
  /\ LoadAnalytics(c, [page EXCEPT !.range = r])
  /\ UNCHANGED <<ended, up, failures>>

TryAgain(c) ==
  /\ up /\ page.tab = "analytics" /\ page.error /\ ~page.loading /\ Click
  /\ LoadAnalytics(c, page)
  /\ UNCHANGED <<ended, up, failures>>

Loaded(call) == [page EXCEPT !.loading = FALSE, !.error = call.sent = "failed",
                             !.data = IF call.sent = "failed" THEN @ ELSE call.answer]

\* The table of failing workflows is rendered from a field it takes to be there.
Renders(p) == p.error \/ "topFailingWorkflows" \in p.data.fields

\* An error while rendering takes the whole application off the screen.
Answered(c) ==
  /\ calls[c].sent \in {"ok", "failed"}
  /\ IF ~calls[c].page THEN calls' = [calls EXCEPT ![c] = Idle] /\ UNCHANGED <<page, up>>
     ELSE IF Renders(Loaded(calls[c]))
          THEN calls' = [calls EXCEPT ![c] = Idle] /\ page' = Loaded(calls[c]) /\ UNCHANGED up
          ELSE /\ calls' = [d \in Calls |-> IF d = c THEN Idle ELSE [calls[d] EXCEPT !.page = FALSE]]
               /\ page' = Closed /\ up' = FALSE
  /\ UNCHANGED <<ended, failures, clicks>>

\* The boundary's button mounts the application again: the page opens with its first tab.
HandleRetry ==
  /\ ~up /\ Click
  /\ up' = TRUE
  /\ UNCHANGED <<ended, calls, page, failures>>

-----------------------------------------------------------------------------
\* What is on the screen, as shares of a hundred and charts that have something to draw.

SuccessRate(t) == IF t.total > 0 THEN (t.success * 100) \div t.total ELSE 0

\* The server's rate is of a hundred already.
RateShown == SuccessRate(page.data.totals) * 100

StatusData == "executionsByStatus" \in page.data.fields
TrendData == "executionTrends" \in page.data.fields
PerformanceData == "performanceMetrics" \in page.data.fields

\* A chart without data is a line of text instead.
Drawn == {chart \in {"status", "trend", "performance"} :
            CASE chart = "status" -> StatusData [] chart = "trend" -> TrendData [] chart = "performance" -> PerformanceData}

Next ==
  \/ \E s \in BOOLEAN : Run(s)
  \/ ShowHistory \/ HandleRetry
  \/ \E c \in Calls : \/ Serve(c) \/ ShowAnalytics(c) \/ TryAgain(c) \/ Answered(c)
                      \/ \E r \in Ranges : ChooseRange(c, r)

Spec == Init /\ [][Next]_vars

\* Requests are answered, and the tab handles the answers.
FairSpec == Spec /\ \A c \in Calls : WF_vars(Serve(c)) /\ WF_vars(Answered(c))

-----------------------------------------------------------------------------

\* A load the tab waits for is one that it will be told of: of all the calls under way or
\* answered, one is its own, and no other will disturb it.
LoadingIsUnderWay ==
  page.tab = "analytics" => Cardinality({c \in Calls : calls[c].page /\ calls[c] # Idle}) = (IF page.loading THEN 1 ELSE 0)

\* The spinner goes away, with the executions counted or an error, or with the page.
SpinnerEnds == (page.tab = "analytics" /\ page.loading) ~> ~(page.tab = "analytics" /\ page.loading)
=============================================================================
