-------------------------------- MODULE MCPages --------------------------------
(***************************************************************************)
(* The browser's pages and what they fetch with, for TLC: the cache of the *)
(* REST client (ApiCache), its optimistic updates (OptimisticUpdate), the  *)
(* slice of the session (AuthSlice), and the pages of workflows            *)
(* (WorkflowPages), of executions (ExecutionPages) and of their analysis   *)
(* (AnalyticsPage), and what becomes of an error (ErrorPath).  The models  *)
(* share no variable: a behaviour is about one of them, and the others     *)
(* stay as they start.                                                     *)
(***************************************************************************)
EXTENDS ApiCache, Sequences, TLC

CONSTANTS
  Flows, Texts,
  Calls, Fetches,  \* of the pages of workflows and executions, and of the others
  PerPage, Tokens, NoToken,
  MaxQueue, MaxRuns, MaxFailures,
  MaxClicks, MaxTableClicks, MaxTableRuns,  \* of all pages, and of those of executions
  MaxRetries, Cap             \* of whoever tries again

VARIABLES
  rows, order, list, detail, form, calls, failures, clicks,
  running, queue, table, execution, execCalls, execRuns, execFailures, execClicks,
  ended, loads, page, up, loadFailures, loadClicks,
  onServer, shown, update, fetching, disturbed,
  stored, kept, user, isAuthenticated, isLoading, error, thunk,
  caller, attempt, fault, delay, outcome, cleared, told,
  part

cacheVars == vars
workflowVars == <<rows, order, list, detail, form, calls, failures, clicks>>
executionVars == <<running, queue, table, execution, execCalls, execRuns, execFailures, execClicks>>
analyticsVars == <<ended, loads, page, up, loadFailures, loadClicks>>
updateVars == <<onServer, shown, update, fetching, disturbed>>
sliceVars == <<stored, kept, user, isAuthenticated, isLoading, error, thunk>>
errorVars == <<caller, attempt, fault, delay, outcome, cleared, told>>

\* A mutation clears the entry of its own endpoint, and changes it; to run a workflow, a
\* mutation of the workflows, makes an execution too.
Own == [e \in Endpoints |-> {e}]
Made == [e \in Endpoints |-> {e} \cup (IF e = "workflows" THEN {"executions"} ELSE {})]

Workflow == INSTANCE WorkflowPages WITH
  Mended <- {"query"}

Execution(mended) == INSTANCE ExecutionPages WITH
  Execs <- Flows, MaxClicks <- MaxTableClicks, MaxRuns <- MaxTableRuns, Mended <- mended,
  rows <- running, detail <- execution, calls <- execCalls, runs <- execRuns, failures <- execFailures,
  clicks <- execClicks

Analytics == INSTANCE AnalyticsPage WITH
  Calls <- Fetches, Mended <- {"columns", "fields"},
  calls <- loads, failures <- loadFailures, clicks <- loadClicks

Update == INSTANCE OptimisticUpdate WITH Changes <- Fetches, server <- onServer

Slice == INSTANCE AuthSlice WITH Calls <- Fetches, token <- kept, call <- thunk

Errors == INSTANCE ErrorPath WITH Callers <- {"page", "withRetry", "queue"}, Raw <- TRUE, shown <- told

\* Parts about the pages of executions: with a server that agrees with them, with this
\* repository's, and with one whose lists the table can show but whose statuses it does not know.
ExecutionParts == [executions |-> {"wraps", "spells"}, executionsAsIs |-> {}, executionsCapital |-> {"wraps"}]

\* The other pages with the server of this repository, which disagrees with them.
WorkflowAsIs == INSTANCE WorkflowPages WITH
  Mended <- {}

AnalyticsAsIs == INSTANCE AnalyticsPage WITH
  Calls <- Fetches, Mended <- {},
  calls <- loads, failures <- loadFailures, clicks <- loadClicks

ASSUME PagesAssumptions ==
  /\ CacheAssumption /\ Workflow!WorkflowPagesAssumption /\ \A p \in DOMAIN ExecutionParts : Execution(ExecutionParts[p])!PagesAssumption
  /\ Analytics!AnalyticsAssumption /\ Slice!SliceAssumption /\ Errors!ErrorAssumption

\* Where the pages start, for behaviours that are not about them.
AtRest ==
  /\ Len(order) = 1 /\ order[1] = CHOOSE w \in Flows : TRUE
  /\ \E w \in Flows : rows[w] # None /\ rows[w].text = CHOOSE t \in Texts : TRUE
  /\ calls[CHOOSE c \in Calls : TRUE] # Workflow!Idle

PartsInit ==
  /\ Init /\ Workflow!Init /\ Execution({})!Init /\ Analytics!Init /\ Update!Init /\ Slice!Init /\ Errors!Init
  /\ part \in {"workflows", "workflowsAsIs", "analytics", "analyticsAsIs", "cache", "updates", "slice", "errors"}
              \cup DOMAIN ExecutionParts
  /\ part \in {"workflows", "workflowsAsIs"} \/ AtRest
  /\ IF part \in DOMAIN ExecutionParts
     THEN \E e \in Flows : running[e] = Execution({})!Absent  \* one at least is still to be triggered
     ELSE \A e \in Flows : running[e] = "RUNNING"
  /\ part = "slice" \/ stored = NoToken

PartsNext ==
  \/ part = "workflows" /\ Workflow!Next
     /\ UNCHANGED <<executionVars, analyticsVars, cacheVars, updateVars, sliceVars, errorVars, part>>
  \/ part = "workflowsAsIs" /\ WorkflowAsIs!Next
     /\ UNCHANGED <<executionVars, analyticsVars, cacheVars, updateVars, sliceVars, errorVars, part>>
  \/ (\E p \in DOMAIN ExecutionParts : part = p /\ Execution(ExecutionParts[p])!Next)
     /\ UNCHANGED <<workflowVars, analyticsVars, cacheVars, updateVars, sliceVars, errorVars, part>>
  \/ part = "analytics" /\ Analytics!Next
     /\ UNCHANGED <<workflowVars, executionVars, cacheVars, updateVars, sliceVars, errorVars, part>>
  \/ part = "analyticsAsIs" /\ AnalyticsAsIs!Next
     /\ UNCHANGED <<workflowVars, executionVars, cacheVars, updateVars, sliceVars, errorVars, part>>
  \/ part = "cache" /\ Next
     /\ UNCHANGED <<workflowVars, executionVars, analyticsVars, updateVars, sliceVars, errorVars, part>>
  \/ part = "updates" /\ Update!Next
     /\ UNCHANGED <<workflowVars, executionVars, analyticsVars, cacheVars, sliceVars, errorVars, part>>
  \/ part = "slice" /\ Slice!Next
     /\ UNCHANGED <<workflowVars, executionVars, analyticsVars, cacheVars, updateVars, errorVars, part>>
  \/ part = "errors" /\ Errors!Next
     /\ UNCHANGED <<workflowVars, executionVars, analyticsVars, cacheVars, updateVars, sliceVars, part>>

PartsSpec ==
  /\ PartsInit
  /\ [][PartsNext]_<<workflowVars, executionVars, analyticsVars, cacheVars, updateVars, sliceVars, errorVars, part>>

Symmetry == Permutations(Flows) \cup Permutations(Calls) \cup Permutations(Fetches)

\* Whoever waits on the screen waits for something under way: the lists, the details and the
\* form of the workflows, the dialog of an execution, the tab of the analysis, and the forms
\* of the session.
SpinnersAreUnderWay ==
  /\ part \in {"workflows", "workflowsAsIs"} => Workflow!BusyIsUnderWay
  /\ part \in DOMAIN ExecutionParts => Execution({})!LoadingIsUnderWay
  /\ part \in {"analytics", "analyticsAsIs"} => Analytics!LoadingIsUnderWay
  /\ part = "slice" => Slice!LoadingIsUnderWay

\* Once the events of an execution have come, the table and the detail show its status, but
\* for an answer that one of them has overtaken.
ShownIsTrue == part \in DOMAIN ExecutionParts => Execution({})!ShownIsTrue

\* What is shown after an update that nothing overlapped is what the server holds.
AloneAgrees == part = "updates" => Update!AloneAgrees

\* What each layer makes of an error: who can wait tries again what may pass, and the
\* session ends by the errors of authentication, and only by those.
ErrorsJudged == Errors!ErrorsJudged
================================================================================
