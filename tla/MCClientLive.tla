------------------------------ MODULE MCClientLive ------------------------------
(***************************************************************************)
(* What must happen in the end in the browser, for TLC: spinners go away   *)
(* (WorkflowPages, ExecutionPages, AnalyticsPage, ClientSession), calls    *)
(* come to an end (ApiCache, ErrorPath) and the connection comes up        *)
(* (ClientSocket).  The models share no variable: a behaviour is about one *)
(* of them, whose fairness is asked for, and the others stay as they       *)
(* start.                                                                  *)
(***************************************************************************)
EXTENDS WorkflowPages, TLC

CONSTANTS user1

VARIABLES
  running, queue, table, execution, execCalls, execRuns, execFailures, execClicks,
  ended, loads, page, up, loadFailures, loadClicks,
  version, token, signedIn, cache, pending, flight, call, logins,
  held, owner, live, made, auth, task, lost, reloads,
  conn, sock, session, hook, handled, faults, visits,
  caller, attempt, fault, delay, outcome, cleared, shown,
  part

workflowVars == vars
executionVars == <<running, queue, table, execution, execCalls, execRuns, execFailures, execClicks>>
analyticsVars == <<ended, loads, page, up, loadFailures, loadClicks>>
cacheVars == <<version, token, signedIn, cache, pending, flight, call, logins>>
tabVars == <<held, owner, live, made, auth, task, lost, reloads>>
socketVars == <<conn, sock, session, hook, handled, faults, visits>>
errorVars == <<caller, attempt, fault, delay, outcome, cleared, shown>>

Execution(mended) == INSTANCE ExecutionPages WITH
  Execs <- Flows, MaxQueue <- 1, MaxRuns <- 2, MaxFailures <- 1, MaxClicks <- 2, Mended <- mended,
  rows <- running, detail <- execution, calls <- execCalls, runs <- execRuns, failures <- execFailures,
  clicks <- execClicks

Analytics == INSTANCE AnalyticsPage WITH
  MaxRuns <- 2, MaxFailures <- 1, MaxClicks <- 4, Mended <- {"columns"},
  calls <- loads, failures <- loadFailures, clicks <- loadClicks

Cache == INSTANCE ApiCache WITH
  Users <- {user1}, Endpoints <- {"executions"}, Callers <- Calls, MaxVersion <- 1, MaxLogins <- 1,
  Clears <- [e \in {"executions"} |-> {e}], Changes <- [e \in {"executions"} |-> {e}]

Session == INSTANCE ClientSession WITH
  Users <- {user1}, NoUser <- None, Tabs <- {"tab"}, Lists <- {"list"}, MaxPairs <- 3, MaxReloads <- 1,
  Nested <- TRUE, HasMe <- TRUE

Socket(says401) == INSTANCE ClientSocket WITH
  Components <- {"k"}, Sockets <- {"s1", "s2", "s3", "s4"}, MaxAttempts <- 1, MaxRefreshes <- 2,
  MaxFaults <- 2, MaxVisits <- 2, Says401 <- says401, MayKick <- FALSE

Errors == INSTANCE ErrorPath WITH
  Callers <- {"page", "withRetry", "queue"}, MaxRetries <- 4, Cap <- 4, Raw <- TRUE

\* Parts about the pages of executions: with a server that agrees with them, and with this
\* repository's.
ExecutionParts == [executions |-> {"wraps", "spells"}, executionsAsIs |-> {}]

\* Parts about the socket: with a server that says 401, and with this repository's.
SocketParts == [socket |-> TRUE, socketAsIs |-> FALSE]

\* The other pages with the server of this repository, which disagrees with its client.
WorkflowAsIs == INSTANCE WorkflowPages WITH Mended <- {}

AnalyticsAsIs == INSTANCE AnalyticsPage WITH
  MaxRuns <- 2, MaxFailures <- 1, MaxClicks <- 4, Mended <- {},
  calls <- loads, failures <- loadFailures, clicks <- loadClicks

SessionAsIs == INSTANCE ClientSession WITH
  Users <- {user1}, NoUser <- None, Tabs <- {"tab"}, Lists <- {"list"}, MaxPairs <- 3, MaxReloads <- 1,
  Nested <- FALSE, HasMe <- FALSE

ASSUME ClientAssumptions ==
  /\ WorkflowPagesAssumption /\ (\A p \in DOMAIN ExecutionParts : Execution(ExecutionParts[p])!PagesAssumption) /\ Analytics!AnalyticsAssumption
  /\ Cache!CacheAssumption /\ Session!SessionAssumption /\ (\A p \in DOMAIN SocketParts : Socket(SocketParts[p])!SocketAssumption) /\ Errors!ErrorAssumption

PartsInit ==
  /\ Init /\ Execution({})!Init /\ Analytics!Init /\ Cache!Init /\ Session!Init /\ Socket(TRUE)!Init /\ Errors!Init
  /\ part \in {"workflows", "analytics", "tabs", "workflowsAsIs", "analyticsAsIs", "tabsAsIs", "cache", "errors"}
              \cup DOMAIN ExecutionParts \cup DOMAIN SocketParts
  /\ \/ part \in {"workflows", "workflowsAsIs"}
     \/ Len(order) = 1 /\ order[1] = (CHOOSE w \in Flows : TRUE) /\ calls[CHOOSE c \in Calls : TRUE] # Idle
  /\ part \in DOMAIN ExecutionParts \/ \A e \in Flows : running[e] = "RUNNING"

\* A step of the model that the behaviour is about.
When(name, A) == part = name /\ A

PartsNext ==
  \/ (When("workflows", Next) \/ When("workflowsAsIs", WorkflowAsIs!Next))
     /\ UNCHANGED <<executionVars, analyticsVars, cacheVars, tabVars, socketVars, errorVars, part>>
  \/ (\E p \in DOMAIN ExecutionParts : When(p, Execution(ExecutionParts[p])!Next))
     /\ UNCHANGED <<workflowVars, analyticsVars, cacheVars, tabVars, socketVars, errorVars, part>>
  \/ (When("analytics", Analytics!Next) \/ When("analyticsAsIs", AnalyticsAsIs!Next))
     /\ UNCHANGED <<workflowVars, executionVars, cacheVars, tabVars, socketVars, errorVars, part>>
  \/ When("cache", Cache!Next)
     /\ UNCHANGED <<workflowVars, executionVars, analyticsVars, tabVars, socketVars, errorVars, part>>
  \/ (When("tabs", Session!Next) \/ When("tabsAsIs", SessionAsIs!Next))
     /\ UNCHANGED <<workflowVars, executionVars, analyticsVars, cacheVars, socketVars, errorVars, part>>
  \/ (\E p \in DOMAIN SocketParts : When(p, Socket(SocketParts[p])!Next))
     /\ UNCHANGED <<workflowVars, executionVars, analyticsVars, cacheVars, tabVars, errorVars, part>>
  \/ When("errors", Errors!Next)
     /\ UNCHANGED <<workflowVars, executionVars, analyticsVars, cacheVars, tabVars, socketVars, part>>

\* The fairness of each model, for its own behaviours.
WorkflowsFair ==
  \A c \in Calls :
    /\ WF_workflowVars(When("workflows", Serve(c)) \/ When("workflowsAsIs", WorkflowAsIs!Serve(c)))
    /\ WF_workflowVars(part \in {"workflows", "workflowsAsIs"}
                         /\ (ListAnswered(c) \/ RowAnswered(c) \/ DetailAnswered(c)
                               \/ NobodyAnswered(c) \/ SaveAnswered(c)))
ExecutionsFair ==
  LET Pages(A(_)) == \E p \in DOMAIN ExecutionParts : When(p, A(ExecutionParts[p]))
      Receive(m) == \E c \in Calls : Execution(m)!Receive(c)
  IN /\ \A c \in Calls :
          LET Served(m) == Execution(m)!Serve(c)
              Heard(m) == Execution(m)!ListAnswered(c) \/ Execution(m)!DetailAnswered(c) \/ Execution(m)!ButtonAnswered(c)
          IN WF_executionVars(Pages(Served)) /\ WF_executionVars(Pages(Heard))
     /\ WF_executionVars(Pages(Receive))
AnalyticsFair ==
  \A c \in Calls :
    /\ WF_analyticsVars(When("analytics", Analytics!Serve(c)) \/ When("analyticsAsIs", AnalyticsAsIs!Serve(c)))
    /\ WF_analyticsVars(When("analytics", Analytics!Answered(c)) \/ When("analyticsAsIs", AnalyticsAsIs!Answered(c)))
CacheFair ==
  \A c \in Calls : /\ WF_cacheVars(When("cache", Cache!Serve(c)))
                   /\ WF_cacheVars(When("cache", Cache!Settle(c)))
TabsFair ==
  /\ WF_tabVars(When("tabs", Session!Serve(<<"tab", "main">>)) \/ When("tabsAsIs", SessionAsIs!Serve(<<"tab", "main">>)))
  /\ WF_tabVars(When("tabs", Session!MainStep("tab")) \/ When("tabsAsIs", SessionAsIs!MainStep("tab")))
SocketFair ==
  LET Parts(A(_)) == \E p \in DOMAIN SocketParts : When(p, A(SocketParts[p]))
      TimerFires(says401) == Socket(says401)!TimerFires
      Refreshed(says401) == Socket(says401)!RefreshOk \/ Socket(says401)!RefreshFailed
      Render(says401) == Socket(says401)!Render("k")
  IN /\ \A s \in {"s1", "s2", "s3", "s4"} :
          LET Tried(says401) == Socket(says401)!Opened(s) \/ Socket(says401)!Denied(s)
          IN WF_socketVars(Parts(Tried))
     /\ WF_socketVars(Parts(TimerFires)) /\ WF_socketVars(Parts(Refreshed)) /\ WF_socketVars(Parts(Render))
ErrorsFair ==
  /\ WF_errorVars(When("errors", Errors!TryAgain))
  /\ WF_errorVars(When("errors", Errors!Done \/ \E f \in Errors!Faults : Errors!Lost(f)))

PartsSpec ==
  /\ PartsInit
  /\ [][PartsNext]_<<workflowVars, executionVars, analyticsVars, cacheVars, tabVars, socketVars, errorVars, part>>
  /\ WorkflowsFair /\ ExecutionsFair /\ AnalyticsFair /\ CacheFair /\ TabsFair /\ SocketFair /\ ErrorsFair

\* Every call comes to an end: those of the REST client return, however many share a request,
\* and the attempts of one that fails run out.
CallsEnd == Cache!CallsReturn /\ Errors!CallsEnd

\* While a component is mounted and a connection wanted, somebody works on it, and it comes
\* up; with the server of this repository, until the token expires.
Reconnects ==
  /\ part # "socketAsIs" => Socket(TRUE)!Reconnects
  /\ part = "socketAsIs" => Socket(FALSE)!Reconnects

\* Every spinner goes away: of the session's check, of the table and the detail of executions,
\* of the analysis (or its page), and of the workflow pages, whose form can be used again.
SpinnersEnd ==
  /\ part \in {"tabs", "tabsAsIs"} => Session!LoadingEnds
  /\ Execution({})!SpinnersEnd
  /\ Analytics!SpinnerEnds
  /\ part \in {"workflows", "workflowsAsIs"} => BusyEnds
================================================================================
