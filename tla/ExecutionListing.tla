---------------------------- MODULE ExecutionListing ----------------------------
(***************************************************************************)
(* The read side of executions: lists in pages, the recent and the running *)
(* ones, the export and the analytics.  A read is several queries that no  *)
(* transaction holds together, so executions come, finish and go between   *)
(* them.  Reads do not change anything: one stands for all of them.  The    *)
(* reader of a list asks for its pages one after the other, as the page    *)
(* counts of the answers tell it to.                                       *)
(***************************************************************************)
EXTENDS Integers, FiniteSets, FiniteSetsExt, Sequences, SequencesExt

CONSTANTS
  Users, Flows, None,
  Owner,          \* the user of each workflow
  MaxRows,        \* bound: executions stored
  MaxChanges,     \* bound: changes of the table of executions
  Limits,         \* bound: page sizes asked for
  MaxTake,        \* 100 in the code: rows of one page
  ExportLimit,    \* 1000: rows an export asks for
  SampleSize,     \* 1000: rows that are counted by fetching them
  Kinds, Sorts,   \* bound: reads a run asks for
  ColumnsMatch    \* the raw query names the columns as the migration does; the code: FALSE

ListingAssumption ==
  /\ Owner \in [Flows -> Users] /\ None \notin Users \cup Flows /\ Limits \cup {MaxChanges} \subseteq Nat
  /\ {MaxRows, MaxTake, ExportLimit, SampleSize} \subseteq Nat \ {0}
  /\ ColumnsMatch \in BOOLEAN

VARIABLES
  rows,    \* the executions; the greater the id, the newer
  next,    \* id of the next execution
  req,     \* the read, once it was asked for
  walk,    \* what became of the reader's list since its first page was asked for
  changes

vars == <<rows, next, req, walk, changes>>

Statuses == {"RUNNING", "SUCCESS", "FAILED"}
Rank == [RUNNING |-> 1, SUCCESS |-> 2, FAILED |-> 3]
Lists == {"list", "workflow", "export"}
Counts == {"total", "success", "failed", "groups", "timed"}
NoCounts == [c \in Counts |-> None]

Request(kind, user, where, sort, page, limit) ==
  [kind |-> kind, user |-> user, where |-> where, sort |-> sort, page |-> page, limit |-> limit,
   items |-> None, total |-> None, counts |-> NoCounts, sent |-> "asked"]

TypeOK ==
  /\ rows \subseteq [id : Nat, workflowId : Flows, status : Statuses] /\ Cardinality(rows) <= MaxRows
  /\ \A d, e \in rows : e.id < next /\ (d.id = e.id => d = e)
  /\ req.sent \in {"asked", "sampled", "answered", "refused", "failed"}
  /\ req.kind \in {"list", "workflow"} => req.limit \in 1..MaxTake
  /\ walk.calm => ~walk.shrank
  /\ changes \in 0..MaxChanges

-----------------------------------------------------------------------------
\* The store, as the rest of the server changes it.

Change == changes < MaxChanges /\ changes' = changes + 1

\* A filter is a record of the columns it names.
Matches(e, where) ==
  \A k \in DOMAIN where :
    CASE k = "userId" -> Owner[e.workflowId] = where[k]
      [] k = "workflowId" -> e.workflowId = where[k]
      [] k = "status" -> e.status = where[k]

Matching(where) == {e \in rows : Matches(e, where)}
Count(where) == Cardinality(Matching(where))

Watch ==
  walk' = [walk EXCEPT !.calm = FALSE,
             !.shrank = @ \/ \E e \in Matching(req.where) : ~\E d \in rows' : d.id = e.id /\ Matches(d, req.where)]

Trigger(f) ==
  /\ Cardinality(rows) < MaxRows /\ Change
  /\ rows' = rows \cup {[id |-> next, workflowId |-> f, status |-> "RUNNING"]}
  /\ next' = next + 1 /\ Watch /\ UNCHANGED req

Finish(e, status) ==
  /\ e.status = "RUNNING" /\ Change
  /\ rows' = (rows \ {e}) \cup {[e EXCEPT !.status = status]}
  /\ Watch /\ UNCHANGED <<next, req>>

Delete(e) ==
  /\ e.status # "RUNNING" /\ Change
  /\ rows' = rows \ {e}
  /\ Watch /\ UNCHANGED <<next, req>>

-----------------------------------------------------------------------------
\* Requests: what the controllers and the service make of them.

\* A behaviour has one read, begun at any time.
Start(r) ==
  /\ req.user = None
  /\ req' = r
  /\ walk' = [seen |-> <<>>, began |-> Matching(r.where), calm |-> TRUE, shrank |-> FALSE, sampled |-> FALSE, over |-> FALSE]
  /\ UNCHANGED <<rows, next, changes>>

\* The filters of a query: any of workflow and status; times are filtered likewise.
Filters ==
  {<<>>} \cup {[workflowId |-> f] : f \in Flows} \cup {[status |-> s] : s \in Statuses}
         \cup {[workflowId |-> f, status |-> s] : f \in Flows, s \in Statuses}

Extend(filter, key, value) ==
  [k \in DOMAIN filter \cup {key} |-> IF k = key THEN value ELSE filter[k]]

Own(filter, user) == Extend(filter, "userId", user)

Clamp(limit) == Min({MaxTake, Max({1, limit})})

GetExecutions(user, filter, sort, limit) ==
  Start(Request("list", user, Own(filter, user), sort, 1, Clamp(limit)))

Answered(r) == [r EXCEPT !.sent = "answered"]

\* A workflow is looked up first; its executions are then listed whoever ran them.
Guarded(f, user, r) ==
  Start(IF Owner[f] = user THEN r ELSE [r EXCEPT !.sent = "refused"])

GetWorkflowExecutions(f, user, sort, limit) ==
  Guarded(f, user, Request("workflow", user, [workflowId |-> f], sort, 1, Clamp(limit)))

GetRecentExecutions(user, limit) ==
  Start(Request("recent", user, [userId |-> user], "startedAt", 1, limit))

GetRunningExecutions(user) ==
  Start(Request("running", user, [userId |-> user, status |-> "RUNNING"], "startedAt", 1, MaxRows))

ExportExecutions(user, filter) ==
  /\ DOMAIN filter \subseteq {"workflowId"}
  /\ Start(Request("export", user, Own(filter, user), "startedAt", 1, ExportLimit))

GetUserAnalytics(user) ==
  Start(Request("analytics", user, [userId |-> user], "startedAt", 1, 0))

GetWorkflowAnalytics(f, user) ==
  Guarded(f, user, Request("analytics", user, [workflowId |-> f], "startedAt", 1, 0))

Ask(user) ==
  \/ "list" \in Kinds /\ \E filter \in Filters, sort \in Sorts, l \in Limits : GetExecutions(user, filter, sort, l)
  \/ "workflow" \in Kinds /\ \E f \in Flows, sort \in Sorts, l \in Limits : GetWorkflowExecutions(f, user, sort, l)
  \/ "recent" \in Kinds /\ \E l \in Limits : GetRecentExecutions(user, l)
  \/ "running" \in Kinds /\ GetRunningExecutions(user)
  \/ "export" \in Kinds /\ \E filter \in Filters : ExportExecutions(user, filter)
  \/ "analytics" \in Kinds /\ GetUserAnalytics(user)
  \/ "analytics" \in Kinds /\ \E f \in Flows : GetWorkflowAnalytics(f, user)

-----------------------------------------------------------------------------
\* The repository: a page and its total are two queries.

Skip(page, limit) == (page - 1) * limit
Take(limit) == Min({limit, MaxTake})

Slice(s, skip, take) == SubSeq(s, skip + 1, Min({skip + take, Len(s)}))

\* Where an id stands among executions, and all of them, the newest first.
Place(id, S) == Cardinality({e \in S : e.id >= id})
Newest(S) == [k \in 1..Cardinality(S) |-> CHOOSE e \in S : Place(e.id, S) = k]

\* The newest come first; among executions of equal status a query has no order of its own.
Ordered(where, sort) ==
  IF sort = "startedAt" THEN {Newest(Matching(where))}
  ELSE {s \in SetToSeqs(Matching(where)) : \A i, j \in DOMAIN s : i < j => Rank[s[i].status] <= Rank[s[j].status]}

QueryPage ==
  /\ req.sent \in {"asked", "sampled"} /\ req.kind \in Lists /\ req.items = None
  /\ \E s \in Ordered(req.where, req.sort) :
       req' = [req EXCEPT !.items = Slice(s, Skip(req.page, req.limit), Take(req.limit))]
  /\ UNCHANGED <<rows, next, walk, changes>>

Exact == (req.page = 1 /\ Take(req.limit) < MaxTake) \/ Cardinality(DOMAIN req.where) <= 2

GetApproximateCount ==
  LET sample == Min({Count(req.where), SampleSize})
  IN IF Exact \/ sample < SampleSize
     THEN req' = [req EXCEPT !.total = Count(req.where)] /\ UNCHANGED walk
     ELSE req' = [req EXCEPT !.sent = "sampled"] /\ walk' = [walk EXCEPT !.sampled = TRUE]

QueryTotal ==
  /\ req.sent = "asked" /\ req.kind \in Lists /\ req.total = None
  /\ GetApproximateCount
  /\ UNCHANGED <<rows, next, changes>>

\* A full sample is taken for the share of the whole table that matches: for all of it.
QueryWhole ==
  /\ req.sent = "sampled"
  /\ req' = [req EXCEPT !.sent = "asked", !.total = Cardinality(rows)]
  /\ UNCHANGED <<rows, next, walk, changes>>

\* Mutant: the last page is counted when it is full.
MutantTotalPages(total, limit) == total \div limit

TotalPages(total, limit) == (total + limit - 1) \div limit

\* The reader goes on to the next page if the answer tells of one.
AnswerPage ==
  /\ req.sent = "asked" /\ req.items # None /\ req.total # None
  /\ LET last == req.page >= TotalPages(req.total, req.limit) \/ req.kind = "export"
     IN /\ walk' = [walk EXCEPT !.seen = @ \o req.items, !.over = last]
        /\ req' = Answered(req)
  /\ UNCHANGED <<rows, next, changes>>

NextPage ==
  /\ req.kind \in Lists /\ req.sent = "answered" /\ ~walk.over
  /\ req' = Request(req.kind, req.user, req.where, req.sort, req.page + 1, req.limit)
  /\ UNCHANGED <<rows, next, walk, changes>>

QueryRecent ==
  /\ req.sent = "asked" /\ req.kind = "recent"
  /\ req' = [Answered(req) EXCEPT !.items = Slice(Newest(Matching(req.where)), 0, req.limit)]
  /\ UNCHANGED <<rows, next, walk, changes>>

QueryRunning ==
  /\ req.sent = "asked" /\ req.kind = "running"
  /\ \E s \in SetToSeqs(Matching(req.where)) : req' = [Answered(req) EXCEPT !.items = s]
  /\ UNCHANGED <<rows, next, walk, changes>>

-----------------------------------------------------------------------------
\* The repository: analytics are five queries in any order and then a raw one.

With(where, status) == Count(Extend(where, "status", status))

Groups(where) == [s \in Statuses |-> With(where, s)]

Counted(c, where) ==
  CASE c = "total" -> Count(where)
    [] c = "success" -> With(where, "SUCCESS")
    [] c = "failed" -> With(where, "FAILED")
    [] c = "groups" -> Groups(where)
    [] c = "timed" -> With(where, "SUCCESS") + With(where, "FAILED")

QueryCount(c) ==
  /\ req.sent = "asked" /\ req.kind = "analytics" /\ req.counts[c] = None
  /\ req' = [req EXCEPT !.counts[c] = Counted(c, req.where)]
  /\ UNCHANGED <<rows, next, walk, changes>>

\* Executions by day: a raw query, which fails when a column it names does not exist.
QueryDays ==
  /\ req.sent = "asked" /\ req.kind = "analytics" /\ \A c \in Counts : req.counts[c] # None
  /\ req' = IF ColumnsMatch THEN Answered(req) ELSE [req EXCEPT !.sent = "failed"]
  /\ UNCHANGED <<rows, next, walk, changes>>

SuccessRate(counts) == IF counts.total > 0 THEN (counts.success * 100) \div counts.total ELSE 0

-----------------------------------------------------------------------------

Init ==
  /\ \E n \in 0..MaxRows : \E f \in [1..n -> Flows], s \in [1..n -> Statuses] :
       rows = {[id |-> i, workflowId |-> f[i], status |-> s[i]] : i \in 1..n} /\ next = n + 1
  /\ req = Answered(Request("recent", None, <<>>, "startedAt", 1, 0))
  /\ walk = [seen |-> <<>>, began |-> {}, calm |-> TRUE, shrank |-> FALSE, sampled |-> FALSE, over |-> TRUE]
  /\ changes = 0

Next ==
  \/ \E f \in Flows : Trigger(f)
  \/ \E e \in rows : Delete(e) \/ \E s \in {"SUCCESS", "FAILED"} : Finish(e, s)
  \/ \E u \in Users : Ask(u)
  \/ QueryPage \/ QueryTotal \/ QueryWhole \/ AnswerPage \/ NextPage
  \/ QueryRecent \/ QueryRunning
  \/ \E c \in Counts : QueryCount(c)
  \/ QueryDays

Spec == Init /\ [][Next]_vars

-----------------------------------------------------------------------------

Walked == req.kind \in Lists /\ req.sent = "answered" /\ walk.over

\* With nothing changed meanwhile, the pages of a list sorted by time that was counted exactly
\* are the executions that match, each of them once and in order.
WalkComplete ==
  Walked /\ walk.calm /\ ~walk.sampled /\ req.kind # "export" /\ req.sort = "startedAt"
    => walk.seen = Newest(walk.began)

Ids(s) == {s[i].id : i \in DOMAIN s}

\* While executions only come, pages repeat executions and never leave one out in the middle:
\* of those there from the start, one newer than another that was shown was shown too.
NoHole ==
  req.kind \in Lists /\ req.sort = "startedAt" /\ ~walk.shrank =>
    \A d, e \in walk.began : d.id < e.id /\ d.id \in Ids(walk.seen) => e.id \in Ids(walk.seen)

\* With nothing changed meanwhile, the five answers of the analytics are of one table.
CountsAgree ==
  req.kind = "analytics" /\ req.sent = "answered" /\ walk.calm =>
    /\ req.counts.total = req.counts.groups["RUNNING"] + req.counts.groups["SUCCESS"] + req.counts.groups["FAILED"]
    /\ req.counts.success = req.counts.groups["SUCCESS"] /\ req.counts.failed = req.counts.groups["FAILED"]
    /\ SuccessRate(req.counts) \in 0..100
=============================================================================
